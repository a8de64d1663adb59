------------------------- MODULE OutputPathContents -------------------------
(***************************************************************************)
(* The registry of RemoteOutputServiceDirectory composed with the          *)
(* contents of the output paths it hands out                               *)
(* (src/pkg/filesystem/virtual/remote_output_service_directory.go).        *)
(*                                                                         *)
(* The handlers' registry steps are those of                               *)
(* RemoteOutputServiceDirectory; no kernel reader runs here.  Each step    *)
(* that touches a tree outside d.lock adds its effect on the tree:         *)
(* Clean()'s RemoveAllChildren(), StartBuild()'s filterMissingChildren()   *)
(* and BatchCreate(), which checks its build ID under the lock and writes  *)
(* into the output path it got after releasing it.  A tree is abstracted   *)
(* to one entry per name, and a file's digest to whether the CAS holds     *)
(* its blob: the path walkers are the subject of BatchCreate, the          *)
(* batching of the filter that of MissingBlobFilter.                       *)
(***************************************************************************)
EXTENDS Integers, FiniteSets

CONSTANTS
    OutputBases, BuildIDs, Clients, NoBuild, MaxChangeID,
    Names          \* the names an output path's entries may have

VARIABLES
    changeID, outputBaseIDs, buildIDs, buildState, outputBaseID,
    previous, next, pc, req,
    dirPhase, dirCookie, dirSeen, dirInOrder, dirStart,  \* stay as Init sets them
    tree,      \* cookie -> name -> the entry of the output path's tree
    filtered,  \* cookie -> the build whose StartBuild() filtered the tree
               \*           since that build was installed, or NoBuild
    stale,     \* client -> a build was installed on the output path its
               \*           BatchCreate() validated against, or its
               \*           StartBuild() installed a build on, since then
    captured   \* client -> the children its filter visited, by name

R == INSTANCE RemoteOutputServiceDirectory

registry == <<changeID, outputBaseIDs, buildIDs, buildState, outputBaseID,
              previous, next>>
reader == <<dirPhase, dirCookie, dirSeen, dirInOrder, dirStart>>
contents == <<tree, filtered, stale, captured>>
vars == <<registry, pc, req, reader, contents>>

\* Whether the CAS holds the blob a file's digest names.
Blobs == {"present", "missing"}
\* An entry: its blob, the build whose BatchCreate() wrote it (NoBuild for
\* contents restored by StartInitialBuild()), and whether that request
\* validated its build before another build was installed on the output path.
Entry(blob, by, old) == [blob |-> blob, by |-> by, stale |-> old]
Absent == Entry("none", NoBuild, FALSE)
Entries == {Absent} \cup
           {Entry(bl, by, old) : bl \in Blobs, by \in BuildIDs \cup {NoBuild},
                                 old \in BOOLEAN}
EmptyTree == [n \in Names |-> Absent]
\* The steps of a request that has released d.lock and still works on the
\* output path it read under it.
InFlight == {"create", "filter", "findMissing"}
\* outputPathFactory.StartInitialBuild() may bring back the contents that a
\* persistent output path kept from before the process started.
Restored == [Names -> {Absent} \cup {Entry(bl, NoBuild, FALSE) : bl \in Blobs}]

Init ==
    /\ R!Init
    /\ tree = [s \in R!Cookies |-> EmptyTree]
    /\ filtered = [s \in R!Cookies |-> NoBuild]
    /\ stale = [t \in Clients |-> FALSE]
    /\ captured = [t \in Clients |-> EmptyTree]

-----------------------------------------------------------------------------
(* Clean()                                                                 *)

CleanLookup(t, ob) == R!CleanLookup(t, ob) /\ UNCHANGED contents

\* RemoveAllChildren(true) on the state looked up, outside the lock; it
\* empties the tree, or fails and Clean() returns.
CleanRemoveAllChildren(t) ==
    /\ R!CleanRemoveAllChildren(t)
    /\ \/ /\ pc'[t] = "cleanCommit"
          /\ tree' = [tree EXCEPT ![req[t].st] = EmptyTree]
       \/ /\ pc'[t] = "idle"
          /\ UNCHANGED tree
    /\ UNCHANGED <<filtered, stale, captured>>

CleanCommit(t) == R!CleanCommit(t) /\ UNCHANGED contents

CleanFactory(t) == R!CleanFactory(t) /\ UNCHANGED contents

-----------------------------------------------------------------------------
(* StartBuild()                                                            *)

\* The critical section.  A new output path starts with the contents
\* StartInitialBuild() gives it.  Installing a build (a new one, or one
\* superseding the build running there) leaves the tree unfiltered for it
\* and turns the BatchCreate() calls and filters in flight on that output
\* path stale.
StartBuildLocked(t, ob, b) ==
    /\ R!StartBuildLocked(t, ob, b)
    /\ LET s == req'[t].st IN
       /\ IF s \in DOMAIN outputBaseID
            THEN UNCHANGED tree
            ELSE \E r \in Restored : tree' = [tree EXCEPT ![s] = r]
       /\ IF b \in DOMAIN buildIDs
            THEN UNCHANGED filtered /\ stale' = [stale EXCEPT ![t] = FALSE]
            ELSE /\ filtered' = [filtered EXCEPT ![s] = NoBuild]
                 /\ stale' = [u \in Clients |->
                                IF u = t THEN FALSE
                                ELSE stale[u] \/ (pc[u] \in InFlight /\ req[u].st = s)]
    /\ UNCHANGED captured

\* filterMissingChildren(), FilterChildren(): the children of the output
\* path read under the lock are visited and each one's ChildRemover is
\* queued under its digests.  The tree is not locked against BatchCreate()
\* or another StartBuild()'s filter while the removers wait.
FilterChildren(t) ==
    /\ pc[t] = "filter"
    /\ captured' = [captured EXCEPT ![t] = tree[req[t].st]]
    /\ pc' = [pc EXCEPT ![t] = "findMissing"]
    /\ UNCHANGED <<registry, req, reader, tree, filtered, stale>>

\* Faulty variant of Removes: the remover deletes whatever child has the
\* name now.
RemovesByName(t, s, n) == TRUE

\* A ChildRemover removes the child FilterChildren() visited, if that child
\* is still in place: a child created under its name since is not touched.
Removes(t, s, n) == tree[s][n] = captured[t][n]

FindMissingAndRemove(t) ==
    LET s == req[t].st
        Missing(n) == captured[t][n].blob = "missing" /\ Removes(t, s, n)
        Without(done) == [n \in Names |-> IF n \in done /\ Missing(n) THEN Absent
                                                                     ELSE tree[s][n]]
    IN
    /\ pc[t] = "findMissing"
    /\ \/ /\ tree' = [tree EXCEPT ![s] = Without(Names)]
          /\ filtered' = IF buildState[s] = req[t].b /\ ~stale[t]
                           THEN [filtered EXCEPT ![s] = req[t].b]
                           ELSE filtered
       \/ /\ \E done \in SUBSET Names : tree' = [tree EXCEPT ![s] = Without(done)]
          /\ UNCHANGED filtered
    /\ captured' = [captured EXCEPT ![t] = EmptyTree]
    /\ pc' = [pc EXCEPT ![t] = "idle"]
    /\ UNCHANGED <<registry, req, reader, stale>>

-----------------------------------------------------------------------------
FinalizeBuild(t, b) == R!FinalizeBuild(t, b) /\ UNCHANGED contents

-----------------------------------------------------------------------------
(* BatchCreate(): getOutputPathAndBuildState() under the lock, then the    *)
(* walkers create entries in that output path's tree without it.  A build  *)
(* ID no build runs under fails with FailedPrecondition and changes        *)
(* nothing.                                                                *)

BatchCreateValidate(t, b) ==
    LET got == R!GetOutputPathAndBuildState(b) IN
    /\ pc[t] = "idle"
    /\ got.ok
    /\ pc' = [pc EXCEPT ![t] = "create"]
    /\ req' = [req EXCEPT ![t] = [ob |-> outputBaseID[got.st], b |-> b, st |-> got.st]]
    /\ stale' = [stale EXCEPT ![t] = FALSE]
    /\ UNCHANGED <<registry, reader, tree, filtered, captured>>

\* The request's prefix is the output path's root.  With CleanPathPrefix
\* set, RemoveAllChildren(false) empties it first; then a file of either
\* kind of blob is created under some name, replacing what was there.  The
\* request may fail, or list nothing, before or after the cleaning.
BatchCreateWrite(t) ==
    LET s == req[t].st IN
    /\ pc[t] = "create"
    /\ \E clean \in BOOLEAN :
         LET base == IF clean THEN EmptyTree ELSE tree[s] IN
         \/ \E n \in Names, bl \in Blobs :
               tree' = [tree EXCEPT ![s] = [base EXCEPT ![n] = Entry(bl, req[t].b, stale[t])]]
         \/ tree' = [tree EXCEPT ![s] = base]
    /\ pc' = [pc EXCEPT ![t] = "idle"]
    /\ UNCHANGED <<registry, req, reader, filtered, stale, captured>>

-----------------------------------------------------------------------------
Next ==
    \E t \in Clients :
       \/ \E ob \in OutputBases : CleanLookup(t, ob)
       \/ CleanRemoveAllChildren(t)
       \/ CleanCommit(t)
       \/ CleanFactory(t)
       \/ \E ob \in OutputBases, b \in BuildIDs : StartBuildLocked(t, ob, b)
       \/ FilterChildren(t)
       \/ FindMissingAndRemove(t)
       \/ \E b \in BuildIDs : FinalizeBuild(t, b)
       \/ \E b \in BuildIDs : BatchCreateValidate(t, b)
       \/ BatchCreateWrite(t)

Spec == Init /\ [][Next]_vars

-----------------------------------------------------------------------------
(***************************************************************************)
(* Properties                                                              *)
(***************************************************************************)

\* Once StartBuild() has filtered the output path of the build running on
\* it, a file whose blob the CAS lacks is there only because that build
\* created it, or because a BatchCreate() that had validated an earlier
\* build before this one was installed wrote it late.  No new request of a
\* superseded or finalized build, no Clean() and no restored content gets
\* a missing file past the filter.
ActiveTreeVerified ==
    \A s \in R!Range(outputBaseIDs) :
       LET b == buildState[s] IN
       b # NoBuild /\ filtered[s] = b =>
          \A n \in Names :
             tree[s][n].blob = "missing" => tree[s][n].by = b \/ tree[s][n].stale

FilterGuaranteeHolds ==
    \A s \in R!Range(outputBaseIDs) :
       LET b == buildState[s] IN
       b # NoBuild /\ filtered[s] = b =>
          \A n \in Names : tree[s][n].blob = "missing" => tree[s][n].by = b
==============================================================================
