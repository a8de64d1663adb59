--------------------- MODULE RemoteOutputServiceDirectory ---------------------
(***************************************************************************)
(* The output path registry and build session state machine of            *)
(* RemoteOutputServiceDirectory                                            *)
(* (src/pkg/filesystem/virtual/remote_output_service_directory.go).        *)
(*                                                                         *)
(* Every outputPathState is identified by its cookie: the code assigns    *)
(* cookie = changeID on creation and increments changeID on every         *)
(* creation and removal, so cookies are unique for the life of the        *)
(* process.  The circular list headed by d.outputPaths is kept as the two *)
(* pointer functions previous and next, including the stale pointers a    *)
(* detached outputPathState keeps.  Every critical section under d.lock   *)
(* is one atomic action; a gRPC handler that releases the lock and takes  *)
(* it again is a goroutine with a program counter.  The kernel side of    *)
(* VirtualReadDir is one reader resuming an enumeration by cookie.        *)
(***************************************************************************)
EXTENDS Integers, Sequences, FiniteSets, TLC

CONSTANTS
    OutputBases,   \* output base IDs used by clients
    BuildIDs,      \* build IDs used by clients
    Clients,       \* goroutines running gRPC handlers concurrently
    NoBuild,       \* outputPathState.buildState == nil
    MaxChangeID    \* StartBuild creates output paths only while changeID < MaxChangeID

ASSUME MaxChangeID \in Nat \ {0} /\ NoBuild \notin BuildIDs

\* The sentinel d.outputPaths that heads the circular list.
OutputPaths == -1
\* A nil *outputPathState held by a handler.
Nil == -2
Cookies == 0 .. MaxChangeID - 1
Nodes == Cookies \cup {OutputPaths}

VARIABLES
    changeID,       \* d.changeID
    outputBaseIDs,  \* d.outputBaseIDs: output base -> cookie of its state
    buildIDs,       \* d.buildIDs: build ID -> cookie of its state
    buildState,     \* cookie -> id of outputPathState.buildState, or NoBuild
    outputBaseID,   \* cookie -> outputPathState.outputBaseID
    previous,       \* node -> outputPathState.previous
    next,           \* node -> outputPathState.next
    pc,             \* client -> where its handler is
    req,            \* client -> the request's output base, build ID and
                    \*           the outputPathState the handler holds
    dirPhase,       \* "idle", "reading" or "done": the kernel's enumeration
    dirCookie,      \* the cookie the next VirtualReadDir call passes
    dirSeen,        \* cookies of the entries reported so far
    dirInOrder,     \* every entry came after all those reported before it
    dirStart        \* cookies registered when the enumeration began

registry == <<changeID, outputBaseIDs, buildIDs, buildState, outputBaseID,
              previous, next>>
reader == <<dirPhase, dirCookie, dirSeen, dirInOrder, dirStart>>
vars == <<registry, pc, req, reader>>

Range(f) == {f[x] : x \in DOMAIN f}
\* Deleting key k from a Go map.
Delete(f, k) == [x \in DOMAIN f \ {k} |-> f[x]]

\* The list d.outputPaths.next, next.next, ... up to the sentinel, walked
\* at most fuel steps so that a corrupted list still gives a value.
RECURSIVE ListFrom(_, _)
ListFrom(n, fuel) ==
    IF n = OutputPaths \/ fuel = 0 THEN <<>>
    ELSE <<n>> \o ListFrom(next[n], fuel - 1)

List == ListFrom(next[OutputPaths], MaxChangeID + 1)

TypeOK ==
    /\ changeID \in 0 .. 2 * MaxChangeID
    /\ DOMAIN outputBaseID \subseteq Cookies
    /\ outputBaseID \in [DOMAIN outputBaseID -> OutputBases]
    /\ buildState \in [DOMAIN outputBaseID -> BuildIDs \cup {NoBuild}]
    /\ DOMAIN outputBaseIDs \subseteq OutputBases
    /\ Range(outputBaseIDs) \subseteq DOMAIN outputBaseID
    /\ DOMAIN buildIDs \subseteq BuildIDs
    /\ Range(buildIDs) \subseteq DOMAIN outputBaseID
    /\ DOMAIN previous = DOMAIN outputBaseID \cup {OutputPaths}
    /\ DOMAIN next = DOMAIN previous
    /\ Range(previous) \cup Range(next) \subseteq Nodes
    /\ pc \in [Clients -> {"idle", "cleanRemoveAll", "cleanCommit",
                           "cleanFactory", "filter"}]
    /\ req \in [Clients -> [ob : OutputBases, b : BuildIDs \cup {NoBuild},
                            st : Cookies \cup {Nil}]]
    /\ dirPhase \in {"idle", "reading", "done"}
    /\ dirCookie \in 0 .. MaxChangeID
    /\ dirSeen \subseteq Cookies
    /\ dirInOrder \in BOOLEAN
    /\ dirStart \subseteq Cookies

Init ==
    /\ changeID = 0
    /\ outputBaseIDs = <<>>
    /\ buildIDs = <<>>
    /\ buildState = <<>>
    /\ outputBaseID = <<>>
    /\ previous = (OutputPaths :> OutputPaths)
    /\ next = (OutputPaths :> OutputPaths)
    /\ pc = [t \in Clients |-> "idle"]
    /\ req = [t \in Clients |->
                [ob |-> CHOOSE ob \in OutputBases : TRUE, b |-> NoBuild, st |-> Nil]]
    /\ dirPhase = "idle"
    /\ dirCookie = 0
    /\ dirSeen = {}
    /\ dirInOrder = TRUE
    /\ dirStart = {}

-----------------------------------------------------------------------------
(* Clean(): look the output base up under the lock, remove the contents   *)
(* without it, then take the lock again to unregister the state, but only *)
(* if it is still the one registered for the output base.                 *)

CleanLookup(t, ob) ==
    /\ pc[t] = "idle"
    /\ req' = [req EXCEPT ![t] =
                 [ob |-> ob, b |-> NoBuild,
                  st |-> IF ob \in DOMAIN outputBaseIDs THEN outputBaseIDs[ob] ELSE Nil]]
    /\ pc' = [pc EXCEPT ![t] = IF ob \in DOMAIN outputBaseIDs
                                 THEN "cleanRemoveAll" ELSE "cleanFactory"]
    /\ UNCHANGED <<registry, reader>>

\* rootDirectory.RemoveAllChildren(true), outside the lock.  The contents of
\* the tree are not part of this module; an error returns from Clean().
CleanRemoveAllChildren(t) ==
    /\ pc[t] = "cleanRemoveAll"
    /\ \/ pc' = [pc EXCEPT ![t] = "cleanCommit"]
       \/ pc' = [pc EXCEPT ![t] = "idle"]
    /\ UNCHANGED <<registry, req, reader>>

\* Faulty variant of Unregister: the removal is not counted in changeID.
UnregisterUncounted(ob, s) ==
    /\ outputBaseIDs' = Delete(outputBaseIDs, ob)
    /\ next' = [next EXCEPT ![previous[s]] = next[s]]
    /\ previous' = [previous EXCEPT ![next[s]] = previous[s]]
    /\ IF buildState[s] # NoBuild
         THEN /\ buildIDs' = Delete(buildIDs, buildState[s])
              /\ buildState' = [buildState EXCEPT ![s] = NoBuild]
         ELSE UNCHANGED <<buildIDs, buildState>>
    /\ UNCHANGED <<outputBaseID, changeID>>

\* Faulty variant of Unregister: outputPathState.next.previous is not
\* rewired.
UnregisterHalfUnlinked(ob, s) ==
    /\ outputBaseIDs' = Delete(outputBaseIDs, ob)
    /\ next' = [next EXCEPT ![previous[s]] = next[s]]
    /\ changeID' = changeID + 1
    /\ IF buildState[s] # NoBuild
         THEN /\ buildIDs' = Delete(buildIDs, buildState[s])
              /\ buildState' = [buildState EXCEPT ![s] = NoBuild]
         ELSE UNCHANGED <<buildIDs, buildState>>
    /\ UNCHANGED <<outputBaseID, previous>>

\* The body of the identity check: unlink s, count the change, and
\* force-close a build running on it.
Unregister(ob, s) ==
    /\ outputBaseIDs' = Delete(outputBaseIDs, ob)
    /\ next' = [next EXCEPT ![previous[s]] = next[s]]
    /\ previous' = [previous EXCEPT ![next[s]] = previous[s]]
    /\ changeID' = changeID + 1
    /\ IF buildState[s] # NoBuild
         THEN /\ buildIDs' = Delete(buildIDs, buildState[s])
              /\ buildState' = [buildState EXCEPT ![s] = NoBuild]
         ELSE UNCHANGED <<buildIDs, buildState>>
    /\ UNCHANGED outputBaseID

\* Faulty variant of CleanCommit: no check that the state looked up is
\* still the one registered for the output base.
CleanCommitUnchecked(t) ==
    /\ pc[t] = "cleanCommit"
    /\ IF req[t].ob \in DOMAIN outputBaseIDs
         THEN Unregister(req[t].ob, req[t].st)
         ELSE UNCHANGED registry
    /\ pc' = [pc EXCEPT ![t] = "idle"]
    /\ UNCHANGED <<req, reader>>

\* Taking the lock again; d.handle.NotifyRemoval() follows and changes
\* nothing modelled here.
CleanCommit(t) ==
    LET ob == req[t].ob
        s  == req[t].st
    IN /\ pc[t] = "cleanCommit"
       /\ IF ob \in DOMAIN outputBaseIDs /\ outputBaseIDs[ob] = s
            THEN Unregister(ob, s)
            ELSE UNCHANGED registry
       /\ pc' = [pc EXCEPT ![t] = "idle"]
       /\ UNCHANGED <<req, reader>>

\* d.outputPathFactory.Clean(): the output base was not registered when it
\* was looked up, and the persistent state of it is removed, outside the lock.
CleanFactory(t) ==
    /\ pc[t] = "cleanFactory"
    /\ pc' = [pc EXCEPT ![t] = "idle"]
    /\ UNCHANGED <<registry, req, reader>>

-----------------------------------------------------------------------------
(* StartBuild(): the critical section, then filterMissingChildren() on    *)
(* the output path outside the lock.                                      *)

\* Faulty variant of ReuseOutputPath: the superseded build ID stays in
\* d.buildIDs.
ReuseOutputPathKeepingOld(s, b) ==
    /\ buildIDs' = buildIDs @@ (b :> s)
    /\ buildState' = [buildState EXCEPT ![s] = b]
    /\ UNCHANGED <<changeID, outputBaseIDs, outputBaseID, previous, next>>

\* An output path exists for the output base: force-finalize the build
\* running on it and install the new one.
ReuseOutputPath(s, b) ==
    /\ buildIDs' = [x \in (DOMAIN buildIDs \ {buildState[s]}) \cup {b} |->
                      IF x = b THEN s ELSE buildIDs[x]]
    /\ buildState' = [buildState EXCEPT ![s] = b]
    /\ UNCHANGED <<changeID, outputBaseIDs, outputBaseID, previous, next>>

\* No output path exists for the output base: create one with cookie
\* changeID, append it at the tail of the list, and install the build.
CreateOutputPath(ob, b) ==
    LET s    == changeID
        tail == previous[OutputPaths]
    IN /\ changeID < MaxChangeID
       /\ outputBaseID' = outputBaseID @@ (s :> ob)
       /\ buildState' = buildState @@ (s :> b)
       /\ outputBaseIDs' = outputBaseIDs @@ (ob :> s)
       /\ next' = [next EXCEPT ![tail] = s] @@ (s :> OutputPaths)
       /\ previous' = [previous EXCEPT ![OutputPaths] = s] @@ (s :> tail)
       /\ changeID' = changeID + 1
       /\ buildIDs' = buildIDs @@ (b :> s)

StartBuildLocked(t, ob, b) ==
    /\ pc[t] = "idle"
    /\ \/ /\ b \in DOMAIN buildIDs
          /\ UNCHANGED registry
          /\ req' = [req EXCEPT ![t] = [ob |-> ob, b |-> b, st |-> buildIDs[b]]]
       \/ /\ b \notin DOMAIN buildIDs
          /\ ob \in DOMAIN outputBaseIDs
          /\ ReuseOutputPath(outputBaseIDs[ob], b)
          /\ req' = [req EXCEPT ![t] = [ob |-> ob, b |-> b, st |-> outputBaseIDs[ob]]]
       \/ /\ b \notin DOMAIN buildIDs
          /\ ob \notin DOMAIN outputBaseIDs
          /\ CreateOutputPath(ob, b)
          /\ req' = [req EXCEPT ![t] = [ob |-> ob, b |-> b, st |-> changeID]]
    /\ pc' = [pc EXCEPT ![t] = "filter"]
    /\ UNCHANGED reader

\* filterMissingChildren() on the state read under the lock, which may have
\* been unregistered or taken over by another build since; its effect on
\* the tree is the subject of MissingBlobFilter.
StartBuildFilter(t) ==
    /\ pc[t] = "filter"
    /\ pc' = [pc EXCEPT ![t] = "idle"]
    /\ UNCHANGED <<registry, req, reader>>

-----------------------------------------------------------------------------
\* FinalizeBuild(): one critical section; unknown build IDs are ignored.
FinalizeBuild(t, b) ==
    /\ pc[t] = "idle"
    /\ IF b \in DOMAIN buildIDs
         THEN LET s == buildIDs[b] IN
              /\ buildIDs' = Delete(buildIDs, buildState[s])
              /\ buildState' = [buildState EXCEPT ![s] = NoBuild]
         ELSE UNCHANGED <<buildIDs, buildState>>
    /\ UNCHANGED <<changeID, outputBaseIDs, outputBaseID, previous, next,
                   pc, req, reader>>

-----------------------------------------------------------------------------
(* VirtualReadDir(): skip the states whose cookie is below firstCookie,   *)
(* then report the rest in list order until the reporter is full; each    *)
(* entry carries cookie + 1 as the offset to resume from.  A call that    *)
(* reports nothing ends the enumeration.                                  *)

ReadDirBegin ==
    /\ dirPhase # "reading"
    /\ dirPhase' = "reading"
    /\ dirCookie' = 0
    /\ dirSeen' = {}
    /\ dirInOrder' = TRUE
    /\ dirStart' = Range(outputBaseIDs)
    /\ UNCHANGED <<registry, pc, req>>

\* Index in List of the first state with cookie >= firstCookie, or 0.
FirstAtOrPast(firstCookie) ==
    LET l == List
        I == {i \in 1 .. Len(l) : l[i] >= firstCookie}
    IN IF I = {} THEN 0 ELSE CHOOSE i \in I : \A j \in I : i <= j

\* Faulty variant of EntryOffset: one past the next entry.
EntryOffsetSkipping(c) == c + 2

\* Faulty variant of EntryOffset: the entry's own cookie.
EntryOffsetSame(c) == c

\* The offset the reporter is given for the entry of cookie c.
EntryOffset(c) == c + 1

VirtualReadDir ==
    LET l     == List
        first == FirstAtOrPast(dirCookie)
    IN /\ dirPhase = "reading"
       /\ \/ /\ first = 0
             /\ dirPhase' = "done"
             /\ UNCHANGED <<dirCookie, dirSeen, dirInOrder>>
          \/ /\ first # 0
             /\ \E last \in first .. Len(l) :
                  /\ dirSeen' = dirSeen \cup {l[i] : i \in first .. last}
                  /\ dirInOrder' = /\ dirInOrder
                                   /\ \A i \in first .. last : \A c \in dirSeen : c < l[i]
                                   /\ \A i \in first .. last - 1 : l[i] < l[i + 1]
                  /\ dirCookie' = EntryOffset(l[last])
             /\ UNCHANGED dirPhase
       /\ UNCHANGED <<registry, pc, req, dirStart>>

-----------------------------------------------------------------------------
(* Read-only calls, as the values they return.                            *)

\* getOutputPathAndBuildState(): what BatchCreate() and BatchStat() act on,
\* or FailedPrecondition.
GetOutputPathAndBuildState(b) ==
    IF b \in DOMAIN buildIDs
      THEN [ok |-> TRUE, st |-> buildIDs[b], b |-> buildState[buildIDs[b]]]
      ELSE [ok |-> FALSE, st |-> Nil, b |-> NoBuild]

\* virtual.EmptyDirectoryLinkCount
EmptyDirectoryLinkCount == 2

\* VirtualGetAttributes(): the change ID and link count of the directory.
DirectoryAttributes ==
    [changeID |-> changeID,
     linkCount |-> EmptyDirectoryLinkCount + Cardinality(DOMAIN outputBaseIDs)]

-----------------------------------------------------------------------------
Next ==
    \/ \E t \in Clients :
         \/ \E ob \in OutputBases : CleanLookup(t, ob)
         \/ CleanRemoveAllChildren(t)
         \/ CleanCommit(t)
         \/ CleanFactory(t)
         \/ \E ob \in OutputBases, b \in BuildIDs : StartBuildLocked(t, ob, b)
         \/ StartBuildFilter(t)
         \/ \E b \in BuildIDs : FinalizeBuild(t, b)
    \/ ReadDirBegin
    \/ VirtualReadDir

Spec == Init /\ [][Next]_vars

\* The kernel keeps calling VirtualReadDir() on an open directory until a
\* call reports no entries; the handlers need no fairness.
LiveSpec == Spec /\ WF_vars(VirtualReadDir)

-----------------------------------------------------------------------------
(***************************************************************************)
(* Properties                                                              *)
(***************************************************************************)

\* The circular list that VirtualReadDir() walks holds exactly the output
\* paths registered in d.outputBaseIDs, in strictly increasing cookie order,
\* with previous the inverse of next, even when two Clean() calls and a
\* StartBuild() on the same output base interleave around the unlocked
\* RemoveAllChildren().
ListMatchesRegistry ==
    LET l == List
        n == Len(l)
    IN /\ {l[i] : i \in 1 .. n} = Range(outputBaseIDs)
       /\ n = Cardinality(Range(outputBaseIDs))
       /\ \A i \in 1 .. n - 1 : l[i] < l[i + 1]
       /\ \A i \in 1 .. n : previous[l[i]] = IF i = 1 THEN OutputPaths ELSE l[i - 1]
       /\ previous[OutputPaths] = IF n = 0 THEN OutputPaths ELSE l[n]
       /\ n = 0 \/ next[l[n]] = OutputPaths
       /\ \A ob \in DOMAIN outputBaseIDs : outputBaseID[outputBaseIDs[ob]] = ob

\* d.buildIDs and the buildState fields agree: a build ID accepted by
\* BatchCreate()/BatchStat() names a registered output path whose running
\* build is that ID, every running build is reachable by its ID, and an
\* output path detached by Clean() runs no build.  Breaking it takes a
\* StartBuild() that supersedes or a Clean() that races another call.
BuildIDsMatchBuildStates ==
    /\ \A b \in DOMAIN buildIDs :
         /\ buildIDs[b] \in Range(outputBaseIDs)
         /\ buildState[buildIDs[b]] = b
    /\ \A s \in DOMAIN buildState :
         buildState[s] # NoBuild =>
            /\ s \in Range(outputBaseIDs)
            /\ buildState[s] \in DOMAIN buildIDs
            /\ buildIDs[buildState[s]] = s

\* A VirtualReadDir() enumeration resumed by cookie reports no output path
\* twice, reports them in cookie order, and misses none that was registered
\* from its start to its end, whatever StartBuild() and Clean() did between
\* the calls.
ReadDirResumesExactly ==
    dirPhase = "done" =>
       /\ dirInOrder
       /\ dirStart \cap Range(outputBaseIDs) \subseteq dirSeen

\* The change ID VirtualGetAttributes() reports never goes back and moves on
\* every step that adds or removes an entry of the directory, so that the
\* kernel never keeps a cached listing or link count that is out of date.
ChangeIDTracksEntries ==
    [][/\ DirectoryAttributes'.changeID >= DirectoryAttributes.changeID
       /\ Range(outputBaseIDs') # Range(outputBaseIDs) =>
             DirectoryAttributes'.changeID > DirectoryAttributes.changeID]_vars

\* A directory listing the kernel has started ends: VirtualReadDir(),
\* resumed at the offset of the last entry it reported, reaches the end of
\* the list while StartBuild() appends and Clean() unlinks output paths.
ReadDirTerminates == dirPhase = "reading" ~> dirPhase = "done"

\* The registry implements BuildSessions: the output bases with an output
\* path, and the build IDs getOutputPathAndBuildState() accepts with the
\* output base each one writes to, change only as StartBuild(),
\* FinalizeBuild() and Clean() promise, whatever the handlers interleave.
Sessions == INSTANCE BuildSessions WITH
    registered <- DOMAIN outputBaseIDs,
    sessions <- [b \in {x \in BuildIDs : GetOutputPathAndBuildState(x).ok} |->
                   outputBaseID[GetOutputPathAndBuildState(b).st]]
ImplementsBuildSessions == Sessions!Spec

\* StartBuild() leaves the build ID it was given running on the output path
\* of the output base it was given (spec 4.2: start resolves or creates the
\* output path of outputBase and installs the new build on it).
StartBuildBindsOutputBase ==
    [][\A t \in Clients :
         (pc[t] = "idle" /\ pc'[t] = "filter") =>
            outputBaseID'[req'[t].st] = req'[t].ob]_vars

\* The outputPathFactory.Clean() fallback only runs for an output base that
\* has no in-memory output path ("This output path hasn't been accessed
\* since startup").
FactoryCleanOnlyUnloaded ==
    [][\A t \in Clients :
         (pc[t] = "cleanFactory" /\ pc'[t] = "idle") =>
            req[t].ob \notin DOMAIN outputBaseIDs]_vars
==============================================================================
