----------------------------- MODULE BatchCreate -----------------------------
(***************************************************************************)
(* BatchCreate() of RemoteOutputServiceDirectory, with its                 *)
(* directoryCreatingComponentWalker, parentDirectoryCreatingComponentWalker *)
(* and createChild()                                                      *)
(* (src/pkg/filesystem/virtual/remote_output_service_directory.go).        *)
(*                                                                         *)
(* One request runs against an output path that nothing else changes      *)
(* meanwhile.  The tree is a heap of nodes, so that a walker's stack holds *)
(* directories, not paths: a directory replaced while it is on a stack    *)
(* stays on the stack, detached.  path.Resolve() with a relative scope    *)
(* hands the walker the components one at a time; relative paths only.   *)
(* The PrepopulatedDirectory primitives are modelled by their contract:   *)
(* CreateAndEnterPrepopulatedDirectory() enters a directory or replaces   *)
(* whatever else has the name by an empty one; CreateChildren(..., true)  *)
(* replaces whatever has the name; RemoveAllChildren() empties the        *)
(* directory; a directory no longer in the tree refuses both creations    *)
(* with ENOENT.  Contents fetched lazily from the CAS are not modelled: a *)
(* created directory starts empty.                                        *)
(***************************************************************************)
EXTENDS Integers, Sequences, SequencesExt, FiniteSets, TLC

CONSTANTS
    Names,           \* pathname components
    MaxPathLength,   \* components of a requested path, at most
    MaxEntries       \* files, directories and symlinks of a request, at most

Up == ".."
Comp == Names \cup {Up}
Kinds == {"dir", "file", "symlink"}

\* Node 1 is outputPathState.rootDirectory; 0 is no node.  Every component
\* of the prefix and of the entries creates at most one node.
NoNode == 0
Root == 1
Ids == 1 .. 1 + Cardinality(Names) + MaxPathLength * (MaxEntries + 1)
NoChildren == [n \in Names |-> NoNode]
NodeRec(k) == [kind |-> k, child |-> NoChildren]

\* Output paths of depth one: the root's child named NameOrder[i] is node i + 1.
NameOrder == SetToSeq(Names)
InitialNodes(top) ==
    [i \in Ids |->
       IF i = Root
       THEN [kind |-> "dir",
             child |-> [n \in Names |->
                          IF top[n] = "none" THEN NoNode
                          ELSE 1 + CHOOSE j \in 1 .. Len(NameOrder) : NameOrder[j] = n]]
       ELSE IF i - 1 \in 1 .. Len(NameOrder) /\ top[NameOrder[i - 1]] # "none"
       THEN NodeRec(top[NameOrder[i - 1]])
       ELSE NodeRec("free")]

\* The nodes reachable from id.
RECURSIVE Reach(_, _)
Reach(nd, id) ==
    {id} \cup UNION {Reach(nd, nd[id].child[n]) : n \in {m \in Names : nd[id].child[m] # NoNode}}

\* The output path as a function from paths to kinds.
RECURSIVE PathPairs(_, _, _)
PathPairs(nd, id, p) ==
    {<<p, nd[id].kind>>}
      \cup UNION {PathPairs(nd, nd[id].child[n], Append(p, n)) :
                    n \in {m \in Names : nd[id].child[m] # NoNode}}
PathView(nd) ==
    LET S == PathPairs(nd, Root, <<>>)
    IN  [p \in {s[1] : s \in S} |-> (CHOOSE s \in S : s[1] = p)[2]]

PathsUpTo(n) == UNION {[1 .. m -> Comp] : m \in 0 .. n}
Entry == [path : PathsUpTo(MaxPathLength) \ {<<>>}, big : BOOLEAN]

VARIABLES
    node,          \* the nodes of the output path, attached or not
    nextId,        \* the next node a creation allocates
    before,        \* the output path when the request arrived
    prefix,        \* request.PathPrefix
    cleanPrefix,   \* request.CleanPathPrefix
    files,         \* request.Files
    directories,   \* request.Directories; big: the tree digest exceeds maximumTreeSizeBytes
    symlinks,      \* request.Symlinks
    phase,         \* "prefix", "files", "directories", "symlinks" or "done"
    idx,           \* the entry of the phase's list being created
    stack,         \* prefixCreator.stack
    estack,        \* outputParentCreator.stack of the entry being created
    rest,          \* components Resolve() has not handed out yet
    terminal,      \* outputParentCreator.TerminalName, or "none"
    resolving,     \* an entry's path is being resolved
    outcome        \* "running", "ok", or the error: "outside", "isDirectory", "tooLarge", "notFound"

vars == <<node, nextId, before, prefix, cleanPrefix, files, directories, symlinks, phase,
          idx, stack, estack, rest, terminal, resolving, outcome>>

Errors == {"outside", "isDirectory", "tooLarge", "notFound"}

TypeOK ==
    /\ node \in [Ids -> [kind : Kinds \cup {"free"}, child : [Names -> Ids \cup {NoNode}]]]
    /\ \A i \in Ids : node[i].kind # "dir" => node[i].child = NoChildren
    /\ nextId \in Ids \cup {Cardinality(Ids) + 1}
    /\ \A i \in Ids : i >= nextId => node[i].kind = "free"
    /\ stack \in Seq(Ids) \ {<<>>} /\ estack \in Seq(Ids) \ {<<>>}
    /\ \A i \in Range(stack) \cup Range(estack) : node[i].kind = "dir"
    /\ phase \in {"prefix", "files", "directories", "symlinks", "done"}
    /\ terminal \in Names \cup {"none"}
    /\ outcome \in {"running", "ok"} \cup Errors

\* Any output path of depth one, any request of at most MaxEntries entries.
Init ==
    /\ \E top \in [Names -> Kinds \cup {"none"}] : node = InitialNodes(top)
    /\ nextId = 2 + Cardinality(Names)
    /\ before = PathView(node)
    /\ prefix \in PathsUpTo(MaxPathLength)
    /\ cleanPrefix \in BOOLEAN
    /\ files \in BoundedSeq([path : PathsUpTo(MaxPathLength) \ {<<>>}, big : {FALSE}], MaxEntries)
    /\ directories \in BoundedSeq(Entry, MaxEntries - Len(files))
    /\ symlinks \in BoundedSeq([path : PathsUpTo(MaxPathLength) \ {<<>>}, big : {FALSE}],
                               MaxEntries - Len(files) - Len(directories))
    /\ phase = "prefix"
    /\ idx = 1
    /\ stack = <<Root>>
    /\ estack = <<Root>>
    /\ rest = prefix
    /\ terminal = "none"
    /\ resolving = FALSE
    /\ outcome = "running"

-----------------------------------------------------------------------------
(* The PrepopulatedDirectory primitives on node d.                         *)

Attached(d) == d \in Reach(node, Root)

\* Faulty variant of HasDir: any node under the name is entered, instead of
\* evicting a non-directory.
HasAnyChild(d, name) == node[d].child[name] # NoNode

\* CreateAndEnterPrepopulatedDirectory(name): the directory it enters.
HasDir(d, name) ==
    node[d].child[name] # NoNode /\ node[node[d].child[name]].kind = "dir"
Entered(d, name) == IF HasDir(d, name) THEN node[d].child[name] ELSE nextId

\* A new node of kind k under name in d; what had the name is detached.
Attach(d, name, k) ==
    /\ node' = [node EXCEPT ![d].child[name] = nextId, ![nextId] = NodeRec(k)]
    /\ nextId' = nextId + 1

\* CreateAndEnterPrepopulatedDirectory(name) on an attached directory d.
CreateAndEnter(d, name) ==
    \/ /\ HasDir(d, name)
       /\ UNCHANGED <<node, nextId>>
    \/ /\ ~HasDir(d, name)
       /\ Attach(d, name, "dir")

-----------------------------------------------------------------------------
(* Resolving the path prefix with directoryCreatingComponentWalker.       *)

Fail(reason) ==
    /\ outcome' = reason
    /\ UNCHANGED <<node, nextId, phase, idx, stack, estack, rest, terminal, resolving>>

Request == <<before, prefix, cleanPrefix, files, directories, symlinks>>

\* OnDirectory(), and OnTerminal() through path.OnTerminalViaOnDirectory():
\* every component of the prefix becomes a directory.
PrefixOnDirectory ==
    /\ outcome = "running" /\ phase = "prefix"
    /\ rest # <<>> /\ Head(rest) \in Names
    /\ CreateAndEnter(Last(stack), Head(rest))
    /\ stack' = Append(stack, Entered(Last(stack), Head(rest)))
    /\ rest' = Tail(rest)
    /\ UNCHANGED <<Request, phase, idx, estack, terminal, resolving, outcome>>

\* OnUp(): PopSingle() refuses to pop the output path's root.
PrefixOnUp ==
    /\ outcome = "running" /\ phase = "prefix"
    /\ rest # <<>> /\ Head(rest) = Up
    /\ \/ /\ Len(stack) = 1
          /\ Fail("outside")
       \/ /\ Len(stack) > 1
          /\ stack' = Front(stack)
          /\ rest' = Tail(rest)
          /\ UNCHANGED <<node, nextId, phase, idx, estack, terminal, resolving, outcome>>
    /\ UNCHANGED Request

\* The prefix is resolved; CleanPathPrefix empties it.
PrefixResolved ==
    /\ outcome = "running" /\ phase = "prefix"
    /\ rest = <<>>
    /\ node' = IF cleanPrefix THEN [node EXCEPT ![Last(stack)].child = NoChildren] ELSE node
    /\ phase' = "files"
    /\ UNCHANGED <<Request, nextId, idx, stack, estack, rest, terminal, resolving, outcome>>

-----------------------------------------------------------------------------
(* The entries, with createChild() and parentDirectoryCreatingComponentWalker. *)

List(ph) == CASE ph = "files" -> files [] ph = "directories" -> directories
              [] ph = "symlinks" -> symlinks
NextPhase(ph) == CASE ph = "files" -> "directories" [] ph = "directories" -> "symlinks"
                   [] ph = "symlinks" -> "done"
Created(ph) == CASE ph = "files" -> "file" [] ph = "directories" -> "dir"
                 [] ph = "symlinks" -> "symlink"

Entering == outcome = "running" /\ phase \in {"files", "directories", "symlinks"}

\* Faulty variant of CopyStack: the entry resolves from where the previous
\* entry's resolution ended, as if stack were shared instead of copied.
SharedStack == IF idx = 1 /\ phase = "files" THEN stack ELSE estack

\* outputParentCreator starts from a copy of the prefix's stack.
CopyStack == stack

\* The next entry of the phase's list: a directory larger than
\* maximumTreeSizeBytes fails the request; otherwise createChild() resolves
\* the entry's path.
BeginEntry ==
    /\ Entering /\ ~resolving
    /\ idx <= Len(List(phase))
    /\ \/ /\ phase = "directories" /\ directories[idx].big
          /\ Fail("tooLarge")
       \/ /\ ~(phase = "directories" /\ directories[idx].big)
          /\ estack' = CopyStack
          /\ rest' = List(phase)[idx].path
          /\ terminal' = "none"
          /\ resolving' = TRUE
          /\ UNCHANGED <<node, nextId, phase, idx, stack, outcome>>
    /\ UNCHANGED Request

\* The phase's list is done: on to the next, or the request succeeds.
EndList ==
    /\ Entering /\ ~resolving
    /\ idx > Len(List(phase))
    /\ phase' = NextPhase(phase)
    /\ idx' = 1
    /\ outcome' = IF NextPhase(phase) = "done" THEN "ok" ELSE outcome
    /\ UNCHANGED <<Request, node, nextId, stack, estack, rest, terminal, resolving>>

\* parentDirectoryCreatingComponentWalker.OnDirectory(); a directory that
\* is no longer in the tree fails with ENOENT.
EntryOnDirectory ==
    /\ Entering /\ resolving
    /\ Len(rest) > 1 /\ Head(rest) \in Names
    /\ \/ /\ ~Attached(Last(estack))
          /\ Fail("notFound")
       \/ /\ Attached(Last(estack))
          /\ CreateAndEnter(Last(estack), Head(rest))
          /\ estack' = Append(estack, Entered(Last(estack), Head(rest)))
          /\ rest' = Tail(rest)
          /\ UNCHANGED <<phase, idx, stack, terminal, resolving, outcome>>
    /\ UNCHANGED Request

\* TerminalNameTrackingComponentWalker.OnTerminal(): the last component is
\* recorded, not created.
EntryOnTerminal ==
    /\ Entering /\ resolving
    /\ Len(rest) = 1 /\ Head(rest) \in Names
    /\ terminal' = Head(rest)
    /\ rest' = <<>>
    /\ UNCHANGED <<Request, node, nextId, phase, idx, stack, estack, resolving, outcome>>

\* parentDirectoryCreatingComponentWalker.OnUp().
EntryOnUp ==
    /\ Entering /\ resolving
    /\ rest # <<>> /\ Head(rest) = Up
    /\ \/ /\ Len(estack) = 1
          /\ Fail("outside")
       \/ /\ Len(estack) > 1
          /\ estack' = Front(estack)
          /\ rest' = Tail(rest)
          /\ UNCHANGED <<node, nextId, phase, idx, stack, terminal, resolving, outcome>>
    /\ UNCHANGED Request

\* The rest of createChild(): a path that ends in a directory is refused;
\* otherwise CreateChildren() creates the node under its name in the
\* parent, unless the parent is no longer in the tree.
EntryCreate ==
    /\ Entering /\ resolving
    /\ rest = <<>>
    /\ \/ /\ terminal = "none"
          /\ Fail("isDirectory")
       \/ /\ terminal # "none" /\ ~Attached(Last(estack))
          /\ Fail("notFound")
       \/ /\ terminal # "none" /\ Attached(Last(estack))
          /\ Attach(Last(estack), terminal, Created(phase))
          /\ idx' = idx + 1
          /\ resolving' = FALSE
          /\ UNCHANGED <<phase, stack, estack, rest, terminal, outcome>>
    /\ UNCHANGED Request

Next ==
    \/ PrefixOnDirectory \/ PrefixOnUp \/ PrefixResolved
    \/ BeginEntry \/ EndList \/ EntryOnDirectory \/ EntryOnTerminal \/ EntryOnUp
    \/ EntryCreate

Spec == Init /\ [][Next]_vars

-----------------------------------------------------------------------------
(***************************************************************************)
(* Reference definition, from the walkers' contract: every component but  *)
(* the last becomes a directory, ".." goes back to the parent and may not *)
(* leave the output path, and the entry is created under its last name.   *)
(* A directory is named by its path; there is no stack.                    *)
(***************************************************************************)
\* The tree without the node at p and everything below it.
Prune(t, p) == [q \in {q \in DOMAIN t : ~IsPrefix(p, q)} |-> t[q]]
MkDir(t, dir, name) ==
    LET p == Append(dir, name)
    IN  IF p \in DOMAIN t /\ t[p] = "dir" THEN t ELSE (p :> "dir") @@ Prune(t, p)
Put(t, dir, name, kind) == LET p == Append(dir, name) IN (p :> kind) @@ Prune(t, p)
Empty(t, dir) == [q \in {q \in DOMAIN t : ~IsStrictPrefix(dir, q)} |-> t[q]]

RECURSIVE MkDirs(_, _, _)
MkDirs(st, dir, comps) ==
    IF st.err # "none" \/ comps = <<>> THEN [st EXCEPT !.dir = dir]
    ELSE IF Head(comps) = Up
         THEN IF dir = <<>> THEN [st EXCEPT !.err = "outside"]
              ELSE MkDirs(st, Front(dir), Tail(comps))
    ELSE MkDirs([st EXCEPT !.tree = MkDir(st.tree, dir, Head(comps))],
                Append(dir, Head(comps)), Tail(comps))

PlaceEntry(kind, base, st, e) ==
        IF st.err # "none" THEN st
        ELSE IF kind = "dir" /\ e.big THEN [st EXCEPT !.err = "tooLarge"]
        ELSE IF Last(e.path) = Up
             THEN LET r == MkDirs(st, base, e.path)
                  IN  IF r.err # "none" THEN r ELSE [r EXCEPT !.err = "isDirectory"]
        ELSE LET r == MkDirs(st, base, Front(e.path))
             IN  IF r.err # "none" THEN r
                 ELSE [r EXCEPT !.tree = Put(r.tree, r.dir, Last(e.path), kind)]

ExpectedCreate ==
    LET p == MkDirs([tree |-> before, dir |-> <<>>, err |-> "none"], <<>>, prefix)
        c == IF p.err = "none" /\ cleanPrefix
             THEN [p EXCEPT !.tree = Empty(p.tree, p.dir)] ELSE p
        f == FoldLeft(LAMBDA st, e : PlaceEntry("file", c.dir, st, e), c, files)
        d == FoldLeft(LAMBDA st, e : PlaceEntry("dir", c.dir, st, e), f, directories)
    IN  FoldLeft(LAMBDA st, e : PlaceEntry("symlink", c.dir, st, e), d, symlinks)

\* When BatchCreate() returns, the output path holds exactly what resolving
\* the prefix and then every entry against the prefix directory makes of
\* it, in the order files, directories, symlinks, and the request fails
\* with the first error that resolution meets: an escape above the root,
\* an entry path that names a directory, or an oversized tree.  The one
\* exception is ENOENT, and it happens only once an entry has replaced the
\* prefix directory that createChild() keeps resolving from.
CreatesAsResolved ==
    LET e == ExpectedCreate IN
    /\ outcome \in {"ok", "outside", "isDirectory", "tooLarge"} =>
          /\ PathView(node) = e.tree
          /\ outcome = IF e.err = "none" THEN "ok" ELSE e.err
    /\ outcome = "notFound" => ~Attached(Last(stack))

\* Spec 7: "BatchCreate with a directory entry whose tree digest size
\* exceeds the configured maximum fails with InvalidArgument and creates
\* nothing."
OversizedCreatesNothing ==
    outcome = "tooLarge" => PathView(node) = before
==============================================================================
