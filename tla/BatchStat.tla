------------------------------ MODULE BatchStat ------------------------------
(***************************************************************************)
(* BatchStat() of RemoteOutputServiceDirectory and its statWalker          *)
(* (src/pkg/filesystem/virtual/remote_output_service_directory.go).        *)
(*                                                                         *)
(* One request is resolved against an output path that does not change    *)
(* while it runs.  The tree is a function from the paths of its nodes     *)
(* (sequences of names from the root) to "dir", "file" or the target of a *)
(* symbolic link.  path.Resolve(), the loop-detecting scope walker and the *)
(* virtual root of the build's scopeWalkerFactory come from bb-storage;   *)
(* they are modelled by what they do to the walker: Resolve() hands the   *)
(* components to OnDirectory() / OnTerminal() / OnUp() one at a time and  *)
(* enters the scope of a symlink target through OnScope(); a target that  *)
(* the virtual root maps outside the output path never reaches the walker *)
(* again; each expansion uses up one of MaxSymlinkExpansions.  The        *)
(* continuation path of an "external" result is not modelled.              *)
(***************************************************************************)
EXTENDS Integers, Sequences, SequencesExt

CONSTANTS
    Names,                 \* pathname components of the tree
    Targets,               \* symlink targets: [scope, comps]
    MaxPathLength,         \* components of a requested path, at most
    MaxPaths,              \* paths in one request, at most
    MaxSymlinkExpansions   \* path.NewLoopDetectingScopeWalker's budget

Up == ".."
Comp == Names \cup {Up}

\* A symlink target is relative to the directory holding the link, absolute
\* into the output path ("root"), or absolute elsewhere ("outside").
ASSUME Targets \subseteq [scope : {"relative", "root", "outside"}, comps : Seq(Comp)]

Node == {[type |-> "dir"], [type |-> "file"]} \cup [type : {"symlink"}, target : Targets]
NoNode == [type |-> "none"]
IsLink(n) == n.type = "symlink"

\* Output path trees of depth two.
TreeOf(top, sub) ==
    [p \in {<<>>} \cup {<<n>> : n \in {m \in Names : top[m] # NoNode}}
             \cup UNION {{<<n, m>> : m \in {y \in Names : sub[n, y] # NoNode}} :
                          n \in {x \in Names : top[x].type = "dir"}}
       |-> IF p = <<>> THEN [type |-> "dir"] ELSE IF Len(p) = 1 THEN top[p[1]] ELSE sub[p[1], p[2]]]
Trees ==
    {TreeOf(top, sub) : top \in [Names -> Node \cup {NoNode}],
                        sub \in [Names \X Names -> Node \cup {NoNode}]}

StatPaths == UNION {[1 .. n -> Comp] : n \in 1 .. MaxPathLength}

\* The FileStatus of a result: a directory, an external path, a leaf, or
\* the empty StatResponse of a path that does not exist.
Status(s) == [status |-> s, digest |-> FALSE]
Leaf(kind, digest) == [status |-> kind, digest |-> digest]
Results == {Status(s) : s \in {"directory", "external", "notFound"}}
               \cup [status : {"file", "symlink"}, digest : BOOLEAN]

VARIABLES
    tree,            \* the output path
    paths,           \* request.Paths
    follow,          \* request.FollowSymlinks
    withDigest,      \* request.IncludeFileDigest
    k,               \* the path being resolved
    stack,           \* statWalker.stack: the directories entered, root first
    fileStatus,      \* statWalker.fileStatus
    scope,           \* scope Resolve() enters next: "none", "relative", "root", "outside"
    rest,            \* components Resolve() has not handed out yet
    walker,          \* "stat", or "void" once the walker has left the tree
    expansions,      \* symlink expansions left to the loop detector
    responses,       \* response.Responses
    outcome          \* "running", "ok" or "error"

vars == <<tree, paths, follow, withDigest, k, stack, fileStatus, scope, rest,
          walker, expansions, responses, outcome>>

TypeOK ==
    /\ tree \in Trees
    /\ paths \in BoundedSeq(StatPaths, MaxPaths)
    /\ follow \in BOOLEAN /\ withDigest \in BOOLEAN
    /\ k \in 1 .. MaxPaths + 1
    /\ stack \in Seq(DOMAIN tree) \ {<<>>}        \* util.NonEmptyStack
    /\ fileStatus \in Results \ {Status("notFound")}
    /\ scope \in {"none", "relative", "root", "outside"}
    /\ rest \in Seq(Comp)
    /\ walker \in {"stat", "void", "idle"}
    /\ expansions \in 0 .. MaxSymlinkExpansions
    /\ responses \in Seq(Results)
    /\ outcome \in {"running", "ok", "error"}

Init ==
    /\ tree \in Trees
    /\ paths \in BoundedSeq(StatPaths, MaxPaths) \ {<<>>}
    /\ follow \in BOOLEAN
    /\ withDigest \in BOOLEAN
    /\ k = 1
    /\ stack = <<<<>>>>
    /\ fileStatus = Status("external")
    /\ scope = "none"
    /\ rest = <<>>
    /\ walker = "idle"
    /\ expansions = MaxSymlinkExpansions
    /\ responses = <<>>
    /\ outcome = "running"

Running == outcome = "running" /\ walker = "stat" /\ scope = "none"
Peek == Last(stack)

\* A new statWalker for paths[k], rooted at outputPathState.rootDirectory,
\* wrapped in the loop detector and the virtual root; Resolve() starts in
\* the relative scope.
BeginPath ==
    /\ outcome = "running" /\ walker = "idle"
    /\ k <= Len(paths)
    /\ stack' = <<<<>>>>
    /\ fileStatus' = Status("external")
    /\ expansions' = MaxSymlinkExpansions
    /\ rest' = paths[k]
    /\ scope' = "relative"
    /\ walker' = "stat"
    /\ UNCHANGED <<tree, paths, follow, withDigest, k, responses, outcome>>

\* Faulty variant of OnScope: the FileStatus of an earlier symlink is kept.
OnScopeKeepingStatus ==
    /\ outcome = "running" /\ walker = "stat"
    /\ scope \in {"relative", "root"}
    /\ stack' = IF scope = "root" THEN <<<<>>>> ELSE stack
    /\ scope' = "none"
    /\ UNCHANGED <<tree, paths, follow, withDigest, k, fileStatus, rest, walker, expansions, responses, outcome>>

\* OnScope(): an absolute scope starts over at the root of the output path.
OnScope ==
    /\ outcome = "running" /\ walker = "stat"
    /\ scope \in {"relative", "root"}
    /\ stack' = IF scope = "root" THEN <<<<>>>> ELSE stack
    /\ fileStatus' = Status("directory")
    /\ scope' = "none"
    /\ UNCHANGED <<tree, paths, follow, withDigest, k, rest, walker, expansions, responses, outcome>>

\* The virtual root resolves a target outside the output path itself.
LeaveTree ==
    /\ outcome = "running" /\ walker = "stat"
    /\ scope = "outside"
    /\ scope' = "none"
    /\ walker' = "void"
    /\ UNCHANGED <<tree, paths, follow, withDigest, k, stack, fileStatus, rest, expansions, responses, outcome>>

\* Resolve() continues with the target of a symbolic link in place of the
\* link, or fails with ELOOP once the loop detector's budget is spent.
Expand(target) ==
    \/ /\ expansions = 0
       /\ outcome' = "error"
       /\ UNCHANGED <<rest, scope, expansions>>
    \/ /\ expansions > 0
       /\ expansions' = expansions - 1
       /\ rest' = target.comps \o Tail(rest)
       /\ scope' = target.scope
       /\ UNCHANGED outcome

\* LookupChild() fails with ENOENT: BatchStat() answers with an empty
\* StatResponse and moves on to the next path.
NotFound(p) ==
    /\ p \notin DOMAIN tree
    /\ responses' = Append(responses, Status("notFound"))
    /\ k' = k + 1
    /\ walker' = "idle"
    /\ UNCHANGED <<stack, fileStatus, scope, rest, expansions, outcome>>

\* OnDirectory(): a component that is not the last one.
OnDirectory ==
    /\ Running
    /\ Len(rest) > 1 /\ Head(rest) \in Names
    /\ LET p == Append(Peek, Head(rest)) IN
       \/ NotFound(p)
       \/ /\ p \in DOMAIN tree /\ tree[p].type = "dir"
          /\ stack' = Append(stack, p)
          /\ rest' = Tail(rest)
          /\ UNCHANGED <<fileStatus, scope, expansions, responses, k, walker, outcome>>
       \/ /\ p \in DOMAIN tree /\ tree[p].type = "file"
          /\ outcome' = "error"                 \* ENOTDIR
          /\ UNCHANGED <<stack, fileStatus, scope, rest, expansions, responses, k, walker>>
       \/ /\ p \in DOMAIN tree /\ IsLink(tree[p])
          /\ fileStatus' = Status("external")
          /\ Expand(tree[p].target)
          /\ UNCHANGED <<stack, responses, k, walker>>
    /\ UNCHANGED <<tree, paths, follow, withDigest>>

\* OnTerminal(): the last component.  A directory keeps the FileStatus the
\* walker has; a symbolic link is followed only if FollowSymlinks is set;
\* otherwise the leaf reports its own status, with a digest only when
\* IncludeFileDigest gave the walker a digest function.
OnTerminal ==
    /\ Running
    /\ Len(rest) = 1 /\ Head(rest) \in Names
    /\ LET p == Append(Peek, Head(rest)) IN
       \/ NotFound(p)
       \/ /\ p \in DOMAIN tree /\ tree[p].type = "dir"
          /\ stack' = Append(stack, p)
          /\ rest' = <<>>
          /\ UNCHANGED <<fileStatus, scope, expansions, responses, k, walker, outcome>>
       \/ /\ p \in DOMAIN tree /\ IsLink(tree[p]) /\ follow
          /\ fileStatus' = Status("external")
          /\ Expand(tree[p].target)
          /\ UNCHANGED <<stack, responses, k, walker>>
       \/ /\ p \in DOMAIN tree /\ tree[p].type # "dir" /\ ~(IsLink(tree[p]) /\ follow)
          /\ fileStatus' = IF IsLink(tree[p]) THEN Leaf("symlink", FALSE)
                           ELSE Leaf("file", withDigest)
          /\ rest' = <<>>
          /\ UNCHANGED <<stack, scope, expansions, responses, k, walker, outcome>>
    /\ UNCHANGED <<tree, paths, follow, withDigest>>

\* Faulty variant of OnUp: Pop() where PopSingle() keeps the root.
OnUpPopping ==
    /\ Running
    /\ rest # <<>> /\ Head(rest) = Up
    /\ rest' = Tail(rest)
    /\ stack' = Front(stack)
    /\ fileStatus' = IF Len(stack) = 1 THEN Status("external") ELSE fileStatus
    /\ walker' = IF Len(stack) = 1 THEN "void" ELSE walker
    /\ UNCHANGED <<tree, paths, follow, withDigest, k, scope, expansions, responses, outcome>>

\* OnUp(): above the root of the output path the result is external and
\* the rest of the path goes to path.VoidComponentWalker.
OnUp ==
    /\ Running
    /\ rest # <<>> /\ Head(rest) = Up
    /\ rest' = Tail(rest)
    /\ \/ /\ Len(stack) = 1
          /\ fileStatus' = Status("external")
          /\ walker' = "void"
          /\ UNCHANGED stack
       \/ /\ Len(stack) > 1
          /\ stack' = Front(stack)
          /\ UNCHANGED <<fileStatus, walker>>
    /\ UNCHANGED <<tree, paths, follow, withDigest, k, scope, expansions, responses, outcome>>

\* Resolve() returned without error: the walker's FileStatus is the answer.
PathResolved ==
    /\ outcome = "running" /\ scope = "none"
    /\ \/ walker = "void"
       \/ walker = "stat" /\ rest = <<>>
    /\ responses' = Append(responses, fileStatus)
    /\ k' = k + 1
    /\ walker' = "idle"
    /\ UNCHANGED <<tree, paths, follow, withDigest, stack, fileStatus, scope, rest, expansions, outcome>>

\* Every path has an answer.
Respond ==
    /\ outcome = "running" /\ walker = "idle"
    /\ k > Len(paths)
    /\ outcome' = "ok"
    /\ UNCHANGED <<tree, paths, follow, withDigest, k, stack, fileStatus, scope, rest, walker, expansions, responses>>

Next ==
    \/ BeginPath \/ OnScope \/ LeaveTree \/ OnDirectory \/ OnTerminal \/ OnUp
    \/ PathResolved \/ Respond

Spec == Init /\ [][Next]_vars

-----------------------------------------------------------------------------
(***************************************************************************)
(* Reference definition: what a stat() of the path means, read off the    *)
(* tree directly.  dir is the directory reached so far, n the expansions  *)
(* left.                                                                   *)
(***************************************************************************)
RECURSIVE Stat(_, _, _)
Stat(dir, comps, n) ==
    IF comps = <<>> THEN Status("directory")
    ELSE IF Head(comps) = Up
         THEN IF dir = <<>> THEN Status("external") ELSE Stat(Front(dir), Tail(comps), n)
    ELSE LET p == Append(dir, Head(comps))
             last == Tail(comps) = <<>>
         IN  IF p \notin DOMAIN tree THEN Status("notFound")
             ELSE IF tree[p].type = "dir" THEN Stat(p, Tail(comps), n)
             ELSE IF tree[p].type = "file"
                  THEN IF last THEN Leaf("file", withDigest) ELSE Status("ENOTDIR")
             ELSE IF last /\ ~follow THEN Leaf("symlink", FALSE)
             ELSE IF n = 0 THEN Status("ELOOP")
             ELSE CASE tree[p].target.scope = "outside"  -> Status("external")
                    [] tree[p].target.scope = "root"     -> Stat(<<>>, tree[p].target.comps \o Tail(comps), n - 1)
                    [] tree[p].target.scope = "relative" -> Stat(dir, tree[p].target.comps \o Tail(comps), n - 1)

Expected(j) == Stat(<<>>, paths[j], MaxSymlinkExpansions)

\* Every answer BatchStat() gives, in request order, is what stat() of the
\* path in the output path means, whatever symlinks, ".." components and
\* escapes above the root it passes through; the request fails only when
\* some path fails with ENOTDIR or ELOOP, and otherwise answers every path.
StatMatchesReference ==
    /\ \A j \in 1 .. Len(responses) : responses[j] = Expected(j)
    /\ outcome = "ok" => Len(responses) = Len(paths)
    /\ outcome = "error" => Expected(k) \in {Status("ENOTDIR"), Status("ELOOP")}

\* Spec 6: BatchStat() returns "an ordered list of per-path results, each
\* either empty (not found), a directory descriptor, an external
\* descriptor, or a leaf descriptor ... one entry per requested path,
\* never fewer".
OneResultPerPath ==
    outcome # "running" => Len(responses) = Len(paths)
==============================================================================
