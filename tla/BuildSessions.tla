---------------------------- MODULE BuildSessions ----------------------------
(***************************************************************************)
(* What the Remote Output Service promises about output paths and builds, *)
(* without locks, lists or goroutines: spec sections 4.1 and 4.2.  An     *)
(* output base is registered from its first StartBuild() until Clean();   *)
(* a build ID is accepted by BatchCreate() and BatchStat() from            *)
(* StartBuild() until FinalizeBuild(), until another build starts on the  *)
(* same output base, or until Clean() of that output base.                *)
(***************************************************************************)
EXTENDS FiniteSets

CONSTANTS OutputBases, BuildIDs

VARIABLES
    registered,  \* output bases that have an output path
    sessions     \* running build ID -> its output base

vars == <<registered, sessions>>

Range(f) == {f[x] : x \in DOMAIN f}
Without(f, S) == [x \in DOMAIN f \ S |-> f[x]]

TypeOK ==
    /\ registered \subseteq OutputBases
    /\ DOMAIN sessions \subseteq BuildIDs
    /\ Range(sessions) \subseteq registered

Init ==
    /\ registered = {}
    /\ sessions = [b \in {} |-> CHOOSE ob \in OutputBases : TRUE]

\* A new build starts on ob, closing the build running there, if any.
Start(ob, b) ==
    /\ b \notin DOMAIN sessions
    /\ registered' = registered \cup {ob}
    /\ sessions' = [x \in {y \in DOMAIN sessions : sessions[y] # ob} \cup {b} |->
                      IF x = b THEN ob ELSE sessions[x]]

Finalize(b) ==
    /\ b \in DOMAIN sessions
    /\ sessions' = Without(sessions, {b})
    /\ UNCHANGED registered

Clean(ob) ==
    /\ ob \in registered
    /\ registered' = registered \ {ob}
    /\ sessions' = Without(sessions, {x \in DOMAIN sessions : sessions[x] = ob})

Next ==
    \/ \E ob \in OutputBases, b \in BuildIDs : Start(ob, b)
    \/ \E b \in BuildIDs : Finalize(b)
    \/ \E ob \in OutputBases : Clean(ob)

Spec == Init /\ [][Next]_vars

\* At most one build runs on an output path.
OneBuildPerOutputBase ==
    \A x, y \in DOMAIN sessions : sessions[x] = sessions[y] => x = y
==============================================================================
