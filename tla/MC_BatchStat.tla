---------------------------- MODULE MC_BatchStat ----------------------------
(* Model-checking instance of BatchStat: two names, and symlinks that     *)
(* loop, climb out of their directory, re-enter the output path from its   *)
(* root, and leave it.                                                    *)
EXTENDS BatchStat

CONSTANTS x, y

MCNames == {x, y}
MCTargets ==
    {[scope |-> "relative", comps |-> <<x>>],
     [scope |-> "relative", comps |-> <<Up, y>>],
     [scope |-> "root", comps |-> <<x, y>>],
     [scope |-> "outside", comps |-> <<>>]}
==============================================================================
