------------------- MODULE MC_RemoteOutputServiceDirectory -------------------
(* Model-checking instance of RemoteOutputServiceDirectory: two handler    *)
(* goroutines, two output bases, two build IDs.                            *)
EXTENDS RemoteOutputServiceDirectory

CONSTANTS c1, c2, ob1, ob2, b1, b2

MCClients == {c1, c2}
MCOutputBases == {ob1, ob2}
MCBuildIDs == {b1, b2}

\* Handlers, output bases and build IDs are interchangeable.
Symmetry == Permutations(MCClients) \cup Permutations(MCOutputBases)
              \cup Permutations(MCBuildIDs)
==============================================================================
