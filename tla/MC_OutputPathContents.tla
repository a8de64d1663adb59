------------------------ MODULE MC_OutputPathContents ------------------------
(* Model-checking instance of OutputPathContents: two handler goroutines, *)
(* one output base, two build IDs and one name in the output path.        *)
EXTENDS OutputPathContents, TLC

CONSTANTS c1, c2, ob1, b1, b2, n1

MCClients == {c1, c2}
MCOutputBases == {ob1}
MCBuildIDs == {b1, b2}
MCNames == {n1}

\* Handlers and build IDs are interchangeable.
Symmetry == Permutations(MCClients) \cup Permutations(MCBuildIDs)
==============================================================================
