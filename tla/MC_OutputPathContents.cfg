\* One output base: every race here is between calls on the same output
\* path.  MaxChangeID = 3 lets Clean() remove an output path and StartBuild()
\* create it again twice, with a BatchCreate() in flight across either.
CONSTANTS
    c1 = c1
    c2 = c2
    ob1 = ob1
    b1 = b1
    b2 = b2
    n1 = n1
    NoBuild = NoBuild
    Clients <- MCClients
    OutputBases <- MCOutputBases
    BuildIDs <- MCBuildIDs
    Names <- MCNames
    MaxChangeID = 3

SYMMETRY Symmetry

SPECIFICATION Spec

INVARIANT ActiveTreeVerified
 
