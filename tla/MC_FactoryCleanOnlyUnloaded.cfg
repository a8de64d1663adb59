CONSTANTS
    c1 = c1
    c2 = c2
    ob1 = ob1
    ob2 = ob2
    b1 = b1
    b2 = b2
    NoBuild = NoBuild
    Clients <- MCClients
    OutputBases <- MCOutputBases
    BuildIDs <- MCBuildIDs
    MaxChangeID = 4

SYMMETRY Symmetry

SPECIFICATION Spec

PROPERTY FactoryCleanOnlyUnloaded
