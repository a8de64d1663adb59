\* Three output paths over a run: enough for two Clean()s of one output
\* base with a StartBuild() recreating it between them, and for the reader
\* to resume past appended and unlinked entries.  No symmetry: it is
\* unsound with liveness checking.
CONSTANTS
    c1 = c1
    c2 = c2
    ob1 = ob1
    ob2 = ob2
    b1 = b1
    b2 = b2
    NoBuild = NoBuild
    Clients <- MCClients
    OutputBases <- MCOutputBases
    BuildIDs <- MCBuildIDs
    MaxChangeID = 3

SPECIFICATION LiveSpec

INVARIANT TypeOK
INVARIANT ListMatchesRegistry
INVARIANT BuildIDsMatchBuildStates
INVARIANT ReadDirResumesExactly
PROPERTY ChangeIDTracksEntries
PROPERTY ImplementsBuildSessions
PROPERTY ReadDirTerminates
