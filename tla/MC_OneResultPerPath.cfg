\* Paths of up to three components, one per request: every path's
\* resolution is independent, and Respond/NotFound exercise the loop.
CONSTANTS
    x = x
    y = y
    Names <- MCNames
    Targets <- MCTargets
    MaxPathLength = 3
    MaxPaths = 1
    MaxSymlinkExpansions = 2
\* BatchStat() returns; a finished request has no successor.
CHECK_DEADLOCK FALSE
SPECIFICATION Spec
INVARIANT OneResultPerPath
