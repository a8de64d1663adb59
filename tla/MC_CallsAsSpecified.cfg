CONSTANTS
    a = a
    b = b
    c = c
    f = f
    Digests <- MCDigests
    Foreign <- MCForeign
    BatchLimit = 2
    MaxChildren = 3

SPECIFICATION Spec

\* filterMissingChildren() returns: a finished run has no successor.
CHECK_DEADLOCK FALSE

INVARIANT CallsAsSpecified
