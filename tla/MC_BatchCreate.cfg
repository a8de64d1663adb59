\* Paths of up to two components and two entries a request: enough for an
\* entry to climb above the prefix, to overwrite another entry and to
\* replace a file in the way of a directory.
CONSTANTS
    x = x
    y = y
    Names <- MCNames
    MaxPathLength = 2
    MaxEntries = 2
\* BatchCreate() returns; a finished request has no successor.
CHECK_DEADLOCK FALSE
SPECIFICATION Spec
INVARIANT TypeOK
INVARIANT CreatesAsResolved
