\* Every request has been answered or cut off: the system is at rest.
CHECK_DEADLOCK FALSE
CONSTANTS
    r1 = r1
    r2 = r2
    r3 = r3
    r4 = r4
    Reqs <- MCReqs
    Partitions = {0}
    Services <- MCServices
    Receivers <- MCReceivers
    ServeFirst = TRUE
    MaxCrashes = 1
SYMMETRY ReqSymmetry
SPECIFICATION Spec
INVARIANTS
    TimestampsUnique
