\* Every request has been answered or cut off: the system is at rest.
CHECK_DEADLOCK FALSE
CONSTANTS
    r1 = r1
    r2 = r2
    r3 = r3
    r4 = r4
    Reqs <- MCReqs
    Partitions = {0, 1}
    Services <- MCServices
    Receivers <- MCReceivers
    ServeFirst = FALSE
    MaxCrashes = 2
SYMMETRY ReqSymmetry
SPECIFICATION Spec
INVARIANTS
    TypeOK
    TimestampsUnique
    OneOrder
    NoTimestampSkipped
    MemoryMatchesDb
    IInv
