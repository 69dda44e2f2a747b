\* When every request has been answered there is nothing left to do.
CHECK_DEADLOCK FALSE
CONSTANTS
    Workloads <- MemberOrHostRequests
    Sagas <- FiveSagas
    InitDb <- OneEvent
    InitNext <- TwoUsersOneEvent
SPECIFICATION Spec
INVARIANTS
    TypeOK
    IInv
    LostOnlyIfOverlapping
    LogsTellTheTruth
    ConfirmedIsDone
PROPERTIES
    DeletedStaysDeleted
