CHECK_DEADLOCK FALSE
CONSTANTS
    Workloads <- TwoJoins
    Sagas <- TwoSagas
    InitDb <- OneEvent
    InitNext <- TwoUsersOneEvent
SPECIFICATION Spec
INVARIANTS
    JoinsKept
