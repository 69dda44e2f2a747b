\* A completed or aborted transaction is at rest.
CHECK_DEADLOCK FALSE
CONSTANTS
    c1 = c1
    c2 = c2
    Copies <- TwoCopies
    NumStages = 2
    Completable <- AllStages
    MaxCrashes = 1
    MaxTries = 2
SPECIFICATION FairSpec
INVARIANTS
    IInv
    TypeOK
    CheckpointBacked
    StageInputs
    StagesInOrder
    AtRestCompleted
PROPERTIES
    CheckpointForward
    CommittedCompletes
