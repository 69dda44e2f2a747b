\* Every request is answered once and none follows, so the system may stop.
CHECK_DEADLOCK FALSE
CONSTANTS
    Msgs <- MCUniqueMsgs
    Queues <- MCQueues
    QueueOf <- MCInQueue
    Ts <- MCUniqueTs
    Attrs <- MCAttrs
    AttrsOf <- MCUniqueAttrs
    DryRun <- MCUniqueDryRun
SPECIFICATION ParticipantFairSpec
INVARIANTS
    ParticipantTypeOK
    AppliedInOrder
PROPERTIES
    EveryRequestEnds
    OriginSpec
