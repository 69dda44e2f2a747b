CHECK_DEADLOCK FALSE
CONSTANTS
    Msgs <- MCDupMsgs
    Queues <- MCQueues
    QueueOf <- MCInQueue
    Ts <- MCDupTs
    Attrs <- MCAttrs
    AttrsOf <- MCNoAttrs
    DryRun = {}
SPECIFICATION ParticipantFairSpec
PROPERTY EveryRequestEnds
