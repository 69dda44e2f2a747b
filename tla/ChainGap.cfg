\* One statement fails.
CHECK_DEADLOCK FALSE
CONSTANTS
    N = 2
    K = 1
    Slots = {1, 2}
    MaxFaults = 1
    Faults = {"statement"}
    EndpointSet = TRUE
    Msgs <- MCMsgs
    Queues <- Stages
    QueueOf <- MCQueueOf
    Ts <- MCTs
    Attrs = {}
    AttrsOf <- MCAttrsOf
    DryRun = {}
SPECIFICATION ChainFairSpec
PROPERTIES
    OwnFailuresOnly
