\* One answer comes too late.
CHECK_DEADLOCK FALSE
CONSTANTS
    N = 1
    K = 1
    Slots = {1, 2}
    MaxFaults = 1
    Faults = {"timeout"}
    EndpointSet = TRUE
    Msgs <- MCMsgs
    Queues <- Stages
    QueueOf <- MCQueueOf
    Ts <- MCTs
    Attrs = {}
    AttrsOf <- MCAttrsOf
    DryRun = {}
SPECIFICATION ChainFairSpec
PROPERTIES
    CommittedCompletes
