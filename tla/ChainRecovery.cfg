\* One crash, and the handler of tx_test.go.
CHECK_DEADLOCK FALSE
CONSTANTS
    N = 1
    K = 1
    Slots = {1, 2}
    MaxFaults = 1
    Faults = {"crash"}
    EndpointSet = FALSE
    Msgs <- MCMsgs
    Queues <- Stages
    QueueOf <- MCQueueOf
    Ts <- MCTs
    Attrs = {}
    AttrsOf <- MCAttrsOf
    DryRun = {}
SPECIFICATION ChainFairSpec
PROPERTIES
    CommittedCompletes
