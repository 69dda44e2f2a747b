\* Completed transactions are at rest.
CHECK_DEADLOCK FALSE
CONSTANTS
    N = 2
    K = 1
    Slots = {1, 2}
    MaxFaults = 1
    Faults = {"timeout", "statement", "crash", "restart"}
    EndpointSet = TRUE
    Msgs <- MCMsgs
    Queues <- Stages
    QueueOf <- MCQueueOf
    Ts <- MCTs
    Attrs = {}
    AttrsOf <- MCAttrsOf
    DryRun = {}
SPECIFICATION ChainLiveSpec
INVARIANTS
    AppliedOnce
    AnswerMeansApplied
    ChainIInv
    CompletedEverywhere
    ReceiversAgree
PROPERTIES
    ChainsSpec
    ExecutorsSpec
    HealthyCompletes
