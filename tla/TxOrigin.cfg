\* The message b3 waits for ever for the missing timestamp 2 and the callers
\* are finitely many, so the system may stop.
CHECK_DEADLOCK FALSE
CONSTANTS
    Msgs <- MCMsgs
    Queues <- MCQueues
    QueueOf <- MCQueueOf
    Ts <- MCTs
SPECIFICATION FairSpec
INVARIANTS
    TypeOK
    IInv
    MutualExclusion
    NoOvertaking
    NoLostWakeup
    FreshNeverRefused
PROPERTIES
    EveryTurnComes
    TurnsFairSpec
