----------------------------- MODULE MCTxOrigin -----------------------------
(***************************************************************************)
(* Instances of TxOrigin for TLC: two queues; the first has the turns 1 to *)
(* 3 and an outdated message with timestamp 0, as in TestTxOriginManager,  *)
(* the second has a missing timestamp.                                     *)
(***************************************************************************)
EXTENDS TxOrigin

MCMsgs == {"a0", "a1", "a2", "a3", "b1", "b3"}
MCQueues == {"A", "B"}
MCQueueOf ==
    [m \in MCMsgs |-> IF m \in {"b1", "b3"} THEN "B" ELSE "A"]
MCTs ==
    [m \in MCMsgs |->
        CASE m = "a0" -> 0
          [] m \in {"a1", "b1"} -> 1
          [] m = "a2" -> 2
          [] OTHER -> 3]

=============================================================================
