-------------------------- MODULE MCTxParticipant --------------------------
(***************************************************************************)
(* Instances of TxParticipant for TLC: one queue, and either three         *)
(* requests with timestamps of their own or one that is repeated.          *)
(***************************************************************************)
EXTENDS TxParticipant

MCQueues == {"A"}
MCAttrs == {"x"}

\* Three requests, each for its own timestamp; filters may drop the first and
\* the second, which is a dry run.
MCUniqueMsgs == {"1", "2", "3"}
MCUniqueTs == [m \in MCUniqueMsgs |-> CASE m = "1" -> 1 [] m = "2" -> 2 [] OTHER -> 3]
MCUniqueDryRun == {"2"}
MCUniqueAttrs == [m \in MCUniqueMsgs |-> IF m = "3" THEN {} ELSE {"x"}]

\* One request repeated once, and the request of the next timestamp.
MCDupMsgs == {"1a", "1b", "2"}
MCDupTs == [m \in MCDupMsgs |-> IF m = "2" THEN 2 ELSE 1]
MCNoAttrs == [m \in Msgs |-> {}]

MCInQueue == [m \in Msgs |-> "A"]

=============================================================================
