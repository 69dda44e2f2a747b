----------------------------- MODULE MCTxChain -----------------------------
(***************************************************************************)
(* Instances of TxChain for TLC.                                           *)
(***************************************************************************)
EXTENDS TxChain

MCMsgs == Txs \X Stages \X Slots
MCQueueOf == [m \in MCMsgs |-> m[2]]
MCTs == [m \in MCMsgs |-> m[1]]
MCAttrsOf == [m \in MCMsgs |-> {}]

=============================================================================
