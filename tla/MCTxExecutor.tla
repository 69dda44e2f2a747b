---------------------------- MODULE MCTxExecutor ----------------------------
(***************************************************************************)
(* Instances of TxExecutor for TLC: a commit stage and two more stages.    *)
(***************************************************************************)
EXTENDS TxExecutor

CONSTANTS c1, c2

TwoCopies == {c1, c2}
AllStages == 1 .. NumStages

=============================================================================
