-------------------------- MODULE MCTxCoordinator --------------------------
(***************************************************************************)
(* Instances of TxCoordinator for TLC: four requests, whose stages visit   *)
(* A, B and A again; C is a receiver of other transactions.                *)
(***************************************************************************)
EXTENDS TxCoordinator, TLC

CONSTANTS r1, r2, r3, r4

MCReqs == {r1, r2, r3, r4}
MCServices == {"A", "B", "C"}
MCReceivers == <<"A", "B", "A">>
ReqSymmetry == Permutations(MCReqs)

=============================================================================
