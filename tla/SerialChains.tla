---------------------------- MODULE SerialChains ----------------------------
(***************************************************************************)
(* What coordinator, executors and participants promise together, without  *)
(* saying how: transactions 1, 2, ... of one sender partition each visit   *)
(* the receivers of their stages, one after the other and once each, and   *)
(* every receiver sees them in the same order, that of their numbers.      *)
(*                                                                         *)
(* A receiver may be disturbed.  From then on it may let a transaction in  *)
(* after a later one; the rest of the promise stands.                      *)
(***************************************************************************)
EXTENDS Naturals, Sequences

CONSTANTS
    Txs,        \* the transactions, numbered in the order of their creation
    Stages      \* the stages, each the visit of one receiver

VARIABLES
    visits,     \* [Stages -> Seq(Txs)]: who has been there, in order
    disturbed   \* the stages whose receiver was disturbed

vars == <<visits, disturbed>>

Visitors(k) == {visits[k][i] : i \in DOMAIN visits[k]}

Init ==
    /\ visits = [k \in Stages |-> << >>]
    /\ disturbed = {}

\* Transaction n goes to its next stage.
Visit(n, k) ==
    /\ n \notin Visitors(k)
    /\ \A j \in Stages : j < k => n \in Visitors(j)
    /\ k \notin disturbed => \A m \in Visitors(k) : m < n
    /\ visits' = [visits EXCEPT ![k] = Append(@, n)]
    /\ UNCHANGED disturbed

Disturb(k) ==
    /\ disturbed' = disturbed \cup {k}
    /\ UNCHANGED visits

Next == \E k \in Stages : Disturb(k) \/ \E n \in Txs : Visit(n, k)

Spec == Init /\ [][Next]_vars

=============================================================================
