---------------------------- MODULE SerialTurns ----------------------------
(***************************************************************************)
(* What the origin manager promises its callers, without saying how.      *)
(*                                                                         *)
(* Every queue (a receiver's partition and service) is a room that one     *)
(* message at a time may enter, in the order of the timestamps: 1, 2, ...  *)
(* A message whose turn has passed when it asks is turned away.            *)
(***************************************************************************)
EXTENDS Naturals

CONSTANTS
    Msgs,       \* the messages
    Queues,     \* the rooms
    QueueOf,    \* [Msgs -> Queues]: the room a message asks for
    Ts          \* [Msgs -> Nat]: the turn a message holds

VARIABLES
    turn,       \* [Queues -> Nat]: the number of turns that are over
    phase       \* [Msgs -> {"out", "in", "left", "late"}]

vars == <<turn, phase>>

Inside(q) == {m \in Msgs : QueueOf[m] = q /\ phase[m] = "in"}

Init ==
    /\ turn = [q \in Queues |-> 0]
    /\ phase = [m \in Msgs |-> "out"]

\* The message whose turn it is enters an empty room.
Enter(m) ==
    /\ phase[m] = "out"
    /\ Ts[m] = turn[QueueOf[m]] + 1
    /\ Inside(QueueOf[m]) = {}
    /\ phase' = [phase EXCEPT ![m] = "in"]
    /\ UNCHANGED turn

\* Leaving ends the turn.
Leave(m) ==
    /\ phase[m] = "in"
    /\ phase' = [phase EXCEPT ![m] = "left"]
    /\ turn' = [turn EXCEPT ![QueueOf[m]] = @ + 1]

\* A message that asks after its turn is turned away.
TurnAway(m) ==
    /\ phase[m] = "out"
    /\ Ts[m] <= turn[QueueOf[m]]
    /\ phase' = [phase EXCEPT ![m] = "late"]
    /\ UNCHANGED turn

Next == \E m \in Msgs : Enter(m) \/ Leave(m) \/ TurnAway(m)

Spec == Init /\ [][Next]_vars

\* Nobody whose turn it is stays outside for ever, or inside for ever.
FairSpec ==
    /\ Spec
    /\ \A m \in Msgs : WF_vars(Enter(m)) /\ WF_vars(Leave(m))

=============================================================================
