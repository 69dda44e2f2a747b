------------------------------ MODULE TxOrigin ------------------------------
(***************************************************************************)
(* The origin manager of a receiving service (pkg/cc/origin.go, with the   *)
(* clocks of clock.go and the partition locks of partition.go).  It admits *)
(* the messages of one (partition, service) queue in timestamp order:      *)
(*                                                                         *)
(*     Acquire = enqueue; next; <-reply       Release = advance; next      *)
(*                                                                         *)
(* enqueue, advance and next each hold the partition's mutex from their    *)
(* first statement to their last, so each is one action here; goroutines   *)
(* interleave between them.  A caller is the message it passes to Acquire: *)
(* every WaitMsg has a reply channel of its own and is used once.          *)
(***************************************************************************)
EXTENDS Naturals, FiniteSets

CONSTANTS
    Msgs,       \* the WaitMsg values passed to Acquire, one per caller
    Queues,     \* the (partition, service) pairs that were initialised
    QueueOf,    \* [Msgs -> Queues]: msg.partition and msg.service
    Ts          \* [Msgs -> Nat]: msg.timestamp

ASSUME MsgAssumption ==
    /\ QueueOf \in [Msgs -> Queues]
    /\ Ts \in [Msgs -> Nat]

VARIABLES
    clock,      \* [Queues -> Nat]: the receiver clocks
    queue,      \* [Queues -> SUBSET Msgs]: the priority queues
    reply,      \* the messages whose grant is being sent by a "go func"
    pc          \* [Msgs -> control state of the caller]

originVars == <<clock, queue, reply, pc>>

\* The control states of a caller.  "enqueued": between enqueue and next;
\* "waiting": blocked on <-msg.reply; "holding": Acquire returned true;
\* "advanced": inside Release, between advance and next; "refused": Acquire
\* returned false.
PCs == {"idle", "enqueued", "waiting", "holding", "advanced", "done", "refused"}

MsgsOf(q) == {m \in Msgs : QueueOf[m] = q}

-----------------------------------------------------------------------------
Init ==
    /\ clock = [q \in Queues |-> 0]
    /\ queue = [q \in Queues |-> {}]
    /\ reply = {}
    /\ pc = [m \in Msgs |-> "idle"]

Goto(m, label) == pc' = [pc EXCEPT ![m] = label]

\* Faulty variant: a comparator that sorts descending.
HeadsDescending(q) == {m \in queue[q] : \A n \in queue[q] : Ts[m] >= Ts[n]}

\* The messages Peek may return: the heap orders by timestamp only.
Heads(q) == {m \in queue[q] : \A n \in queue[q] : Ts[m] <= Ts[n]}

\* Faulty variants of next: the head is granted whatever its timestamp; the
\* head is granted but stays in the queue.
GrantNextAny(q) ==
    \/ \E m \in Heads(q) :
          /\ queue' = [queue EXCEPT ![q] = @ \ {m}]
          /\ reply' = reply \cup {m}
    \/ queue[q] = {} /\ UNCHANGED <<queue, reply>>

GrantNextPeekOnly(q) ==
    \/ \E m \in Heads(q) :
          Ts[m] = clock[q] + 1 /\ reply' = reply \cup {m} /\ UNCHANGED queue
    \/ /\ \A m \in Heads(q) : Ts[m] # clock[q] + 1
       /\ UNCHANGED <<queue, reply>>

\* next: the head leaves the queue and is granted when its turn has come.
GrantNext(q) ==
    \/ \E m \in Heads(q) :
          /\ Ts[m] = clock[q] + 1
          /\ queue' = [queue EXCEPT ![q] = @ \ {m}]
          /\ reply' = reply \cup {m}
    \/ /\ \A m \in Heads(q) : Ts[m] # clock[q] + 1
       /\ UNCHANGED <<queue, reply>>

\* Faulty variant: the message whose turn it is counts as late.
EnqueueLateOffByOne(m) ==
    /\ pc[m] = "idle"
    /\ Ts[m] <= clock[QueueOf[m]] + 1
    /\ Goto(m, "refused")
    /\ UNCHANGED <<clock, queue, reply>>

\* enqueue, refused: the timestamp is not above the clock.
EnqueueLate(m) ==
    /\ pc[m] = "idle"
    /\ Ts[m] <= clock[QueueOf[m]]
    /\ Goto(m, "refused")
    /\ UNCHANGED <<clock, queue, reply>>

\* enqueue, accepted.
Enqueue(m) ==
    /\ pc[m] = "idle"
    /\ Ts[m] > clock[QueueOf[m]]
    /\ queue' = [queue EXCEPT ![QueueOf[m]] = @ \cup {m}]
    /\ Goto(m, "enqueued")
    /\ UNCHANGED <<clock, reply>>

\* Faulty variant: Acquire waits without having called next.
AcquireNextMissing(m) ==
    /\ pc[m] = "enqueued"
    /\ Goto(m, "waiting")
    /\ UNCHANGED <<clock, queue, reply>>

\* Acquire's call of next.
AcquireNext(m) ==
    /\ pc[m] = "enqueued"
    /\ GrantNext(QueueOf[m])
    /\ Goto(m, "waiting")
    /\ UNCHANGED clock

\* <-msg.reply meets the granting goroutine and Acquire returns true.
Receive(m) ==
    /\ pc[m] = "waiting"
    /\ m \in reply
    /\ reply' = reply \ {m}
    /\ Goto(m, "holding")
    /\ UNCHANGED <<clock, queue>>

\* Faulty variant: the clock is set back instead of forward.
AdvanceBack(m, label) ==
    /\ pc[m] = label
    /\ clock' = [clock EXCEPT ![QueueOf[m]] = @ - 1]
    /\ Goto(m, "advanced")
    /\ UNCHANGED <<queue, reply>>

\* advance, called by a caller that is at the given label.
Advance(m, label) ==
    /\ pc[m] = label
    /\ clock' = [clock EXCEPT ![QueueOf[m]] = @ + 1]
    /\ Goto(m, "advanced")
    /\ UNCHANGED <<queue, reply>>

\* Faulty variant: Release ends without having called next.
ReleaseNextMissing(m) ==
    /\ pc[m] = "advanced"
    /\ Goto(m, "done")
    /\ UNCHANGED <<clock, queue, reply>>

\* Release's call of next.
ReleaseNext(m) ==
    /\ pc[m] = "advanced"
    /\ GrantNext(QueueOf[m])
    /\ Goto(m, "done")
    /\ UNCHANGED clock

\* A caller that releases what it acquired, and only that, as the origin
\* manager's test and HandleTxAdvanceTimestamp do.
Step(m) ==
    \/ EnqueueLate(m)
    \/ Enqueue(m)
    \/ AcquireNext(m)
    \/ Receive(m)
    \/ Advance(m, "holding")
    \/ ReleaseNext(m)

Next == \E m \in Msgs : Step(m)

Spec == Init /\ [][Next]_originVars

\* The Go scheduler runs every goroutine that can run, a mutex is held for a
\* few statements, and a holder ends its work.
FairSpec == Spec /\ \A m \in Msgs : WF_originVars(Step(m))

-----------------------------------------------------------------------------
(* Properties                                                              *)

TypeOK ==
    /\ clock \in [Queues -> Nat]
    /\ queue \in [Queues -> SUBSET Msgs]
    /\ reply \subseteq Msgs
    /\ pc \in [Msgs -> PCs]

\* What the senders guarantee: a coordinator hands out each timestamp above 0
\* of a receiver's queue once.
UniqueTs ==
    \A m, n \in Msgs :
        QueueOf[m] = QueueOf[n] /\ Ts[m] = Ts[n] /\ Ts[m] # 0 => m = n

\* At most one caller is between Acquire and Release of a queue, although
\* Release gives up the lock between advance and next and grants travel
\* through goroutines of their own.
MutualExclusion ==
    \A m, n \in Msgs :
        /\ QueueOf[m] = QueueOf[n]
        /\ pc[m] = "holding"
        /\ pc[n] = "holding"
        => m = n

Served(m) == pc[m] \in {"advanced", "done"}

\* The order TestTxOriginManager expects: when a caller is admitted, every
\* smaller timestamp of its queue has been served and none is skipped.
NoOvertaking ==
    \A n \in Msgs :
        pc[n] = "holding" \/ Served(n) =>
            \A t \in 1 .. (Ts[n] - 1) :
                \E m \in MsgsOf(QueueOf[n]) : Ts[m] = t /\ Served(m)

\* No wakeup is lost: when the message whose turn it is sits in the queue, a
\* call of next that will see it is still to come, from an Acquire that has
\* enqueued or from a Release that has advanced.
NoLostWakeup ==
    \A q \in Queues : \A m \in queue[q] :
        Ts[m] = clock[q] + 1 =>
            \E n \in MsgsOf(q) : pc[n] \in {"enqueued", "advanced"}

\* Acquire refuses nobody but the outdated: the clock never passes a message
\* that has not been served.
FreshNeverRefused == \A m \in Msgs : pc[m] = "refused" => Ts[m] = 0

\* Every timestamp below m's is held by some caller of the queue.
NoGapBelow(m) ==
    \A t \in 1 .. (Ts[m] - 1) : \E n \in MsgsOf(QueueOf[m]) : Ts[n] = t

\* Acquire returns and Release returns for every caller that no missing
\* timestamp holds up, whatever order the callers arrive in.
EveryTurnComes ==
    \A m \in Msgs : NoGapBelow(m) => <>(pc[m] \in {"done", "refused"})

\* The origin manager implements the serial turns: a caller is in its turn
\* from the return of Acquire to the advance of Release.
PhaseOf(m) ==
    CASE pc[m] = "holding" -> "in"
      [] Served(m)         -> "left"
      [] pc[m] = "refused" -> "late"
      [] OTHER             -> "out"

Turns == INSTANCE SerialTurns
            WITH turn <- clock, phase <- [m \in Msgs |-> PhaseOf(m)]

TurnsSpec == Turns!Spec

\* With fairness: whoever's turn it is enters and leaves.
TurnsFairSpec == Turns!FairSpec

-----------------------------------------------------------------------------
(* The inductive invariant behind the safety properties                    *)

\* A queued message has not been granted and its turn has not passed.
QueuedAhead ==
    \A q \in Queues : \A m \in queue[q] :
        /\ QueueOf[m] = q
        /\ pc[m] \in {"enqueued", "waiting"}
        /\ m \notin reply
        /\ Ts[m] > clock[q]

\* A granted message is still inside Acquire.
GrantedInAcquire == \A m \in reply : pc[m] \in {"enqueued", "waiting"}

\* A grant is only ever given for the present turn and keeps it from passing.
GrantedInTurn ==
    \A m \in Msgs :
        m \in reply \/ pc[m] = "holding" => Ts[m] = clock[QueueOf[m]] + 1

\* The clock has not passed a message that has still to ask.
IdleAhead ==
    \A m \in Msgs :
        pc[m] = "idle" => Ts[m] = 0 \/ Ts[m] > clock[QueueOf[m]]

\* The turn of a served message is over, ...
ServedPassed == \A m \in Msgs : Served(m) => Ts[m] <= clock[QueueOf[m]]

\* ... and every turn that is over was a message's.
TurnsCounted ==
    \A q \in Queues : \A t \in 1 .. clock[q] :
        \E m \in MsgsOf(q) : Ts[m] = t /\ Served(m)

IInv ==
    /\ TypeOK
    /\ QueuedAhead
    /\ GrantedInAcquire
    /\ GrantedInTurn
    /\ IdleAhead
    /\ ServedPassed
    /\ TurnsCounted
    /\ NoLostWakeup
    /\ FreshNeverRefused

=============================================================================
