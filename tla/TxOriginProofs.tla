--------------------------- MODULE TxOriginProofs ---------------------------
(***************************************************************************)
(* Theorems about the origin manager, for every set of queues and callers. *)
(*                                                                         *)
(* The safety properties rest on one inductive invariant, IInv: where a    *)
(* message is (queue, grant or caller) determines how its timestamp        *)
(* relates to the clock, and the turns up to the clock have been served.   *)
(***************************************************************************)
EXTENDS TxOrigin, TLAPS

-----------------------------------------------------------------------------
(* Type correctness                                                        *)

\* What a call of next may do to a queue and to the grants, and the test it
\* makes: the head is granted or there is no head whose turn it is.
LEMMA GrantNextEffect ==
    ASSUME NEW q \in Queues, TypeOK, GrantNext(q)
    PROVE  \/ /\ UNCHANGED <<queue, reply>>
              /\ \A m \in Heads(q) : Ts[m] # clock[q] + 1
           \/ \E m \in queue[q] :
                 /\ Ts[m] = clock[q] + 1
                 /\ queue' = [queue EXCEPT ![q] = @ \ {m}]
                 /\ reply' = reply \cup {m}
  BY DEF GrantNext, Heads

\* A call of next keeps the types of the queues and of the grants.
LEMMA GrantNextType ==
    ASSUME NEW q \in Queues, TypeOK, GrantNext(q)
    PROVE  queue' \in [Queues -> SUBSET Msgs] /\ reply' \subseteq Msgs
  <1>1. CASE UNCHANGED <<queue, reply>>
    BY <1>1 DEF TypeOK
  <1>2. CASE \E m \in queue[q] :
                /\ queue' = [queue EXCEPT ![q] = @ \ {m}]
                /\ reply' = reply \cup {m}
    BY <1>2 DEF TypeOK
  <1> QED
    BY <1>1, <1>2, GrantNextEffect

\* No step leaves the types.
LEMMA TypeKept ==
    ASSUME TypeOK, [Next]_originVars
    PROVE  TypeOK'
  <1>1. ASSUME NEW m \in Msgs, EnqueueLate(m) PROVE TypeOK'
    BY <1>1 DEF TypeOK, EnqueueLate, Goto, PCs
  <1>2. ASSUME NEW m \in Msgs, Enqueue(m) PROVE TypeOK'
    BY <1>2, MsgAssumption DEF TypeOK, Enqueue, Goto, PCs
  <1>3. ASSUME NEW m \in Msgs, AcquireNext(m) PROVE TypeOK'
    BY <1>3, MsgAssumption, GrantNextType
       DEF TypeOK, AcquireNext, Goto, PCs
  <1>4. ASSUME NEW m \in Msgs, Receive(m) PROVE TypeOK'
    BY <1>4 DEF TypeOK, Receive, Goto, PCs
  <1>5. ASSUME NEW m \in Msgs, Advance(m, "holding") PROVE TypeOK'
    <2>1. clock' \in [Queues -> Nat]
      BY <1>5, MsgAssumption DEF TypeOK, Advance
    <2>2. pc' \in [Msgs -> PCs]
      BY <1>5 DEF TypeOK, Advance, Goto, PCs
    <2> QED
      BY <1>5, <2>1, <2>2 DEF TypeOK, Advance
  <1>6. ASSUME NEW m \in Msgs, ReleaseNext(m) PROVE TypeOK'
    BY <1>6, MsgAssumption, GrantNextType
       DEF TypeOK, ReleaseNext, Goto, PCs
  <1>7. CASE UNCHANGED originVars
    BY <1>7 DEF TypeOK, originVars
  <1> QED
    BY <1>1, <1>2, <1>3, <1>4, <1>5, <1>6, <1>7 DEF Next, Step

\* The clocks stay numbers and every caller stays in a control state of
\* Acquire and Release.
THEOREM TypeCorrect == Spec => []TypeOK
  <1>1. Init => TypeOK
    BY MsgAssumption DEF Init, TypeOK, PCs
  <1> QED
    BY <1>1, TypeKept, PTL DEF Spec

-----------------------------------------------------------------------------
(* The inductive invariant.  One lemma per kind of step.                   *)

\* IInv without its typing part, which TypeCorrect already has.
Safe ==
    /\ QueuedAhead
    /\ GrantedInAcquire
    /\ GrantedInTurn
    /\ IdleAhead
    /\ ServedPassed
    /\ TurnsCounted
    /\ NoLostWakeup
    /\ FreshNeverRefused

\* With no clock moved, no turn ends.
LEMMA TurnsCountedStable ==
    ASSUME TurnsCounted, UNCHANGED clock, \A m \in Msgs : Served(m) => Served(m)'
    PROVE  TurnsCounted'
  BY DEF TurnsCounted, MsgsOf

LEMMA EnqueueLateSafe ==
    ASSUME TypeOK, Safe, NEW m \in Msgs, EnqueueLate(m)
    PROVE  Safe'
  <1> USE MsgAssumption DEF TypeOK, EnqueueLate, Goto
  <1>1. \A n \in Msgs : n # m => pc'[n] = pc[n]
    OBVIOUS
  <1>2. pc[m] = "idle" /\ pc'[m] = "refused"
    OBVIOUS
  <1>3. QueuedAhead' /\ GrantedInAcquire' /\ GrantedInTurn'
    BY <1>1, <1>2 DEF Safe, QueuedAhead, GrantedInAcquire, GrantedInTurn
  <1>4. IdleAhead' /\ ServedPassed'
    BY <1>1, <1>2 DEF Safe, IdleAhead, ServedPassed, Served
  <1>5. TurnsCounted'
    BY <1>1, <1>2, TurnsCountedStable DEF Safe, Served
  <1>6. NoLostWakeup'
    BY <1>1, <1>2 DEF Safe, NoLostWakeup, MsgsOf
  <1>7. FreshNeverRefused'
    <2>1. Ts[m] \in Nat /\ clock[QueueOf[m]] \in Nat
      OBVIOUS
    <2>2. Ts[m] = 0
      BY <1>2, <2>1 DEF Safe, IdleAhead
    <2> QED
      BY <1>1, <1>2, <2>2 DEF Safe, FreshNeverRefused
  <1> QED
    BY <1>3, <1>4, <1>5, <1>6, <1>7 DEF Safe

LEMMA EnqueueSafe ==
    ASSUME TypeOK, Safe, NEW m \in Msgs, Enqueue(m)
    PROVE  Safe'
  <1> USE MsgAssumption DEF TypeOK, Enqueue, Goto
  <1>1. \A n \in Msgs : n # m => pc'[n] = pc[n]
    OBVIOUS
  <1>2. pc[m] = "idle" /\ pc'[m] = "enqueued" /\ m \notin reply
    BY DEF Safe, GrantedInAcquire
  <1>3. \A q \in Queues :
          queue'[q] = IF q = QueueOf[m] THEN queue[q] \cup {m} ELSE queue[q]
    OBVIOUS
  <1>4. QueuedAhead'
    BY <1>1, <1>2, <1>3 DEF Safe, QueuedAhead
  <1>5. GrantedInAcquire' /\ GrantedInTurn'
    BY <1>1, <1>2 DEF Safe, GrantedInAcquire, GrantedInTurn
  <1>6. IdleAhead' /\ ServedPassed' /\ FreshNeverRefused'
    BY <1>1, <1>2 DEF Safe, IdleAhead, ServedPassed, Served, FreshNeverRefused
  <1>7. TurnsCounted'
    BY <1>1, <1>2, TurnsCountedStable DEF Safe, Served
  <1>8. NoLostWakeup'
    BY <1>1, <1>2, <1>3 DEF Safe, NoLostWakeup, MsgsOf
  <1> QED
    BY <1>4, <1>5, <1>6, <1>7, <1>8 DEF Safe

LEMMA ReceiveSafe ==
    ASSUME TypeOK, Safe, NEW m \in Msgs, Receive(m)
    PROVE  Safe'
  <1> USE MsgAssumption DEF TypeOK, Receive, Goto
  <1>1. \A n \in Msgs : n # m => pc'[n] = pc[n]
    OBVIOUS
  <1>2. pc[m] = "waiting" /\ pc'[m] = "holding" /\ m \in reply
    OBVIOUS
  <1>3. QueuedAhead'
    BY <1>1, <1>2 DEF Safe, QueuedAhead
  <1>4. GrantedInAcquire' /\ GrantedInTurn'
    BY <1>1, <1>2 DEF Safe, GrantedInAcquire, GrantedInTurn
  <1>5. IdleAhead' /\ ServedPassed' /\ FreshNeverRefused'
    BY <1>1, <1>2 DEF Safe, IdleAhead, ServedPassed, Served, FreshNeverRefused
  <1>6. TurnsCounted'
    BY <1>1, <1>2, TurnsCountedStable DEF Safe, Served
  <1>7. NoLostWakeup'
    BY <1>1, <1>2 DEF Safe, NoLostWakeup, MsgsOf
  <1> QED
    BY <1>3, <1>4, <1>5, <1>6, <1>7 DEF Safe

\* A caller at "enqueued" or "advanced" calls next and moves on.  Its
\* departure loses no wakeup: it has looked at the head itself.
LEMMA GrantSafe ==
    ASSUME TypeOK, Safe, NEW m \in Msgs,
           GrantNext(QueueOf[m]), UNCHANGED clock,
           \/ pc[m] = "enqueued" /\ Goto(m, "waiting")
           \/ pc[m] = "advanced" /\ Goto(m, "done"),
           UniqueTs
    PROVE  Safe'
  <1> USE MsgAssumption DEF TypeOK, Goto
  <1> DEFINE q == QueueOf[m]
  <1>1. q \in Queues /\ queue[q] \subseteq Msgs
    OBVIOUS
  <1>2. \A n \in Msgs : n # m => pc'[n] = pc[n]
    OBVIOUS
  <1>3. \/ pc[m] = "enqueued" /\ pc'[m] = "waiting"
        \/ pc[m] = "advanced" /\ pc'[m] = "done"
    OBVIOUS
  <1>4. IdleAhead' /\ ServedPassed' /\ FreshNeverRefused'
    BY <1>2, <1>3 DEF Safe, IdleAhead, ServedPassed, Served, FreshNeverRefused
  <1>5. TurnsCounted'
    BY <1>2, <1>3, TurnsCountedStable DEF Safe, Served
  <1>6. CASE UNCHANGED <<queue, reply>> /\ \A n \in Heads(q) : Ts[n] # clock[q] + 1
    <2>1. QueuedAhead' /\ GrantedInAcquire' /\ GrantedInTurn'
      BY <1>2, <1>3, <1>6
         DEF Safe, QueuedAhead, GrantedInAcquire, GrantedInTurn
    <2>2. \A n \in queue[q] : Ts[n] # clock[q] + 1
      <3> SUFFICES ASSUME NEW n \in queue[q], Ts[n] = clock[q] + 1
                   PROVE  FALSE
        OBVIOUS
      <3>1. \A p \in queue[q] : Ts[p] \in Nat /\ Ts[p] > clock[q]
        BY <1>1 DEF Safe, QueuedAhead
      <3>2. \A p \in queue[q] : Ts[n] <= Ts[p]
        BY <1>1, <3>1
      <3> QED
        BY <1>6, <3>2 DEF Heads
    <2>3. NoLostWakeup'
      <3> SUFFICES ASSUME NEW p \in Queues, NEW n \in queue[p], Ts[n] = clock[p] + 1
                   PROVE  \E r \in MsgsOf(p) : pc'[r] \in {"enqueued", "advanced"}
        BY <1>6 DEF NoLostWakeup, MsgsOf
      <3>1. p # q
        BY <2>2
      <3>2. PICK r \in MsgsOf(p) : pc[r] \in {"enqueued", "advanced"}
        BY DEF Safe, NoLostWakeup
      <3> QED
        BY <1>2, <3>1, <3>2 DEF MsgsOf
    <2> QED
      BY <1>4, <1>5, <2>1, <2>3 DEF Safe
  <1>7. ASSUME NEW g \in queue[q],
               Ts[g] = clock[q] + 1,
               queue' = [queue EXCEPT ![q] = @ \ {g}],
               reply' = reply \cup {g}
        PROVE  Safe'
    <2>1. \A p \in Queues :
            queue'[p] = IF p = q THEN queue[p] \ {g} ELSE queue[p]
      BY <1>7
    <2>2. g \in Msgs /\ QueueOf[g] = q /\ pc[g] \in {"enqueued", "waiting"}
      BY <1>1 DEF Safe, QueuedAhead
    <2>3. QueuedAhead'
      BY <1>2, <1>3, <1>7, <2>1, <2>2 DEF Safe, QueuedAhead
    <2>4. GrantedInAcquire'
      BY <1>2, <1>3, <1>7, <2>2 DEF Safe, GrantedInAcquire
    <2>5. GrantedInTurn'
      BY <1>2, <1>3, <1>7, <2>2 DEF Safe, GrantedInTurn
    <2>6. NoLostWakeup'
      <3> SUFFICES ASSUME NEW p \in Queues, NEW n \in queue'[p], Ts[n] = clock[p] + 1
                   PROVE  \E r \in MsgsOf(p) : pc'[r] \in {"enqueued", "advanced"}
        BY DEF NoLostWakeup, MsgsOf
      <3>1. n \in queue[p] /\ n \in Msgs /\ QueueOf[n] = p
        <4>1. n \in queue[p]
          BY <2>1
        <4> QED
          BY <4>1 DEF Safe, QueuedAhead
      <3>2. p # q
        <4> SUFFICES ASSUME p = q PROVE FALSE
          OBVIOUS
        <4>1. n # g
          BY <2>1
        <4>2. Ts[n] = Ts[g] /\ Ts[n] # 0
          BY <1>1, <1>7
        <4> QED
          BY <2>2, <3>1, <4>1, <4>2 DEF UniqueTs
      <3>3. PICK r \in MsgsOf(p) : pc[r] \in {"enqueued", "advanced"}
        BY <3>1 DEF Safe, NoLostWakeup
      <3> QED
        BY <1>2, <3>2, <3>3 DEF MsgsOf
    <2> QED
      BY <1>4, <1>5, <2>3, <2>4, <2>5, <2>6 DEF Safe
  <1> HIDE DEF q
  <1> QED
    BY <1>1, <1>6, <1>7, GrantNextEffect DEF q

\* The holder ends its turn: the clock moves to it, and what is next in the
\* queue waits for the call of next that the holder still owes.
LEMMA AdvanceSafe ==
    ASSUME TypeOK, Safe, NEW h \in Msgs, Advance(h, "holding"), UniqueTs
    PROVE  Safe'
  <1> USE MsgAssumption DEF TypeOK
  <1> DEFINE q == QueueOf[h]
  <1>1. q \in Queues /\ clock[q] \in Nat
    OBVIOUS
  <1>2. /\ pc[h] = "holding" /\ pc'[h] = "advanced"
        /\ \A n \in Msgs : n # h => pc'[n] = pc[n]
        /\ UNCHANGED <<queue, reply>>
    BY DEF Advance, Goto
  <1>3. /\ clock' \in [Queues -> Nat]
        /\ clock'[q] = clock[q] + 1
        /\ \A p \in Queues : p # q => clock'[p] = clock[p]
    BY <1>1 DEF Advance
  <1>4. Ts[h] = clock[q] + 1 /\ h \notin reply
    BY <1>2 DEF Safe, GrantedInTurn, GrantedInAcquire
  \* The holder is the only message with the turn's timestamp.
  <1>5. ASSUME NEW n \in Msgs, n # h, QueueOf[n] = q
        PROVE  Ts[n] # clock[q] + 1
    BY <1>1, <1>4, <1>5 DEF UniqueTs
  <1>6. ASSUME NEW n \in Msgs, n # h, Ts[n] > clock[QueueOf[n]]
        PROVE  Ts[n] > clock'[QueueOf[n]]
    <2>1. Ts[n] \in Nat /\ QueueOf[n] \in Queues
      OBVIOUS
    <2>2. CASE QueueOf[n] = q
      <3>1. Ts[n] # clock[q] + 1
        BY <1>5, <1>6, <2>2
      <3> QED
        BY <1>1, <1>3, <1>6, <2>1, <2>2, <3>1
    <2>3. CASE QueueOf[n] # q
      BY <1>3, <1>6, <2>1, <2>3
    <2> QED
      BY <2>2, <2>3
  <1> HIDE DEF q
  <1>7. QueuedAhead'
    <2> SUFFICES ASSUME NEW p \in Queues, NEW n \in queue[p]
                 PROVE  /\ QueueOf[n] = p
                        /\ pc'[n] \in {"enqueued", "waiting"}
                        /\ n \notin reply
                        /\ Ts[n] > clock'[p]
      BY <1>2 DEF QueuedAhead
    <2>1. /\ n \in Msgs /\ n \notin reply /\ QueueOf[n] = p
          /\ pc[n] \in {"enqueued", "waiting"}
          /\ Ts[n] > clock[p]
      BY DEF Safe, QueuedAhead
    <2>2. n # h
      BY <1>2, <2>1
    <2> QED
      BY <1>2, <1>6, <2>1, <2>2
  <1>8. GrantedInAcquire'
    BY <1>2 DEF Safe, GrantedInAcquire
  <1>9. GrantedInTurn'
    <2> SUFFICES ASSUME NEW n \in Msgs, n \in reply \/ pc'[n] = "holding"
                 PROVE  Ts[n] = clock'[QueueOf[n]] + 1
      BY <1>2 DEF GrantedInTurn
    <2>1. n # h
      BY <1>2, <1>4
    <2>2. Ts[n] = clock[QueueOf[n]] + 1
      BY <1>2, <2>1 DEF Safe, GrantedInTurn
    <2>3. QueueOf[n] # q
      BY <1>5, <2>1, <2>2
    <2> QED
      BY <1>3, <2>2, <2>3
  <1>10. IdleAhead'
    BY <1>2, <1>6 DEF Safe, IdleAhead
  <1>11. ServedPassed'
    <2> SUFFICES ASSUME NEW n \in Msgs, Served(n)'
                 PROVE  Ts[n] <= clock'[QueueOf[n]]
      BY DEF ServedPassed
    <2>1. CASE n = h
      BY <1>1, <1>3, <1>4, <2>1 DEF q
    <2>2. CASE n # h
      <3>1. Ts[n] \in Nat /\ clock[QueueOf[n]] \in Nat
        OBVIOUS
      <3>2. Ts[n] <= clock[QueueOf[n]]
        BY <1>2, <2>2 DEF Safe, ServedPassed, Served
      <3> QED
        BY <1>1, <1>3, <3>1, <3>2
    <2> QED
      BY <2>1, <2>2
  <1>12. TurnsCounted'
    <2> SUFFICES ASSUME NEW p \in Queues, NEW t \in 1 .. clock'[p]
                 PROVE  \E m \in MsgsOf(p) : Ts[m] = t /\ Served(m)'
      BY DEF TurnsCounted, MsgsOf
    <2>1. CASE t \in 1 .. clock[p]
      <3>1. PICK m \in MsgsOf(p) : Ts[m] = t /\ Served(m)
        BY <2>1 DEF Safe, TurnsCounted
      <3> QED
        BY <1>2, <3>1 DEF MsgsOf, Served
    <2>2. CASE t \notin 1 .. clock[p]
      <3>1. p = q /\ t = clock[q] + 1
        BY <1>1, <1>3, <2>2
      <3> QED
        BY <1>2, <1>4, <3>1 DEF MsgsOf, Served, q
    <2> QED
      BY <2>1, <2>2
  <1>13. NoLostWakeup'
    <2> SUFFICES ASSUME NEW p \in Queues, NEW n \in queue[p], Ts[n] = clock'[p] + 1
                 PROVE  \E r \in MsgsOf(p) : pc'[r] \in {"enqueued", "advanced"}
      BY <1>2 DEF NoLostWakeup, MsgsOf
    <2>1. CASE p = q
      BY <1>2, <2>1 DEF MsgsOf, q
    <2>2. CASE p # q
      <3>1. PICK r \in MsgsOf(p) : pc[r] \in {"enqueued", "advanced"}
        BY <1>3, <2>2 DEF Safe, NoLostWakeup
      <3> QED
        BY <1>2, <3>1 DEF MsgsOf
    <2> QED
      BY <2>1, <2>2
  <1>14. FreshNeverRefused'
    BY <1>2 DEF Safe, FreshNeverRefused
  <1> QED
    BY <1>7, <1>8, <1>9, <1>10, <1>11, <1>12, <1>13, <1>14 DEF Safe

LEMMA InitSafe == Init => Safe
  BY MsgAssumption
     DEF Init, Safe, QueuedAhead, GrantedInAcquire, GrantedInTurn, IdleAhead,
         ServedPassed, Served, TurnsCounted, NoLostWakeup, FreshNeverRefused

LEMMA StutterSafe ==
    ASSUME Safe, UNCHANGED originVars
    PROVE  Safe'
  BY DEF originVars, Safe, QueuedAhead, GrantedInAcquire, GrantedInTurn,
         IdleAhead, ServedPassed, Served, TurnsCounted, MsgsOf, NoLostWakeup,
         FreshNeverRefused

\* No step breaks the invariant, when the senders hand out each timestamp once.
LEMMA SafeKept ==
    ASSUME UniqueTs, TypeOK, Safe, [Next]_originVars
    PROVE  Safe'
  <1>1. ASSUME NEW m \in Msgs, EnqueueLate(m) PROVE Safe'
    BY <1>1, EnqueueLateSafe
  <1>2. ASSUME NEW m \in Msgs, Enqueue(m) PROVE Safe'
    BY <1>2, EnqueueSafe
  <1>3. ASSUME NEW m \in Msgs, AcquireNext(m) PROVE Safe'
    BY <1>3, GrantSafe, UniqueTs DEF AcquireNext
  <1>4. ASSUME NEW m \in Msgs, Receive(m) PROVE Safe'
    BY <1>4, ReceiveSafe
  <1>5. ASSUME NEW m \in Msgs, Advance(m, "holding") PROVE Safe'
    BY <1>5, AdvanceSafe, UniqueTs
  <1>6. ASSUME NEW m \in Msgs, ReleaseNext(m) PROVE Safe'
    BY <1>6, GrantSafe, UniqueTs DEF ReleaseNext
  <1>7. CASE UNCHANGED originVars
    BY <1>7, StutterSafe
  <1> QED
    BY <1>1, <1>2, <1>3, <1>4, <1>5, <1>6, <1>7 DEF Next, Step

\* IInv holds throughout.
THEOREM Invariance ==
    ASSUME UniqueTs
    PROVE  Spec => []IInv
  <1>1. TypeOK /\ Safe /\ [Next]_originVars => Safe'
    BY SafeKept, UniqueTs
  <1>2. TypeOK /\ Safe => IInv
    BY DEF Safe, IInv
  <1> QED
    BY <1>1, <1>2, InitSafe, TypeCorrect, PTL DEF Spec

-----------------------------------------------------------------------------
(* What follows from the invariant                                         *)

LEMMA InvariantConsequences ==
    ASSUME IInv, UniqueTs
    PROVE  MutualExclusion /\ NoOvertaking
  <1> USE MsgAssumption DEF IInv, TypeOK
  <1>1. MutualExclusion
    BY DEF MutualExclusion, GrantedInTurn, UniqueTs
  <1>2. NoOvertaking
    <2> SUFFICES ASSUME NEW n \in Msgs, pc[n] = "holding" \/ Served(n),
                        NEW t \in 1 .. (Ts[n] - 1)
                 PROVE  \E m \in MsgsOf(QueueOf[n]) : Ts[m] = t /\ Served(m)
      BY DEF NoOvertaking
    <2>1. Ts[n] \in Nat /\ clock[QueueOf[n]] \in Nat
      OBVIOUS
    <2>2. Ts[n] <= clock[QueueOf[n]] + 1
      BY <2>1 DEF GrantedInTurn, ServedPassed
    <2>3. t \in 1 .. clock[QueueOf[n]]
      BY <2>1, <2>2
    <2> QED
      BY <2>3 DEF TurnsCounted
  <1> QED
    BY <1>1, <1>2

\* One caller at a time holds a queue.
THEOREM Exclusive ==
    ASSUME UniqueTs
    PROVE  Spec => []MutualExclusion
  <1>1. IInv => MutualExclusion
    BY InvariantConsequences, UniqueTs
  <1> QED
    BY <1>1, Invariance, UniqueTs, PTL

\* Callers are admitted in the order of their timestamps, without a gap.
THEOREM InOrder ==
    ASSUME UniqueTs
    PROVE  Spec => []NoOvertaking
  <1>1. IInv => NoOvertaking
    BY InvariantConsequences, UniqueTs
  <1> QED
    BY <1>1, Invariance, UniqueTs, PTL

\* The message whose turn it is never sits in the queue unnoticed.
THEOREM WakeupKept ==
    ASSUME UniqueTs
    PROVE  Spec => []NoLostWakeup
  <1>1. IInv => NoLostWakeup
    BY DEF IInv
  <1> QED
    BY <1>1, Invariance, UniqueTs, PTL

\* Only a message with timestamp 0 is ever refused.
THEOREM Admission ==
    ASSUME UniqueTs
    PROVE  Spec => []FreshNeverRefused
  <1>1. IInv => FreshNeverRefused
    BY DEF IInv
  <1> QED
    BY <1>1, Invariance, UniqueTs, PTL

-----------------------------------------------------------------------------
(* The origin manager implements the serial turns                          *)

phaseMap == [m \in Msgs |-> PhaseOf(m)]

\* A step that changes no clock and moves m between two control states that
\* the abstraction does not tell apart is a stutter of the turns.
LEMMA SamePhase ==
    ASSUME TypeOK, NEW m \in Msgs, UNCHANGED clock,
           \A n \in Msgs : n # m => pc'[n] = pc[n],
           PhaseOf(m)' = PhaseOf(m)
    PROVE  UNCHANGED <<clock, phaseMap>>
  BY DEF phaseMap, PhaseOf, Served

\* A step of m alone changes m's phase alone.
LEMMA OnePhase ==
    ASSUME TypeOK, NEW m \in Msgs,
           \A n \in Msgs : n # m => pc'[n] = pc[n]
    PROVE  phaseMap' = [phaseMap EXCEPT ![m] = PhaseOf(m)']
  BY DEF phaseMap, PhaseOf, Served

LEMMA StepRefines ==
    ASSUME IInv, UniqueTs, NEW m \in Msgs, Step(m)
    PROVE  Turns!Next \/ UNCHANGED Turns!vars
  <1> USE MsgAssumption DEF IInv, TypeOK
  <1> DEFINE q == QueueOf[m]
  <1>1. ASSUME NEW label, Goto(m, label)
        PROVE  pc'[m] = label /\ \A n \in Msgs : n # m => pc'[n] = pc[n]
    BY <1>1 DEF Goto
  <1>2. CASE Enqueue(m) \/ AcquireNext(m) \/ ReleaseNext(m)
    <2>1. PhaseOf(m)' = PhaseOf(m)
      BY <1>1, <1>2 DEF Enqueue, AcquireNext, ReleaseNext, PhaseOf, Served
    <2>2. UNCHANGED clock /\ \A n \in Msgs : n # m => pc'[n] = pc[n]
      BY <1>1, <1>2 DEF Enqueue, AcquireNext, ReleaseNext
    <2> QED
      BY <2>1, <2>2, SamePhase DEF Turns!vars, phaseMap
  <1>3. CASE EnqueueLate(m)
    <2>1. /\ pc[m] = "idle" /\ pc'[m] = "refused"
          /\ \A n \in Msgs : n # m => pc'[n] = pc[n]
      BY <1>1, <1>3 DEF EnqueueLate
    <2>2. phaseMap' = [phaseMap EXCEPT ![m] = "late"] /\ phaseMap[m] = "out"
      BY <2>1, OnePhase DEF phaseMap, PhaseOf, Served
    <2>3. Turns!TurnAway(m)
      BY <1>3, <2>2 DEF Turns!TurnAway, EnqueueLate, phaseMap
    <2> QED
      BY <2>3 DEF Turns!Next
  <1>4. CASE Receive(m)
    <2>1. /\ pc[m] = "waiting" /\ pc'[m] = "holding" /\ UNCHANGED clock
          /\ \A n \in Msgs : n # m => pc'[n] = pc[n]
      BY <1>1, <1>4 DEF Receive
    <2>2. phaseMap' = [phaseMap EXCEPT ![m] = "in"] /\ phaseMap[m] = "out"
      BY <2>1, OnePhase DEF phaseMap, PhaseOf, Served
    <2>3. Ts[m] = clock[q] + 1
      BY <1>4 DEF Receive, GrantedInTurn
    <2>4. Turns!Inside(q) = {}
      <3> SUFFICES ASSUME NEW n \in Msgs, QueueOf[n] = q, PhaseOf(n) = "in"
                   PROVE  FALSE
        BY DEF Turns!Inside
      <3>1. pc[n] = "holding"
        BY DEF PhaseOf, Served
      <3>2. Ts[n] = Ts[m] /\ Ts[m] # 0
        BY <2>3, <3>1 DEF GrantedInTurn
      <3> QED
        BY <2>1, <3>1, <3>2 DEF UniqueTs
    <2>5. Turns!Enter(m)
      BY <2>1, <2>2, <2>3, <2>4 DEF Turns!Enter, phaseMap
    <2> QED
      BY <2>5 DEF Turns!Next
  <1>5. CASE Advance(m, "holding")
    <2>1. /\ pc[m] = "holding" /\ pc'[m] = "advanced"
          /\ \A n \in Msgs : n # m => pc'[n] = pc[n]
      BY <1>1, <1>5 DEF Advance
    <2>2. phaseMap' = [phaseMap EXCEPT ![m] = "left"] /\ phaseMap[m] = "in"
      BY <2>1, OnePhase DEF phaseMap, PhaseOf, Served
    <2>3. Turns!Leave(m)
      BY <1>5, <2>2 DEF Turns!Leave, Advance, phaseMap
    <2> QED
      BY <2>3 DEF Turns!Next
  <1> QED
    BY <1>2, <1>3, <1>4, <1>5 DEF Step

\* Every behaviour of the origin manager is one of the serial turns: Receive
\* enters, the holder's Advance leaves, a refusal turns away, and all other
\* steps stutter.
THEOREM Refinement ==
    ASSUME UniqueTs
    PROVE  Spec => TurnsSpec
  <1>1. Init => Turns!Init
    BY MsgAssumption DEF Init, Turns!Init, PhaseOf, Served
  <1>2. IInv /\ [Next]_originVars => [Turns!Next]_(Turns!vars)
    <2>1. ASSUME IInv, NEW m \in Msgs, Step(m)
          PROVE  Turns!Next \/ UNCHANGED Turns!vars
      BY <2>1, StepRefines, UniqueTs
    <2>2. ASSUME UNCHANGED originVars
          PROVE  UNCHANGED Turns!vars
      BY <2>2 DEF originVars, Turns!vars, PhaseOf, Served
    <2> QED
      BY <2>1, <2>2 DEF Next
  <1> QED
    BY <1>1, <1>2, Invariance, UniqueTs, PTL DEF Spec, TurnsSpec, Turns!Spec

=============================================================================
