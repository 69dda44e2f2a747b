------------------------ MODULE TxParticipantProofs ------------------------
(***************************************************************************)
(* Theorems about a receiving service, for every set of requests, however  *)
(* they repeat timestamps, and every behaviour of filters and database.    *)
(*                                                                         *)
(* Exactly-once effects rest on the result table: a transaction that has   *)
(* inserted its result is the only one for its key and has found no        *)
(* result, so its commit adds a timestamp that has not been applied.       *)
(***************************************************************************)
EXTENDS TxParticipant, SequenceTheorems, TLAPS

-----------------------------------------------------------------------------
(* Type correctness                                                        *)

\* ParticipantTypeOK with control states from a set L: a composition may add some
\* of its own to those of the middleware.
TypedBy(L) ==
    /\ clock \in [Queues -> Nat]
    /\ queue \in [Queues -> SUBSET Msgs]
    /\ reply \subseteq Msgs
    /\ pc \in [Msgs -> L]
    /\ reqFilter \in [Queues -> SUBSET Attrs]
    /\ respFilter \in [Queues -> SUBSET Attrs]
    /\ dropResp \subseteq Msgs
    /\ txResult \subseteq Queues \X Nat
    /\ applied \in [Queues -> Seq(Nat)]
    /\ answer \in [Msgs -> {"none", "ok", "unavailable", "aborted"}]

LEMMA TypedByRequestPCs == ParticipantTypeOK <=> TypedBy(RequestPCs)
  BY DEF ParticipantTypeOK, TypedBy

LEMMA GrantNextType ==
    ASSUME NEW L, TypedBy(L), NEW q \in Queues, GrantNext(q)
    PROVE  queue' \in [Queues -> SUBSET Msgs] /\ reply' \subseteq Msgs
  BY DEF GrantNext, Heads, TypedBy

LEMMA GotoType ==
    ASSUME NEW L, RequestPCs \subseteq L, TypedBy(L), NEW m \in Msgs,
           NEW label \in RequestPCs, Goto(m, label)
    PROVE  pc' \in [Msgs -> L]
  BY DEF TypedBy, Goto

\* What a commit writes has its type.
LEMMA CommitDbType ==
    ASSUME NEW L, TypedBy(L), NEW m \in Msgs, CommitDb(m)
    PROVE  txResult' \subseteq Queues \X Nat /\ applied' \in [Queues -> Seq(Nat)]
  <1>1. QueueOf[m] \in Queues /\ Ts[m] \in Nat
    BY MsgAssumption
  <1>2. Append(applied[QueueOf[m]], Ts[m]) \in Seq(Nat)
    BY <1>1, AppendProperties DEF TypedBy
  <1> QED
    BY <1>1, <1>2 DEF TypedBy, CommitDb, Key

LEMMA AcquireType ==
    ASSUME NEW L, RequestPCs \subseteq L, TypedBy(L), NEW m \in Msgs, Acquire(m)
    PROVE  TypedBy(L)'
  <1>1. QueueOf[m] \in Queues
    BY MsgAssumption
  <1>2. clock' \in [Queues -> Nat]
    BY DEF TypedBy, Acquire, EnqueueLate, Enqueue, AcquireNext, Receive
  <1>3. queue' \in [Queues -> SUBSET Msgs] /\ reply' \subseteq Msgs
    <2>1. CASE EnqueueLate(m)
      BY <2>1 DEF TypedBy, EnqueueLate
    <2>2. CASE Enqueue(m)
      BY <1>1, <2>2 DEF TypedBy, Enqueue
    <2>3. CASE AcquireNext(m)
      BY <1>1, <2>3, GrantNextType DEF AcquireNext
    <2>4. CASE Receive(m)
      BY <2>4 DEF TypedBy, Receive
    <2> QED
      BY <2>1, <2>2, <2>3, <2>4 DEF Acquire
  <1>4. pc' \in [Msgs -> L]
    BY GotoType DEF Acquire, EnqueueLate, Enqueue, AcquireNext, Receive, RequestPCs, PCs
  <1> QED
    BY <1>2, <1>3, <1>4
       DEF TypedBy, Acquire, filterVars, dbVars

LEMMA ReleaseType ==
    ASSUME NEW L, RequestPCs \subseteq L, TypedBy(L), NEW m \in Msgs, Release(m)
    PROVE  TypedBy(L)'
  <1>1. QueueOf[m] \in Queues
    BY MsgAssumption
  <1>2. clock' \in [Queues -> Nat]
    <2>1. CASE UNCHANGED clock
      BY <2>1 DEF TypedBy
    <2>2. CASE clock' = [clock EXCEPT ![QueueOf[m]] = @ + 1]
      BY <1>1, <2>2 DEF TypedBy
    <2> QED
      BY <2>1, <2>2 DEF Release, Advance, ReleaseNext
  <1>3. queue' \in [Queues -> SUBSET Msgs] /\ reply' \subseteq Msgs
    <2>1. CASE ReleaseNext(m)
      BY <1>1, <2>1, GrantNextType DEF ReleaseNext
    <2>2. CASE UNCHANGED <<queue, reply>>
      BY <2>2 DEF TypedBy
    <2> QED
      BY <2>1, <2>2 DEF Release, Advance
  <1>4. pc' \in [Msgs -> L]
    BY GotoType DEF Release, Advance, ReleaseNext, RequestPCs, PCs
  <1> QED
    BY <1>2, <1>3, <1>4
       DEF TypedBy, Release, filterVars, dbVars

LEMMA FiltersType ==
    ASSUME NEW L, TypedBy(L), NEW q \in Queues, UpdateFilter(q)
    PROVE  TypedBy(L)'
  <1>1. ASSUME NEW old \in SUBSET Attrs, NEW f \in FilterUpdates(old)
        PROVE  f \in SUBSET Attrs
    BY <1>1 DEF FilterUpdates
  <1>2. reqFilter[q] \in SUBSET Attrs /\ respFilter[q] \in SUBSET Attrs
    BY DEF TypedBy
  <1>3. /\ reqFilter' \in [Queues -> SUBSET Attrs]
        /\ respFilter' \in [Queues -> SUBSET Attrs]
    <2>1. ASSUME NEW filter \in [Queues -> SUBSET Attrs], NEW f \in SUBSET Attrs
          PROVE  [filter EXCEPT ![q] = f] \in [Queues -> SUBSET Attrs]
      OBVIOUS
    <2>2. CASE \E f \in FilterUpdates(reqFilter[q]) :
                  reqFilter' = [reqFilter EXCEPT ![q] = f] /\ UNCHANGED respFilter
      <3>1. PICK f \in FilterUpdates(reqFilter[q]) :
               reqFilter' = [reqFilter EXCEPT ![q] = f] /\ UNCHANGED respFilter
        BY <2>2
      <3>2. f \in SUBSET Attrs
        BY <1>1, <1>2
      <3> QED
        BY <2>1, <3>1, <3>2 DEF TypedBy
    <2>3. CASE \E f \in FilterUpdates(respFilter[q]) :
                  respFilter' = [respFilter EXCEPT ![q] = f] /\ UNCHANGED reqFilter
      <3>1. PICK f \in FilterUpdates(respFilter[q]) :
               respFilter' = [respFilter EXCEPT ![q] = f] /\ UNCHANGED reqFilter
        BY <2>3
      <3>2. f \in SUBSET Attrs
        BY <1>1, <1>2
      <3> QED
        BY <2>1, <3>1, <3>2 DEF TypedBy
    <2> QED
      BY <2>2, <2>3 DEF UpdateFilter
  <1>4. UNCHANGED <<originVars, dropResp, dbVars, answer>>
    BY DEF UpdateFilter
  <1> QED
    BY <1>3, <1>4 DEF TypedBy, originVars, dbVars

LEMMA HandlerType ==
    ASSUME NEW L, RequestPCs \subseteq L, TypedBy(L), NEW m \in Msgs,
           \/ ReadFilters(m) \/ BeforeHook(m) \/ AfterHook(m) \/ StatementFails(m)
           \/ Commit(m) \/ CommitFails(m)
    PROVE  TypedBy(L)'
  <1>1. pc' \in [Msgs -> L]
    BY GotoType
       DEF ReadFilters, BeforeHook, AfterHook, StatementFails, Commit, CommitFails,
           Abort, RequestPCs, PCs
  <1>2. answer' \in [Msgs -> {"none", "ok", "unavailable", "aborted"}]
    BY DEF TypedBy, ReadFilters, BeforeHook, AfterHook, StatementFails,
           Commit, CommitFails, Abort, dbVars
  <1>3. txResult' \subseteq Queues \X Nat /\ applied' \in [Queues -> Seq(Nat)]
    <2>1. CASE CommitDb(m)
      BY <2>1, CommitDbType
    <2>2. CASE UNCHANGED dbVars
      BY <2>2 DEF dbVars, TypedBy
    <2> QED
      BY <2>1, <2>2
         DEF ReadFilters, BeforeHook, AfterHook, StatementFails, Commit, CommitFails,
             Abort, dbVars
  <1>4. dropResp' \subseteq Msgs
    BY DEF TypedBy, ReadFilters, BeforeHook, AfterHook, StatementFails,
           Commit, CommitFails
  <1>5. UNCHANGED <<clock, queue, reply, filterVars>>
    BY DEF ReadFilters, BeforeHook, AfterHook, StatementFails, Commit, CommitFails
  <1> QED
    BY <1>1, <1>2, <1>3, <1>4, <1>5 DEF TypedBy, filterVars

\* Every variable of the participant keeps its type, for any requests, queues and
\* filters.
THEOREM TypeCorrect == ParticipantSpec => []ParticipantTypeOK
  <1>1. ParticipantInit => ParticipantTypeOK
    BY DEF ParticipantInit, ParticipantTypeOK, RequestPCs
  <1>2. ParticipantTypeOK /\ [ParticipantNext]_vars => ParticipantTypeOK'
    <2> SUFFICES ASSUME ParticipantTypeOK, [ParticipantNext]_vars
                 PROVE  ParticipantTypeOK'
      OBVIOUS
    <2>1. CASE UNCHANGED vars
      BY <2>1 DEF vars, originVars, filterVars, dbVars, ParticipantTypeOK
    <2>2. TypedBy(RequestPCs)
      BY TypedByRequestPCs
    <2>3. CASE (\E m \in Msgs : Handle(m)) \/ \E q \in Queues : UpdateFilter(q)
      <3>1. TypedBy(RequestPCs)'
        BY <2>2, <2>3, AcquireType, ReleaseType, FiltersType, HandlerType DEF Handle
      <3> QED
        BY <3>1 DEF ParticipantTypeOK, TypedBy
    <2> QED
      BY <2>1, <2>3 DEF ParticipantNext
  <1> QED
    BY <1>1, <1>2, PTL DEF ParticipantSpec

-----------------------------------------------------------------------------
(* Exactly-once effects                                                    *)

Seen(q) == {applied[q][i] : i \in DOMAIN applied[q]}

LEMMA SeenAppend ==
    ASSUME NEW S, NEW s \in Seq(S), NEW e \in S
    PROVE  /\ \A i \in DOMAIN s : i \in DOMAIN Append(s, e) /\ Append(s, e)[i] = s[i]
           /\ \A i \in DOMAIN Append(s, e) :
                 i \in DOMAIN s \/ (i = Len(s) + 1 /\ Append(s, e)[i] = e)
           /\ Len(s) + 1 \in DOMAIN Append(s, e) /\ Append(s, e)[Len(s) + 1] = e
  BY AppendProperties

\* The result table, read as a test: a key is in it when its timestamp is applied.
LEMMA Recorded ==
    ASSUME NEW L, TypedBy(L)
    PROVE  RecordedIffApplied <=>
              /\ \A x \in txResult : \E q \in Queues : \E t \in Seen(q) : x = <<q, t>>
              /\ \A q \in Queues : \A t \in Seen(q) : <<q, t>> \in txResult
  BY DEF RecordedIffApplied, Seen

\* A step that writes nothing to the database keeps the invariant, if it inserts
\* no result that is there, and answers "ok" to nobody.
LEMMA QuietSafe ==
    ASSUME ParticipantIInv, NEW m \in Msgs, UNCHANGED dbVars,
           \A n \in Msgs : n # m => pc'[n] = pc[n],
           pc'[m] = "inserted" =>
               \/ pc[m] = "inserted"
               \/ /\ Key(m) \notin txResult
                  /\ \A n \in Msgs : pc[n] = "inserted" => Key(n) # Key(m),
           pc'[m] \in {"executing", "inserted"} =>
               pc[m] \in {"executing", "inserted"} \/ m \notin DryRun,
           \A n \in Msgs : answer'[n] = "ok" => answer[n] = "ok"
    PROVE  ParticipantIInv'
  <1>1. AppliedOnce' /\ RecordedIffApplied'
    BY DEF ParticipantIInv, AppliedOnce, RecordedIffApplied, dbVars
  <1>2. AnswerMeansApplied'
    BY DEF ParticipantIInv, AnswerMeansApplied, dbVars
  <1>3. InsertAlone'
    BY DEF ParticipantIInv, InsertAlone, dbVars, Key
  <1>4. DryRunStops'
    BY RequestAssumption DEF ParticipantIInv, DryRunStops
  <1> QED
    BY <1>1, <1>2, <1>3, <1>4 DEF ParticipantIInv

\* A commit of an inserted result keeps the invariant, whatever the sender is told.
LEMMA CommitSafe ==
    ASSUME NEW L, TypedBy(L), ParticipantIInv, NEW m \in Msgs, pc[m] = "inserted",
           CommitDb(m), NEW label \in {"served", "failed"}, Goto(m, label),
           NEW a, answer' = [answer EXCEPT ![m] = a]
    PROVE  ParticipantIInv'
  <1> DEFINE k == QueueOf[m]
             s == applied[k]
  <1>1. k \in Queues /\ Ts[m] \in Nat /\ s \in Seq(Nat)
    BY MsgAssumption DEF TypedBy
  <1>2. /\ applied'[k] = Append(s, Ts[m])
        /\ \A q \in Queues : q # k => applied'[q] = applied[q]
    BY <1>1 DEF CommitDb, TypedBy
  <1>3. /\ \A i \in DOMAIN s : i \in DOMAIN applied'[k] /\ applied'[k][i] = s[i]
        /\ \A i \in DOMAIN applied'[k] :
              i \in DOMAIN s \/ (i = Len(s) + 1 /\ applied'[k][i] = Ts[m])
        /\ Len(s) + 1 \in DOMAIN applied'[k] /\ applied'[k][Len(s) + 1] = Ts[m]
    BY <1>1, <1>2, SeenAppend
  <1>4. \A i \in DOMAIN s : s[i] # Ts[m]
    BY <1>1, Recorded DEF ParticipantIInv, InsertAlone, Key, Seen
  <1>5. AppliedOnce'
    <2> SUFFICES ASSUME NEW q \in Queues, NEW i \in DOMAIN applied'[q],
                        NEW j \in DOMAIN applied'[q], applied'[q][i] = applied'[q][j]
                 PROVE  i = j
      BY DEF AppliedOnce
    <2>1. CASE q # k
      BY <1>2, <2>1 DEF ParticipantIInv, AppliedOnce
    <2>2. CASE q = k
      <3>1. \A x, y \in DOMAIN s : s[x] = s[y] => x = y
        BY <1>1 DEF ParticipantIInv, AppliedOnce
      <3> QED
        BY <1>3, <1>4, <2>2, <3>1
    <2> QED
      BY <2>1, <2>2
  <1>6. Seen(k)' = Seen(k) \cup {Ts[m]} /\ \A q \in Queues : q # k => Seen(q)' = Seen(q)
    BY <1>2, <1>3 DEF Seen
  <1>7. RecordedIffApplied'
    <2>1. txResult' = txResult \cup {<<k, Ts[m]>>}
      BY DEF CommitDb, Key
    <2>2. \A x \in txResult' : \E q \in Queues : \E t \in Seen(q)' : x = <<q, t>>
      BY <1>1, <1>6, <2>1, Recorded DEF ParticipantIInv
    <2>3. \A q \in Queues : \A t \in Seen(q)' : <<q, t>> \in txResult'
      BY <1>1, <1>6, <2>1, Recorded DEF ParticipantIInv
    <2> QED
      BY <2>2, <2>3 DEF RecordedIffApplied, Seen
  <1>8. AnswerMeansApplied'
    <2> SUFFICES ASSUME NEW n \in Msgs, answer'[n] = "ok"
                 PROVE  n \notin DryRun /\ Ts[n] \in Seen(QueueOf[n])'
      BY DEF AnswerMeansApplied, Seen
    <2>1. CASE n = m
      BY <1>6, <2>1 DEF ParticipantIInv, DryRunStops
    <2>2. CASE n # m
      <3>1. n \notin DryRun /\ Ts[n] \in Seen(QueueOf[n])
        BY <2>2 DEF ParticipantIInv, AnswerMeansApplied, TypedBy, Seen
      <3>2. QueueOf[n] \in Queues
        BY MsgAssumption
      <3> QED
        BY <1>6, <3>1, <3>2
    <2> QED
      BY <2>1, <2>2
  <1>9. /\ pc'[m] = label
        /\ \A n \in Msgs : n # m => pc'[n] = pc[n]
    BY DEF Goto, TypedBy
  <1>10. InsertAlone'
    BY <1>9 DEF ParticipantIInv, InsertAlone, CommitDb, Key
  <1>11. DryRunStops'
    BY <1>9, RequestAssumption DEF ParticipantIInv, DryRunStops
  <1> QED
    BY <1>5, <1>7, <1>8, <1>10, <1>11 DEF ParticipantIInv

LEMMA OrderingSafe ==
    ASSUME NEW L, TypedBy(L), ParticipantIInv, NEW m \in Msgs,
           ReadFilters(m) \/ Acquire(m) \/ Release(m)
    PROVE  ParticipantIInv'
  <1>1. UNCHANGED dbVars
    BY DEF ReadFilters, Acquire, Release
  <1>2. /\ \A n \in Msgs : n # m => pc'[n] = pc[n]
        /\ pc'[m] \notin {"executing", "inserted"}
    BY DEF ReadFilters, Acquire, Release, EnqueueLate, Enqueue, AcquireNext, Receive,
           Advance, ReleaseNext, Goto, TypedBy
  <1>3. \A n \in Msgs : answer'[n] = "ok" => answer[n] = "ok"
    BY DEF ReadFilters, Acquire, Release, TypedBy
  <1> QED
    BY <1>1, <1>2, <1>3, QuietSafe

LEMMA HandlerSafe ==
    ASSUME NEW L, TypedBy(L), ParticipantIInv, NEW m \in Msgs,
           \/ BeforeHook(m) \/ AfterHook(m) \/ StatementFails(m)
           \/ Commit(m) \/ CommitFails(m)
    PROVE  ParticipantIInv'
  <1>1. ASSUME Abort(m) PROVE ParticipantIInv'
    <2>1. /\ UNCHANGED dbVars
          /\ \A n \in Msgs : n # m => pc'[n] = pc[n]
          /\ pc'[m] = "failed"
          /\ \A n \in Msgs : answer'[n] = "ok" => answer[n] = "ok"
      BY <1>1 DEF Abort, Goto, TypedBy
    <2> QED
      BY <2>1, QuietSafe
  <1>2. ASSUME BeforeHook(m), Goto(m, "executing"), UNCHANGED <<dbVars, answer>>,
               m \notin DryRun
        PROVE  ParticipantIInv'
    <2>1. /\ \A n \in Msgs : n # m => pc'[n] = pc[n]
          /\ pc'[m] = "executing"
      BY <1>2 DEF Goto, TypedBy
    <2> QED
      BY <1>2, <2>1, QuietSafe
  <1>3. ASSUME AfterHook(m), Goto(m, "inserted"), UNCHANGED <<dbVars, answer>>,
               Key(m) \notin txResult
        PROVE  ParticipantIInv'
    <2>1. /\ \A n \in Msgs : n # m => pc'[n] = pc[n]
          /\ pc[m] = "executing"
          /\ \A n \in Msgs : pc[n] = "inserted" => Key(n) # Key(m)
      BY <1>3 DEF AfterHook, Goto, TypedBy
    <2> QED
      BY <1>3, <2>1, QuietSafe
  <1>4. CASE Commit(m) \/ CommitFails(m)
    BY <1>1, <1>4, CommitSafe DEF Commit, CommitFails
  <1>5. CASE BeforeHook(m)
    BY <1>1, <1>2, <1>5 DEF BeforeHook
  <1>6. CASE AfterHook(m)
    BY <1>1, <1>3, <1>6 DEF AfterHook
  <1>7. CASE StatementFails(m)
    BY <1>1, <1>7 DEF StatementFails
  <1> QED
    BY <1>4, <1>5, <1>6, <1>7

\* The invariant of the result table, for any number of requests per timestamp.
THEOREM Invariance == ParticipantSpec => []ParticipantIInv
  <1>1. ParticipantInit => ParticipantIInv
    <2> SUFFICES ASSUME ParticipantInit PROVE ParticipantIInv
      OBVIOUS
    <2>1. \A q \in Queues : DOMAIN applied[q] = {}
      BY DEF ParticipantInit
    <2>2. AppliedOnce /\ RecordedIffApplied
      BY <2>1 DEF ParticipantInit, AppliedOnce, RecordedIffApplied
    <2>3. AnswerMeansApplied /\ InsertAlone /\ DryRunStops
      BY RequestAssumption
         DEF ParticipantInit, AnswerMeansApplied, InsertAlone, DryRunStops
    <2> QED
      BY <2>2, <2>3 DEF ParticipantIInv
  <1>2. ParticipantTypeOK /\ ParticipantIInv /\ [ParticipantNext]_vars => ParticipantIInv'
    <2> SUFFICES ASSUME ParticipantTypeOK, ParticipantIInv, [ParticipantNext]_vars
                 PROVE  ParticipantIInv'
      OBVIOUS
    <2>1. CASE UNCHANGED vars \/ \E q \in Queues : UpdateFilter(q)
      BY <2>1
         DEF vars, UpdateFilter, originVars, dbVars, ParticipantIInv, AppliedOnce,
             RecordedIffApplied, AnswerMeansApplied, InsertAlone, DryRunStops, Key
    <2>2. CASE \E m \in Msgs : Handle(m)
      BY <2>2, TypedByRequestPCs, OrderingSafe, HandlerSafe DEF Handle
    <2> QED
      BY <2>1, <2>2 DEF ParticipantNext
  <1> QED
    BY <1>1, <1>2, TypeCorrect, PTL DEF ParticipantSpec

\* Exactly-once effect: a transaction commits at most once at a receiver, however
\* often its request is repeated.
THEOREM Once == ParticipantSpec => []AppliedOnce
  <1>1. ParticipantIInv => AppliedOnce
    BY DEF ParticipantIInv
  <1> QED
    BY <1>1, Invariance, PTL

\* A success is reported only of a transaction that has committed and is no dry run.
THEOREM AnswersTrue == ParticipantSpec => []AnswerMeansApplied
  <1>1. ParticipantIInv => AnswerMeansApplied
    BY DEF ParticipantIInv
  <1> QED
    BY <1>1, Invariance, PTL

-----------------------------------------------------------------------------
(* The participant as a disciplined caller of the origin manager           *)

\* What is known of the origin manager, seen from the participant's requests.
Ordering == INSTANCE TxOriginProofs WITH pc <- [m \in Msgs |-> OriginPc(m)]

\* No request is without a timestamp.
Numbered == \A m \in Msgs : Ts[m] # 0

LEMMA Moves ==
    ASSUME ParticipantTypeOK, NEW m \in Msgs, NEW label, Goto(m, label)
    PROVE  [n \in Msgs |-> OriginPc(n)]' =
              [[n \in Msgs |-> OriginPc(n)] EXCEPT ![m] = OriginPc(m)']
  BY DEF ParticipantTypeOK, Goto, OriginPc

LEMMA NobodyRefused ==
    ASSUME Numbered, Ordering!Safe, NEW m \in Msgs
    PROVE  pc[m] # "refused"
  BY DEF Ordering!Safe, Ordering!FreshNeverRefused, OriginPc, Numbered

LEMMA AcquireRefines ==
    ASSUME ParticipantTypeOK, NEW m \in Msgs, Acquire(m)
    PROVE  Ordering!Step(m)
  <1>1. CASE EnqueueLate(m)
    <2>1. OriginPc(m) = "idle" /\ OriginPc(m)' = "refused"
      BY <1>1 DEF EnqueueLate, Goto, OriginPc, ParticipantTypeOK
    <2> QED
      BY <1>1, <2>1, Moves DEF EnqueueLate, Ordering!Step, Ordering!EnqueueLate, Ordering!Goto
  <1>2. CASE Enqueue(m)
    <2>1. OriginPc(m) = "idle" /\ OriginPc(m)' = "enqueued"
      BY <1>2 DEF Enqueue, Goto, OriginPc, ParticipantTypeOK
    <2> QED
      BY <1>2, <2>1, Moves DEF Enqueue, Ordering!Step, Ordering!Enqueue, Ordering!Goto
  <1>3. CASE AcquireNext(m)
    <2>1. OriginPc(m) = "enqueued" /\ OriginPc(m)' = "waiting"
      BY <1>3 DEF AcquireNext, Goto, OriginPc, ParticipantTypeOK
    <2> QED
      BY <1>3, <2>1, Moves
         DEF AcquireNext, GrantNext, Heads,
             Ordering!Step, Ordering!AcquireNext, Ordering!GrantNext, Ordering!Heads,
             Ordering!Goto
  <1>4. CASE Receive(m)
    <2>1. OriginPc(m) = "waiting" /\ OriginPc(m)' = "holding"
      BY <1>4 DEF Receive, Goto, OriginPc, ParticipantTypeOK
    <2> QED
      BY <1>4, <2>1, Moves DEF Receive, Ordering!Step, Ordering!Receive, Ordering!Goto
  <1> QED
    BY <1>1, <1>2, <1>3, <1>4 DEF Acquire

LEMMA ReleaseRefines ==
    ASSUME ParticipantTypeOK, NEW m \in Msgs, Release(m)
    PROVE  Ordering!Step(m)
  <1>1. CASE Advance(m, "served") \/ Advance(m, "failed")
    <2>1. OriginPc(m) = "holding" /\ OriginPc(m)' = "advanced"
      BY <1>1 DEF Advance, Goto, OriginPc, ParticipantTypeOK
    <2> QED
      BY <1>1, <2>1, Moves DEF Advance, Ordering!Step, Ordering!Advance, Ordering!Goto
  <1>2. CASE ReleaseNext(m)
    <2>1. OriginPc(m) = "advanced" /\ OriginPc(m)' = "done"
      BY <1>2 DEF ReleaseNext, Goto, OriginPc, ParticipantTypeOK
    <2> QED
      BY <1>2, <2>1, Moves
         DEF ReleaseNext, GrantNext, Heads,
             Ordering!Step, Ordering!ReleaseNext, Ordering!GrantNext, Ordering!Heads,
             Ordering!Goto
  <1> QED
    BY <1>1, <1>2 DEF Release

\* Between Acquire and Release nothing is seen of a request, nor before it asks.
LEMMA HandlerStutters ==
    ASSUME Numbered, ParticipantTypeOK, Ordering!Safe, NEW m \in Msgs,
           \/ ReadFilters(m) \/ BeforeHook(m) \/ AfterHook(m) \/ StatementFails(m)
           \/ Commit(m) \/ CommitFails(m)
    PROVE  UNCHANGED Ordering!originVars
  <1>1. pc[m] # "refused"
    BY NobodyRefused
  <1>2. UNCHANGED <<clock, queue, reply>>
    BY DEF ReadFilters, BeforeHook, AfterHook, StatementFails, Commit, CommitFails
  <1>3. OriginPc(m)' = OriginPc(m)
    BY <1>1
       DEF ReadFilters, BeforeHook, AfterHook, StatementFails, Commit, CommitFails,
           Abort, Goto, OriginPc, ParticipantTypeOK
  <1>4. \A n \in Msgs : n # m => OriginPc(n)' = OriginPc(n)
    BY DEF ReadFilters, BeforeHook, AfterHook, StatementFails, Commit, CommitFails,
           Abort, Goto, OriginPc, ParticipantTypeOK
  <1> QED
    BY <1>2, <1>3, <1>4 DEF Ordering!originVars

LEMMA NextRefines ==
    ASSUME Numbered, ParticipantTypeOK, Ordering!Safe, [ParticipantNext]_vars
    PROVE  [Ordering!Next]_(Ordering!originVars)
  <1>1. CASE UNCHANGED vars \/ \E q \in Queues : UpdateFilter(q)
    BY <1>1 DEF vars, UpdateFilter, originVars, Ordering!originVars, OriginPc
  <1>2. CASE \E m \in Msgs : Handle(m)
    BY <1>2, AcquireRefines, ReleaseRefines, HandlerStutters DEF Handle, Ordering!Next
  <1> QED
    BY <1>1, <1>2 DEF ParticipantNext

\* The participant's callers start where those of the origin manager do.
LEMMA InitRefines ==
    ASSUME ParticipantInit
    PROVE  Ordering!Init
  BY DEF ParticipantInit, Ordering!Init, OriginPc

\* The invariant of the origin manager holds among the participant's requests.
LEMMA OrderKept ==
    ASSUME UniqueTs, Numbered
    PROVE  ParticipantSpec => [](Ordering!TypeOK /\ Ordering!Safe)
  <1>1. Ordering!UniqueTs
    BY UniqueTs DEF UniqueTs, Ordering!UniqueTs
  <1>2. ParticipantInit => Ordering!TypeOK /\ Ordering!Safe
    <2>1. Ordering!Init => Ordering!TypeOK
      BY MsgAssumption DEF Ordering!Init, Ordering!TypeOK, Ordering!PCs
    <2> QED
      BY <2>1, InitRefines, MsgAssumption, Ordering!InitSafe DEF Ordering!MsgAssumption
  <1>3. /\ ParticipantTypeOK
        /\ Ordering!TypeOK /\ Ordering!Safe
        /\ [ParticipantNext]_vars
        => Ordering!TypeOK' /\ Ordering!Safe'
    <2> SUFFICES ASSUME ParticipantTypeOK, Ordering!TypeOK, Ordering!Safe,
                        [ParticipantNext]_vars
                 PROVE  Ordering!TypeOK' /\ Ordering!Safe'
      OBVIOUS
    <2>1. [Ordering!Next]_(Ordering!originVars)
      BY NextRefines, Numbered
    <2> QED
      BY <1>1, <2>1, MsgAssumption, Ordering!TypeKept, Ordering!SafeKept
  <1> QED
    BY <1>2, <1>3, TypeCorrect, PTL DEF ParticipantSpec

\* While no timestamp is sent twice and none is missing, the participant is a
\* disciplined caller of the origin manager: it implements TxOrigin's Spec.
THEOREM Disciplined ==
    ASSUME UniqueTs, Numbered
    PROVE  ParticipantSpec => OriginSpec
  <1>1. ParticipantInit => Origin!Init
    BY DEF ParticipantInit, Origin!Init, OriginPc
  <1>2. /\ ParticipantTypeOK
        /\ Ordering!TypeOK /\ Ordering!Safe
        /\ [ParticipantNext]_vars
        => [Origin!Next]_(Origin!originVars)
    <2> SUFFICES ASSUME ParticipantTypeOK, Ordering!Safe, [ParticipantNext]_vars
                 PROVE  [Origin!Next]_(Origin!originVars)
      OBVIOUS
    <2>1. [Ordering!Next]_(Ordering!originVars)
      BY NextRefines, Numbered
    <2>2. UNCHANGED Ordering!originVars => UNCHANGED Origin!originVars
      BY DEF Ordering!originVars, Origin!originVars
    <2>3. Ordering!Next => Origin!Next
      BY DEF Ordering!Next, Ordering!Step, Ordering!EnqueueLate, Ordering!Enqueue,
             Ordering!AcquireNext, Ordering!Receive, Ordering!Advance,
             Ordering!ReleaseNext, Ordering!Goto, Ordering!GrantNext, Ordering!Heads,
             Origin!Next, Origin!Step, Origin!EnqueueLate, Origin!Enqueue,
             Origin!AcquireNext, Origin!Receive, Origin!Advance,
             Origin!ReleaseNext, Origin!Goto, Origin!GrantNext, Origin!Heads
    <2> QED
      BY <2>1, <2>2, <2>3
  <1> QED
    BY <1>1, <1>2, OrderKept, TypeCorrect, UniqueTs, Numbered, PTL
       DEF ParticipantSpec, OriginSpec, Origin!Spec

\* With the origin manager's invariant, the request that commits is the only
\* one past its grant, so all that is applied is below its timestamp.
LEMMA CommitsLast ==
    ASSUME UniqueTs, Numbered, ParticipantTypeOK, Ordering!Safe, AppliedBySomeone,
           NEW m \in Msgs, pc[m] = "inserted",
           NEW i \in DOMAIN applied[QueueOf[m]]
    PROVE  applied[QueueOf[m]][i] < Ts[m]
  <1> DEFINE q == QueueOf[m]
  <1>1. q \in Queues /\ clock[q] \in Nat
    BY MsgAssumption DEF ParticipantTypeOK
  <1>2. Ts[m] = clock[q] + 1
    BY DEF Ordering!Safe, Ordering!GrantedInTurn, OriginPc
  <1>3. PICK n \in MsgsOf(q) :
             Ts[n] = applied[q][i] /\ pc[n] \in {"served", "failed", "advanced", "done"}
    BY <1>1 DEF AppliedBySomeone
  <1>4. n \in Msgs /\ QueueOf[n] = q /\ n # m
    BY <1>3 DEF MsgsOf
  <1>5. CASE pc[n] \in {"served", "failed"}
    <2>1. Ts[n] = clock[q] + 1
      BY <1>4, <1>5 DEF Ordering!Safe, Ordering!GrantedInTurn, OriginPc
    <2> QED
      BY <1>2, <1>4, <2>1 DEF UniqueTs, Numbered
  <1>6. CASE pc[n] \in {"advanced", "done"}
    <2>1. Ts[n] <= clock[q]
      BY <1>4, <1>6
         DEF Ordering!Safe, Ordering!ServedPassed, Ordering!Served, OriginPc
    <2> QED
      BY <1>1, <1>2, <1>3, <1>4, <2>1, MsgAssumption
  <1> QED
    BY <1>3, <1>5, <1>6

LEMMA CommitKeepsOrder ==
    ASSUME UniqueTs, Numbered, ParticipantTypeOK, Ordering!Safe,
           AppliedBySomeone, AppliedInOrder,
           NEW m \in Msgs, pc[m] = "inserted", CommitDb(m),
           NEW label \in {"served", "failed"}, Goto(m, label)
    PROVE  AppliedBySomeone' /\ AppliedInOrder'
  <1> DEFINE q == QueueOf[m]
  <1>1. q \in Queues /\ applied[q] \in Seq(Nat) /\ Ts[m] \in Nat
    BY MsgAssumption DEF ParticipantTypeOK
  <1>2. /\ applied'[q] = Append(applied[q], Ts[m])
        /\ \A r \in Queues : r # q => applied'[r] = applied[r]
    BY <1>1 DEF CommitDb, ParticipantTypeOK
  <1>3. pc'[m] = label /\ \A n \in Msgs : n # m => pc'[n] = pc[n]
    BY DEF Goto, ParticipantTypeOK
  <1>4. /\ DOMAIN applied'[q] = DOMAIN applied[q] \cup {Len(applied[q]) + 1}
        /\ \A i \in DOMAIN applied[q] : applied'[q][i] = applied[q][i]
        /\ applied'[q][Len(applied[q]) + 1] = Ts[m]
    BY <1>1, <1>2
  <1>5. \A i \in DOMAIN applied[q] :
            i \in Nat /\ i <= Len(applied[q]) /\ applied[q][i] < Ts[m]
    <2>1. \A i \in DOMAIN applied[q] : applied[q][i] < Ts[m]
      BY CommitsLast, UniqueTs, Numbered
    <2>2. DOMAIN applied[q] = 1 .. Len(applied[q]) /\ Len(applied[q]) \in Nat
      BY <1>1
    <2> QED
      BY <2>1, <2>2
  <1>6. AppliedInOrder'
    <2> SUFFICES ASSUME NEW r \in Queues,
                        NEW i \in DOMAIN applied'[r], NEW j \in DOMAIN applied'[r],
                        i < j
                 PROVE  applied'[r][i] < applied'[r][j]
      BY DEF AppliedInOrder
    <2>1. CASE r # q
      BY <1>2, <2>1 DEF AppliedInOrder
    <2>2. CASE r = q
      <3>1. Len(applied[q]) \in Nat
        BY <1>1
      <3>2. i \in DOMAIN applied[q]
        BY <1>4, <1>5, <2>2, <3>1
      <3>3. CASE j \in DOMAIN applied[q]
        BY <1>1, <1>4, <2>2, <3>2, <3>3 DEF AppliedInOrder
      <3>4. CASE j = Len(applied[q]) + 1
        BY <1>4, <1>5, <2>2, <3>2, <3>4
      <3> QED
        BY <1>4, <2>2, <3>3, <3>4
    <2> QED
      BY <2>1, <2>2
  <1>7. AppliedBySomeone'
    <2> SUFFICES ASSUME NEW r \in Queues, NEW i \in DOMAIN applied'[r]
                 PROVE  \E n \in MsgsOf(r) :
                            /\ Ts[n] = applied'[r][i]
                            /\ pc'[n] \in {"served", "failed", "advanced", "done"}
      BY DEF AppliedBySomeone, MsgsOf
    <2>1. CASE i \in DOMAIN applied[r]
      <3>1. applied'[r][i] = applied[r][i]
        BY <1>2, <1>4, <2>1
      <3>2. PICK n \in MsgsOf(r) :
                 /\ Ts[n] = applied[r][i]
                 /\ pc[n] \in {"served", "failed", "advanced", "done"}
        BY <2>1 DEF AppliedBySomeone
      <3> QED
        BY <1>3, <3>1, <3>2 DEF MsgsOf
    <2>2. CASE i \notin DOMAIN applied[r]
      <3>1. r = q /\ applied'[r][i] = Ts[m]
        BY <1>2, <1>4, <2>2
      <3> QED
        BY <1>3, <3>1 DEF MsgsOf
    <2> QED
      BY <2>1, <2>2
  <1> QED
    BY <1>6, <1>7

\* Transactions of a queue commit in timestamp order.
THEOREM CommitOrder ==
    ASSUME UniqueTs, Numbered
    PROVE  ParticipantSpec => []AppliedInOrder
  <1>1. ParticipantInit => AppliedBySomeone /\ AppliedInOrder
    BY DEF ParticipantInit, AppliedBySomeone, AppliedInOrder
  <1>2. /\ ParticipantTypeOK /\ Ordering!Safe
        /\ AppliedBySomeone /\ AppliedInOrder
        /\ [ParticipantNext]_vars
        => AppliedBySomeone' /\ AppliedInOrder'
    <2> SUFFICES ASSUME ParticipantTypeOK, Ordering!Safe,
                        AppliedBySomeone, AppliedInOrder, [ParticipantNext]_vars
                 PROVE  AppliedBySomeone' /\ AppliedInOrder'
      OBVIOUS
    <2>1. CASE UNCHANGED vars \/ \E q \in Queues : UpdateFilter(q)
      BY <2>1
         DEF vars, UpdateFilter, originVars, dbVars, AppliedBySomeone, AppliedInOrder,
             MsgsOf
    <2>2. ASSUME NEW m \in Msgs, Handle(m)
          PROVE  AppliedBySomeone' /\ AppliedInOrder'
      <3>1. ASSUME UNCHANGED applied,
                   \A n \in Msgs :
                      pc[n] \in {"served", "failed", "advanced", "done"}
                      => pc'[n] \in {"served", "failed", "advanced", "done"}
            PROVE  AppliedBySomeone' /\ AppliedInOrder'
        BY <3>1 DEF AppliedBySomeone, AppliedInOrder, MsgsOf
      <3>2. CASE \/ ReadFilters(m) \/ Acquire(m) \/ BeforeHook(m) \/ AfterHook(m)
                 \/ StatementFails(m) \/ Release(m)
        BY <3>1, <3>2
           DEF ParticipantTypeOK, ReadFilters, Acquire, EnqueueLate, Enqueue,
               AcquireNext, Receive, BeforeHook, AfterHook, StatementFails, Abort,
               Release, Advance, ReleaseNext, Goto, dbVars
      <3>3. CASE Commit(m) \/ CommitFails(m)
        <4>1. CASE UNCHANGED dbVars /\ Goto(m, "failed")
          BY <3>1, <4>1 DEF dbVars, Goto, ParticipantTypeOK
        <4>2. CASE CommitDb(m) /\ (Goto(m, "served") \/ Goto(m, "failed"))
          BY <3>3, <4>2, CommitKeepsOrder, UniqueTs, Numbered DEF Commit, CommitFails
        <4> QED
          BY <3>3, <4>1, <4>2 DEF Commit, CommitFails, Abort
      <3> QED
        BY <2>2, <3>2, <3>3 DEF Handle
    <2> QED
      BY <2>1, <2>2 DEF ParticipantNext
  <1> QED
    BY <1>1, <1>2, OrderKept, TypeCorrect, UniqueTs, Numbered, PTL DEF ParticipantSpec

=============================================================================
