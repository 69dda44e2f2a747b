--------------------------- MODULE TxParticipant ---------------------------
(***************************************************************************)
(* A receiving service behind the TxParticipant middleware                 *)
(* (pkg/middleware/tx.go): fault-injection filters, the origin manager's   *)
(* ordering, and a handler that runs its transaction in a TxLifeCycle      *)
(* (pkg/database/tx.go) with the dedup hooks of pkg/cc/checkpoint.go.      *)
(*                                                                         *)
(* A message is one HTTP request.  Requests for the same timestamp are     *)
(* retries of one another: the sender repeats a stage whose answer it did  *)
(* not get.  The middleware differs from the callers of module TxOrigin in *)
(* two points: it serves a request that Acquire refused, and it releases   *)
(* after every request it served, granted or not.                          *)
(***************************************************************************)
EXTENDS TxOrigin, Sequences

CONSTANTS
    Attrs,      \* the attributes filters select requests by
    AttrsOf,    \* [Msgs -> SUBSET Attrs]: stageCtx.Attrs
    DryRun      \* the messages with stageCtx.DryRun set

ASSUME RequestAssumption ==
    /\ AttrsOf \in [Msgs -> SUBSET Attrs]
    /\ DryRun \subseteq Msgs

VARIABLES
    reqFilter,  \* [Queues -> SUBSET Attrs]
    respFilter, \* [Queues -> SUBSET Attrs]
    dropResp,   \* the messages whose response the middleware will withhold
    txResult,   \* the (queue, timestamp) keys of the table TxResult
    applied,    \* [Queues -> Seq(Nat)]: the timestamps of the committed
                \* transactions in commit order (history)
    answer      \* [Msgs -> what the sender is told]

filterVars == <<reqFilter, respFilter>>
dbVars == <<txResult, applied>>
vars == <<originVars, filterVars, dropResp, dbVars, answer>>

\* Control states of a request besides those of TxOrigin.  "sent": the filters
\* are not read yet; "executing": the before hook let the transaction run;
\* "inserted": the after hook has inserted the result, nothing is committed;
\* "served" and "failed": the handler has returned or panicked, Release is
\* deferred; "dropped": answered by the request filter.
RequestPCs ==
    PCs \cup {"sent", "executing", "inserted", "served", "failed", "dropped"}

Key(m) == <<QueueOf[m], Ts[m]>>

-----------------------------------------------------------------------------
ParticipantInit ==
    /\ clock = [q \in Queues |-> 0]
    /\ queue = [q \in Queues |-> {}]
    /\ reply = {}
    /\ pc = [m \in Msgs |-> "sent"]
    /\ reqFilter = [q \in Queues |-> {}]
    /\ respFilter = [q \in Queues |-> {}]
    /\ dropResp = {}
    /\ txResult = {}
    /\ applied = [q \in Queues |-> << >>]
    /\ answer = [m \in Msgs |-> "none"]

(* Filters *)

\* A filter selects a request all of whose attributes, at least one, it holds.
Selects(filter, m) == AttrsOf[m] # {} /\ AttrsOf[m] \subseteq filter[QueueOf[m]]

\* The filter operations: add, remove, clear.
FilterUpdates(old) ==
    {{}} \cup {old \cup a : a \in SUBSET Attrs} \cup {old \ a : a \in SUBSET Attrs}

UpdateFilter(q) ==
    /\ \/ \E f \in FilterUpdates(reqFilter[q]) :
             reqFilter' = [reqFilter EXCEPT ![q] = f] /\ UNCHANGED respFilter
       \/ \E f \in FilterUpdates(respFilter[q]) :
             respFilter' = [respFilter EXCEPT ![q] = f] /\ UNCHANGED reqFilter
    /\ UNCHANGED <<originVars, dropResp, dbVars, answer>>

\* Faulty variant: Release is deferred before a request is dropped.
ReadFiltersDeferred(m) ==
    /\ pc[m] = "sent"
    /\ Goto(m, IF Selects(reqFilter, m) THEN "failed" ELSE "idle")
    /\ UNCHANGED <<clock, queue, reply, filterVars, dropResp, dbVars, answer>>

\* The middleware reads both filters on entry: a dropped request takes no turn,
\* and whether the response will be dropped is settled before the wait.
ReadFilters(m) ==
    /\ pc[m] = "sent"
    /\ IF Selects(reqFilter, m)
       THEN /\ Goto(m, "dropped")
            /\ answer' = [answer EXCEPT ![m] = "unavailable"]
            /\ UNCHANGED dropResp
       ELSE /\ Goto(m, "idle")
            /\ dropResp' = IF Selects(respFilter, m) THEN dropResp \cup {m}
                                                     ELSE dropResp
            /\ UNCHANGED answer
    /\ UNCHANGED <<clock, queue, reply, filterVars, dbVars>>

(* Ordering *)

\* originMgr.Acquire; its result is not looked at, see BeforeHook.
Acquire(m) ==
    /\ EnqueueLate(m) \/ Enqueue(m) \/ AcquireNext(m) \/ Receive(m)
    /\ UNCHANGED <<filterVars, dropResp, dbVars, answer>>

\* Faulty variant: Release is not deferred, a panic skips it.
ReleaseNotDeferred(m) ==
    /\ Advance(m, "served") \/ ReleaseNext(m)
    /\ UNCHANGED <<filterVars, dropResp, dbVars, answer>>

\* The deferred originMgr.Release, after a return and after a panic.
Release(m) ==
    /\ Advance(m, "served") \/ Advance(m, "failed") \/ ReleaseNext(m)
    /\ UNCHANGED <<filterVars, dropResp, dbVars, answer>>

(* The handler *)

\* An error rolls the transaction back; UnwrapResult panics with it and the
\* HTTP server cuts the connection.
Abort(m) ==
    /\ Goto(m, "failed")
    /\ answer' = [answer EXCEPT ![m] = "aborted"]
    /\ UNCHANGED dbVars

\* Faulty variant: the handler does not wait for the grant.
BeforeHookUngranted(m) ==
    /\ pc[m] \in {"waiting", "holding", "refused"}
    /\ IF Key(m) \in txResult \/ m \in DryRun
       THEN Abort(m)
       ELSE Goto(m, "executing") /\ UNCHANGED <<dbVars, answer>>
    /\ UNCHANGED <<clock, queue, reply, filterVars, dropResp>>

\* BeginTx and TxDedupBeforeHook: only a transaction without a recorded result
\* goes on, and a dry run does not.
BeforeHook(m) ==
    /\ pc[m] \in {"holding", "refused"}
    /\ IF Key(m) \in txResult \/ m \in DryRun
       THEN Abort(m)
       ELSE Goto(m, "executing") /\ UNCHANGED <<dbVars, answer>>
    /\ UNCHANGED <<clock, queue, reply, filterVars, dropResp>>

\* Faulty variant: TxResult has no UNIQUE constraint.
AfterHookNotUnique(m) ==
    /\ pc[m] = "executing"
    /\ Goto(m, "inserted")
    /\ UNCHANGED <<clock, queue, reply, filterVars, dropResp, dbVars, answer>>

\* The transaction function and TxDedupAfterHook's INSERT.  It waits while
\* another open transaction has inserted the key, and fails on UNIQUE when the
\* key is there.
AfterHook(m) ==
    /\ pc[m] = "executing"
    /\ \A n \in Msgs : pc[n] = "inserted" => Key(n) # Key(m)
    /\ IF Key(m) \in txResult
       THEN Abort(m)
       ELSE Goto(m, "inserted") /\ UNCHANGED <<dbVars, answer>>
    /\ UNCHANGED <<clock, queue, reply, filterVars, dropResp>>

\* Any statement may fail, also because the sender has given up and closed the
\* connection.
StatementFails(m) ==
    /\ pc[m] \in {"holding", "refused", "executing"}
    /\ Abort(m)
    /\ UNCHANGED <<clock, queue, reply, filterVars, dropResp>>

\* Faulty variant: the result is recorded for the queue, not the timestamp.
CommitDbWholeQueue(m) ==
    /\ txResult' = txResult \cup {<<QueueOf[m]>>}
    /\ applied' = [applied EXCEPT ![QueueOf[m]] = Append(@, Ts[m])]

CommitDb(m) ==
    /\ txResult' = txResult \cup {Key(m)}
    /\ applied' = [applied EXCEPT ![QueueOf[m]] = Append(@, Ts[m])]

\* COMMIT succeeds and the handler answers, unless the response is dropped.
Commit(m) ==
    /\ pc[m] = "inserted"
    /\ CommitDb(m)
    /\ Goto(m, "served")
    /\ answer' = [answer EXCEPT ![m] = IF m \in dropResp THEN "unavailable" ELSE "ok"]
    /\ UNCHANGED <<clock, queue, reply, filterVars, dropResp>>

\* Faulty variant: the error of COMMIT is not looked at.
CommitFailsUnnoticed(m) ==
    /\ pc[m] = "inserted"
    /\ Goto(m, "served")
    /\ answer' = [answer EXCEPT ![m] = "ok"]
    /\ UNCHANGED <<clock, queue, reply, filterVars, dropResp, dbVars>>

\* COMMIT reports an error: the transaction is lost, or it is committed and
\* only the confirmation is lost.
CommitFails(m) ==
    /\ pc[m] = "inserted"
    /\ \/ Abort(m)
       \/ /\ CommitDb(m)
          /\ Goto(m, "failed")
          /\ answer' = [answer EXCEPT ![m] = "aborted"]
    /\ UNCHANGED <<clock, queue, reply, filterVars, dropResp>>

-----------------------------------------------------------------------------
Handle(m) ==
    \/ ReadFilters(m)
    \/ Acquire(m)
    \/ BeforeHook(m)
    \/ AfterHook(m)
    \/ StatementFails(m)
    \/ Commit(m)
    \/ CommitFails(m)
    \/ Release(m)

ParticipantNext ==
    \/ \E m \in Msgs : Handle(m)
    \/ \E q \in Queues : UpdateFilter(q)

ParticipantSpec == ParticipantInit /\ [][ParticipantNext]_vars

\* A request that can go on does: goroutines are scheduled, statements return.
ParticipantFairSpec ==
    ParticipantSpec /\ \A m \in Msgs : WF_vars(Handle(m))

-----------------------------------------------------------------------------
(* Properties                                                              *)

ParticipantTypeOK ==
    /\ clock \in [Queues -> Nat]
    /\ queue \in [Queues -> SUBSET Msgs]
    /\ reply \subseteq Msgs
    /\ pc \in [Msgs -> RequestPCs]
    /\ reqFilter \in [Queues -> SUBSET Attrs]
    /\ respFilter \in [Queues -> SUBSET Attrs]
    /\ dropResp \subseteq Msgs
    /\ txResult \subseteq Queues \X Nat
    /\ applied \in [Queues -> Seq(Nat)]
    /\ answer \in [Msgs -> {"none", "ok", "unavailable", "aborted"}]

\* Exactly-once effect: however requests for one timestamp are repeated,
\* overlap or fail, their transaction commits at most once.
AppliedOnce ==
    \A q \in Queues : \A i, j \in DOMAIN applied[q] :
        applied[q][i] = applied[q][j] => i = j

\* An outcome the sender can rely on: an "ok" is never given for a transaction
\* that did not commit, and a dry run that ends never committed anything.
AnswerMeansApplied ==
    \A m \in Msgs :
        answer[m] = "ok" =>
            /\ m \notin DryRun
            /\ \E i \in DOMAIN applied[QueueOf[m]] : applied[QueueOf[m]][i] = Ts[m]

\* Transactions of a queue commit in timestamp order (tx_test.go:314-316
\* compares the orders of all receivers).
AppliedInOrder ==
    \A q \in Queues : \A i, j \in DOMAIN applied[q] :
        i < j => applied[q][i] < applied[q][j]

Ended(m) == pc[m] \in {"done", "dropped"}

\* A request is held up only by a missing smaller timestamp: one nobody sent,
\* or one whose request was dropped.
EveryRequestEnds ==
    \A m \in Msgs :
        NoGapBelow(m) =>
            <>\/ Ended(m)
              \/ \E n \in MsgsOf(QueueOf[m]) : Ts[n] < Ts[m] /\ pc[n] = "dropped"

\* Seen from the origin manager, a request is in its turn while it is served.
OriginPc(m) ==
    CASE pc[m] \in {"sent", "dropped"} -> "idle"
      [] pc[m] \in {"executing", "inserted", "served", "failed"} -> "holding"
      [] OTHER -> pc[m]

Origin == INSTANCE TxOrigin WITH pc <- [m \in Msgs |-> OriginPc(m)]

\* While no timestamp is sent twice, the participant is one of the disciplined
\* callers TxOrigin describes, and has all it guarantees them.
OriginSpec == Origin!Spec

-----------------------------------------------------------------------------
(* The inductive invariant behind the exactly-once properties              *)

\* The result table and the transactions' effects agree: the dedup hook of a
\* retry finds a result exactly when the effect is there.
RecordedIffApplied ==
    txResult = UNION {{<<q, applied[q][i]>> : i \in DOMAIN applied[q]} : q \in Queues}

\* An inserted result that is not committed is the only one for its key.
InsertAlone ==
    \A m \in Msgs :
        pc[m] = "inserted" =>
            /\ Key(m) \notin txResult
            /\ \A n \in Msgs : pc[n] = "inserted" /\ Key(n) = Key(m) => n = m

\* A dry run gets no further than its before hook.
DryRunStops == \A m \in DryRun : pc[m] \notin {"executing", "inserted"}

\* Whatever has committed is the doing of a request that is past its handler.
AppliedBySomeone ==
    \A q \in Queues : \A i \in DOMAIN applied[q] :
        \E m \in MsgsOf(q) :
            Ts[m] = applied[q][i] /\ pc[m] \in {"served", "failed", "advanced", "done"}

ParticipantIInv ==
    /\ AppliedOnce
    /\ RecordedIffApplied
    /\ AnswerMeansApplied
    /\ InsertAlone
    /\ DryRunStops

=============================================================================
