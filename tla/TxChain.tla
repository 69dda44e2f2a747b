------------------------------ MODULE TxChain ------------------------------
(***************************************************************************)
(* Coordinator, executors and participants together: the transactions of   *)
(* one sender partition, each with an executor (module TxExecutor) that    *)
(* sends the requests of its stages to receivers behind the TxParticipant  *)
(* middleware (module TxParticipant).                                      *)
(*                                                                         *)
(* The n-th executor row of a partition has timestamp n at the receiver of *)
(* every stage (TxCoordinator's NoTimestampSkipped and OneOrder, for       *)
(* receivers that are all different).  The request handler is that of      *)
(* tx_test.go (166-205).  A failure is anything but an answer in the 200s; *)
(* the stages know no unrecoverable error, so nothing is force-completed,  *)
(* and checkpoints do not fail: both are in TxExecutor.                    *)
(***************************************************************************)
EXTENDS TxParticipant

CONSTANTS
    N,              \* bound on the number of transactions
    K,              \* the number of stages after the commit stage
    Slots,          \* requests of one stage that may be under way at once
    Faults,         \* the kinds of faults that happen
    MaxFaults,      \* bound on their number
    EndpointSet     \* the checkpoints of a committed transaction name the endpoint

Txs == 1 .. N
Stages == 0 .. K

\* A message is one request of a transaction's stage.  Slots are used again.
ASSUME ChainAssumption ==
    /\ N \in Nat /\ K \in Nat /\ MaxFaults \in Nat
    /\ IsFiniteSet(Slots) /\ Cardinality(Slots) > MaxFaults
    /\ EndpointSet \in BOOLEAN
    /\ Faults \subseteq {"timeout", "statement", "crash", "restart"}
    /\ Msgs = Txs \X Stages \X Slots
    /\ Queues = Stages
    /\ \A m \in Msgs : Ts[m] = m[1] /\ QueueOf[m] = m[2]
    /\ Attrs = {} /\ DryRun = {}

VARIABLES
    row,        \* [Txs -> the TxExecutor row]
    mem,        \* [Txs -> execCtx in memory]
    epc,        \* [Txs -> where the executor is]: "new" before its creation
    call,       \* [Txs -> the request the executor waits for, or NoCall]
    recovered,  \* the executors with execCtx.Recovered
    recovery,   \* [Txs -> the recovery of the row]
    lost,       \* [Txs -> the stages whose function gave up a request or was cut
                \* off by a crash, perhaps before it had sent one] (history)
    crashes,    \* [Txs -> the crashes since the row exists] (history)
    disturbed,  \* the stages whose receiver got a request again, or restarted
                \* (history)
    faults      \* the number of faults so far

rowVars == <<row, mem, recovered, recovery, crashes>>
executorVars == <<rowVars, epc, call, lost>>
participantVars == <<originVars, filterVars, dropResp, dbVars, answer>>
chainVars == <<participantVars, executorVars, disturbed, faults>>

NoCall == << >>

\* The transactions that have been at stage k, and the stages n has been at.
Visitors(k) == {applied[k][i] : i \in DOMAIN applied[k]}
Visited(n) == {k \in Stages : n \in Visitors(k)}

\* Transaction n as module TxExecutor sees it: a request of stage k carries
\* the output of the stage before it, input number k.
Exec(n) == INSTANCE TxExecutor WITH
    Copies <- {n}, NumStages <- K, Completable <- {},
    MaxCrashes <- MaxFaults, MaxTries <- 1,
    row <- row[n],
    mem <- [c \in {n} |-> mem[n]],
    pc <- [c \in {n} |-> IF epc[n] = "new" THEN "running" ELSE epc[n]],
    effects <- {<<k, k>> : k \in Visited(n)},
    inFlight <- {<<k, k>> : k \in lost[n] \ Visited(n)},
    forced <- {},
    recovered <- recovered \cap {n},
    recovery <- recovery[n],
    crashes <- crashes[n]

\* The values TxExecutor gives its variables are the same for all transactions.
Contexts == Exec(1)!Contexts
Recoveries == Exec(1)!Recoveries
ExecutorPCs == Exec(1)!PCs \cup {"new"}

Created(n) == epc[n] # "new"

\* A recovery none of whose requests has been sent.
RecoveryAt(phase, ctx) == [phase |-> phase, ctx |-> ctx, tries |-> 0]

\* The stage the executor of n waits to see done, if any.
Needed(n) ==
    IF epc[n] = "normal" /\ mem[n].curr < K
    THEN {mem[n].curr + 1}
    ELSE IF epc[n] = "running" /\ mem[n].status = "Pending" THEN {0} ELSE {}

Fault(kind) ==
    /\ kind \in Faults
    /\ faults < MaxFaults
    /\ faults' = faults + 1

-----------------------------------------------------------------------------
ChainInit ==
    /\ clock = [q \in Queues |-> 0]
    /\ queue = [q \in Queues |-> {}]
    /\ reply = {}
    /\ pc = [m \in Msgs |-> "unsent"]
    /\ reqFilter = [q \in Queues |-> {}]
    /\ respFilter = [q \in Queues |-> {}]
    /\ dropResp = {}
    /\ txResult = {}
    /\ applied = [q \in Queues |-> << >>]
    /\ answer = [m \in Msgs |-> "none"]
    /\ row = [n \in Txs |-> Exec(n)!NewContext]
    /\ mem = [n \in Txs |-> Exec(n)!NewContext]
    /\ epc = [n \in Txs |-> "new"]
    /\ call = [n \in Txs |-> NoCall]
    /\ recovered = {}
    /\ recovery = [n \in Txs |-> RecoveryAt("none", Exec(n)!NewContext)]
    /\ lost = [n \in Txs |-> {}]
    /\ crashes = [n \in Txs |-> 0]
    /\ disturbed = {}
    /\ faults = 0

(* The coordinating service *)

ExecGoto(n, label) == epc' = [epc EXCEPT ![n] = label]

\* The sender partition's lock, which a recovery request holds while its
\* handler runs.
PartitionFree == \A n \in recovered : epc[n] \notin Exec(n)!HandlerPCs

\* After a restart no transaction is created here before Recover has read the rows;
\* that it may also read the row of an executor at work is in TxExecutor.
ServiceUp == \A n \in Txs : recovery[n].phase # "unread"

\* createTxExecutor: the next row, with the next timestamps.
Create(n) ==
    /\ epc[n] = "new"
    /\ \A m \in Txs : m < n => Created(m)
    /\ ServiceUp /\ PartitionFree
    /\ ExecGoto(n, "running")
    /\ UNCHANGED <<participantVars, rowVars, call, lost, disturbed, faults>>

\* A request nobody has in hand: not sent, answered, or cut off.
AtRest(m) == pc[m] \in {"unsent", "done", "gone"}

\* A stage function sends its request.  No filter is set, so the middleware's
\* reading of them (ReadFilters) is over when the request arrives.
Ask(n) ==
    /\ call[n] = NoCall
    /\ \E k \in Needed(n) :
          LET free == {s \in Slots : AtRest(<<n, k, s>>)}
              m == <<n, k, CHOOSE s \in free : TRUE>>
              again == \E s \in Slots : pc[<<n, k, s>>] # "unsent"
          IN  /\ free # {}
              /\ call' = [call EXCEPT ![n] = m]
              /\ pc' = [pc EXCEPT ![m] = "idle"]
              /\ answer' = [answer EXCEPT ![m] = "none"]
              /\ disturbed' = IF again THEN disturbed \cup {k} ELSE disturbed
    /\ UNCHANGED <<clock, queue, reply, filterVars, dropResp, dbVars,
                   rowVars, epc, lost, faults>>

\* The answer is on its way once the middleware has returned, or its panic has
\* gone through the deferred Release.
Answered(n, a) ==
    /\ call[n] # NoCall
    /\ AtRest(call[n])
    /\ answer[call[n]] = a

\* A request that has enqueued behind another with its timestamp is never granted.
Overdue(m) == pc[m] = "waiting" /\ m \notin reply /\ Ts[m] <= clock[QueueOf[m]]

\* The stage function returns, successfully or not.
Returns(n) ==
    /\ call' = [call EXCEPT ![n] = NoCall]
    /\ UNCHANGED <<participantVars, row, recovered, recovery, crashes, disturbed>>

\* An answer that says no, or none in time: the request may still be served.  It is
\* a fault to give up one that would be answered.
Fails(n, why) ==
    /\ Returns(n)
    /\ \/ why = "answer"  /\ Answered(n, "aborted") /\ UNCHANGED faults
       \/ why = "overdue" /\ call[n] # NoCall /\ Overdue(call[n]) /\ UNCHANGED faults
       \/ why = "timeout" /\ call[n] # NoCall /\ Fault("timeout")
    /\ lost' = [lost EXCEPT ![n] = @ \cup Needed(n)]

\* Run, with the commit stage.
RunOk(n) ==
    /\ epc[n] = "running"
    /\ Answered(n, "ok")
    /\ Returns(n)
    /\ mem' = [mem EXCEPT ![n] = Exec(n)!CommittedContext(@)]
    /\ ExecGoto(n, "saving")
    /\ UNCHANGED <<lost, faults>>

RunFails(n, why) ==
    /\ epc[n] = "running"
    /\ Fails(n, why)
    /\ mem' = [mem EXCEPT ![n] = Exec(n)!WithStatus(@, "Aborted")]
    /\ ExecGoto(n, "failed")

\* Run on a recovered context.
RunCommitted(n) ==
    /\ epc[n] = "running"
    /\ mem[n].status # "Pending"
    /\ ExecGoto(n, "saving")
    /\ UNCHANGED <<participantVars, rowVars, call, lost, disturbed, faults>>

\* The manager's loop takes the executor.
Take(n) ==
    /\ epc[n] \in {"sending", "retrying"}
    /\ ExecGoto(n, "normal")
    /\ UNCHANGED <<participantVars, rowVars, call, lost, disturbed, faults>>

\* Execute, in the manager's goroutine.
ExecuteOk(n) ==
    /\ epc[n] = "normal"
    /\ Answered(n, "ok")
    /\ Returns(n)
    /\ mem' = [mem EXCEPT ![n] = Exec(n)!Passed(@)]
    /\ ExecGoto(n, "normalSave")
    /\ UNCHANGED <<lost, faults>>

\* Faulty variant: the stage function looks at connection errors only and takes
\* an answer that says no for a success (as tx_test.go:415 does).
ExecuteFailsUnnoticed(n, why) ==
    /\ epc[n] = "normal"
    /\ Fails(n, why)
    /\ mem' = [mem EXCEPT ![n] = Exec(n)!Passed(@)]
    /\ ExecGoto(n, "normalSave")

ExecuteFails(n, why) ==
    /\ epc[n] = "normal"
    /\ Fails(n, why)
    /\ ExecGoto(n, "retrying")
    /\ UNCHANGED mem

Finish(n) ==
    /\ epc[n] = "normal"
    /\ ~Exec(n)!HasNext(n)
    /\ mem' = [mem EXCEPT ![n] = Exec(n)!WithStatus(@, "Completed")]
    /\ ExecGoto(n, "completing")
    /\ UNCHANGED <<participantVars, row, recovered, recovery, crashes, call, lost,
                   disturbed, faults>>

\* The checkpoints of handler and manager.
Checkpoint(n) ==
    /\ epc[n] \in {"saving", "normalSave", "completing"}
    /\ row' = [row EXCEPT ![n] = mem[n]]
    /\ ExecGoto(n, CASE epc[n] = "saving"     -> "sending"
                     [] epc[n] = "normalSave" -> "normal"
                     [] OTHER                 -> "ended")
    /\ UNCHANGED <<participantVars, mem, recovered, recovery, crashes, call, lost,
                   disturbed, faults>>

(* Crash and recovery of the coordinating service *)

Crash ==
    /\ Fault("crash")
    /\ \E n \in Txs : Created(n)
    /\ epc' = [n \in Txs |-> IF Created(n) THEN "gone" ELSE "new"]
    /\ mem' = [n \in Txs |-> Exec(n)!NewContext]
    /\ call' = [n \in Txs |-> NoCall]
    /\ lost' = [n \in Txs |-> lost[n] \cup Needed(n)]
    /\ crashes' = [n \in Txs |-> IF Created(n) THEN crashes[n] + 1 ELSE crashes[n]]
    /\ recovered' = {}
    /\ recovery' =
          [n \in Txs |-> IF Created(n) THEN RecoveryAt("unread", Exec(n)!NewContext)
                                       ELSE recovery[n]]
    /\ UNCHANGED <<participantVars, row, disturbed>>

\* Recover reads the sender clocks and the rows that are not at their end.
Recover ==
    /\ ~ServiceUp
    /\ recovery' =
          [n \in Txs |->
              IF recovery[n].phase # "unread" THEN recovery[n]
              ELSE IF row[n].status = "Completed" THEN RecoveryAt("none", row[n])
              ELSE RecoveryAt("requesting", row[n])]
    /\ UNCHANGED <<participantVars, row, mem, recovered, crashes, epc, call, lost,
                   disturbed, faults>>

\* A recovery request reaches the handler only if the checkpoint names the
\* endpoint: the row createTxExecutor writes does not, a later one may.  It is not
\* repeated here, so nothing depends on when it is answered (RecoveryAnswered in
\* TxExecutor), and that step is left out.
RecoveryRequest(n) ==
    /\ recovery[n].phase = "requesting" /\ recovery[n].tries = 0
    /\ EndpointSet /\ recovery[n].ctx.status # "Pending"
    /\ PartitionFree
    /\ recovery' = [recovery EXCEPT ![n].tries = 1]
    /\ mem' = [mem EXCEPT ![n] = recovery[n].ctx]
    /\ recovered' = recovered \cup {n}
    /\ ExecGoto(n, "running")
    /\ UNCHANGED <<participantVars, row, crashes, call, lost, disturbed, faults>>

(* The receivers *)

\* Release moves the clock once more for every repeated request.  It is counted
\* up to N: past the last timestamp no message can tell clocks apart.
ReleaseUncounted(m) ==
    /\ pc[m] \in {"served", "failed"}
    /\ Goto(m, "advanced")
    /\ UNCHANGED <<clock, queue, reply, filterVars, dropResp, dbVars, answer>>

ReleaseUpToN(m) ==
    IF pc[m] # "advanced" /\ clock[QueueOf[m]] >= N
    THEN ReleaseUncounted(m)
    ELSE Release(m)

\* What the middleware and the handler do with a request when no statement fails.
Progress(m) ==
    /\ Acquire(m) \/ BeforeHook(m) \/ AfterHook(m) \/ Commit(m)
       \/ ReleaseUpToN(m)
    /\ UNCHANGED <<executorVars, disturbed, faults>>

\* A statement or the commit fails: a fault, or the sender has given up and
\* closed the connection.
DatabaseFails(m) ==
    /\ StatementFails(m) \/ CommitFails(m)
    /\ Fault("statement") \/ (call[m[1]] # m /\ UNCHANGED faults)
    /\ UNCHANGED <<executorVars, disturbed>>

\* A receiver crashes and restarts: requests and queue are gone, the sender sees
\* its connection break, the clock starts from 0 because recoverRecvClocks finds
\* no row in TxReceiverClocks.
RestartReceiver(q) ==
    LET cut == {m \in MsgsOf(q) : ~AtRest(m) /\ pc[m] # "idle"}
    IN  /\ Fault("restart")
        /\ clock' = [clock EXCEPT ![q] = 0]
        /\ queue' = [queue EXCEPT ![q] = {}]
        /\ reply' = reply \ cut
        /\ pc' = [m \in Msgs |-> IF m \in cut THEN "gone" ELSE pc[m]]
        /\ answer' = [m \in Msgs |-> IF m \in cut THEN "aborted" ELSE answer[m]]
        /\ disturbed' = disturbed \cup {q}
        /\ UNCHANGED <<filterVars, dropResp, dbVars, executorVars>>

-----------------------------------------------------------------------------
ExecutorStep(n) ==
    \/ Ask(n) \/ RunOk(n) \/ RunCommitted(n)
    \/ Take(n) \/ ExecuteOk(n) \/ Finish(n) \/ Checkpoint(n)
    \/ \E why \in {"answer", "overdue"} : RunFails(n, why) \/ ExecuteFails(n, why)

TimesOut(n) == RunFails(n, "timeout") \/ ExecuteFails(n, "timeout")

\* What goes on by itself, and what only a fault does.
FaultFree ==
    \/ \E n \in Txs : Create(n) \/ ExecutorStep(n)
    \/ \E n \in Txs : RecoveryRequest(n)
    \/ \E m \in Msgs : Progress(m)
    \/ Recover

Faulty ==
    \/ \E n \in Txs : TimesOut(n)
    \/ \E m \in Msgs : DatabaseFails(m)
    \/ \E q \in Queues : RestartReceiver(q)
    \/ Crash

ChainNext == FaultFree \/ Faulty

ChainSpec == ChainInit /\ [][ChainNext]_chainVars

\* Clients come, and the system does not rest while anything can go on.  Nothing
\* is assumed of it once there has been a fault.
ChainLiveSpec == ChainSpec /\ WF_chainVars(faults = 0 /\ FaultFree)

\* No goroutine that can go on is left behind: goroutines are scheduled,
\* statements return, retries go on for ever, a restarted service recovers and
\* its requests are sent.  No fault is ever due.
ChainFairSpec ==
    /\ ChainSpec
    /\ \A n \in Txs :
          /\ WF_chainVars(Create(n))
          /\ WF_chainVars(ExecutorStep(n))
          /\ WF_chainVars(RecoveryRequest(n))
    /\ \A m \in Msgs : WF_chainVars(Progress(m))
    /\ WF_chainVars(Recover)

-----------------------------------------------------------------------------
(* Properties                                                              *)

ChainTypeOK ==
    /\ clock \in [Queues -> Nat]
    /\ queue \in [Queues -> SUBSET Msgs]
    /\ reply \subseteq Msgs
    /\ pc \in [Msgs -> RequestPCs \cup {"unsent", "gone"}]
    /\ txResult \subseteq Queues \X Nat
    /\ applied \in [Queues -> Seq(Nat)]
    /\ answer \in [Msgs -> {"none", "ok", "unavailable", "aborted"}]
    /\ row \in [Txs -> Contexts]
    /\ mem \in [Txs -> Contexts]
    /\ epc \in [Txs -> ExecutorPCs]
    /\ call \in [Txs -> Msgs \cup {NoCall}]
    /\ recovered \subseteq Txs
    /\ recovery \in [Txs -> Recoveries]
    /\ lost \in [Txs -> SUBSET Stages]
    /\ crashes \in [Txs -> 0 .. MaxFaults]
    /\ disturbed \subseteq Stages
    /\ faults \in 0 .. MaxFaults

Chains == INSTANCE SerialChains WITH visits <- applied

\* Through lost answers, failing statements, crashes and restarts every
\* transaction takes its stages in order and once each, and the receivers that
\* were not disturbed apply the transactions in one order (tx_test.go:314-316).
ChainsSpec == Chains!Spec

\* Served by real participants, every executor behaves as TxExecutor describes:
\* effects come from requests it waits for or has given up.
ExecutorsSpec ==
    /\ \A n \in Txs : Exec(n)!Init
    /\ [][\A n \in Txs : UNCHANGED Exec(n)!vars \/ Exec(n)!Next]_chainVars

Completed(n) == row[n].status = "Completed"

\* A completed transaction has had its effect at the receiver of every stage,
\* whatever was lost, cut off or resumed on the way (tx_test.go:314-319).
CompletedEverywhere == \A n \in Txs : Completed(n) => Visited(n) = Stages

Precedes(k, m, n) ==
    \E i, j \in DOMAIN applied[k] : i < j /\ applied[k][i] = m /\ applied[k][j] = n

\* No two receivers disagree on the order of two transactions, unless one of them
\* was disturbed (tx_test.go:314-316 compares the orders of all receivers).
ReceiversAgree ==
    \A j, k \in Stages \ disturbed : \A m, n \in Txs :
        ~(Precedes(j, m, n) /\ Precedes(k, n, m))

\* As long as nothing fails, every transaction completes: executors that wait
\* for receivers and receivers that wait for earlier timestamps never wait for
\* each other in a circle (tx_test.go:277-307 and 319).
HealthyCompletes == <>(faults > 0 \/ \A n \in Txs : Completed(n))

\* A transaction suffers from its own failures only: unless one of its requests
\* fails it completes, whatever happens to others (tx_test.go:277-307).
OwnFailuresOnly == \A n \in Txs : <>(lost[n] # {} \/ Completed(n))

\* A transaction that has been committed completes (tx_test.go:319).
CommittedCompletes == \A n \in Txs : row[n].status = "Committed" ~> Completed(n)

-----------------------------------------------------------------------------
(* The inductive invariant behind the safety properties                    *)

\* No filter selects anything, so no response is dropped.
NoFilters ==
    /\ reqFilter = [q \in Queues |-> {}] /\ respFilter = [q \in Queues |-> {}]
    /\ dropResp = {}

\* x claims nothing of transaction n that has not happened: TxExecutor's Backed.
Honest(n, x) ==
    /\ x.status # "Aborted"
    /\ x.status = "Pending" => x.curr = 0 /\ x.input = 0
    /\ x.status # "Pending" =>
          /\ x.input = x.curr + 1
          /\ 0 .. x.curr \subseteq Visited(n)
    /\ x.status = "Completed" => x.curr = K

\* TxExecutor's IInv of transaction n, in terms of the stages it has been at.
Backing(n) ==
    /\ epc[n] # "failed" => Honest(n, mem[n])
    /\ Honest(n, row[n])
    /\ Honest(n, recovery[n].ctx)
    /\ epc[n] \notin {"new", "gone", "running", "failed"} => mem[n].status # "Pending"
    /\ \A k \in Visited(n) \cup lost[n] : 0 .. (k - 1) \subseteq Visited(n)

\* The executor waits for a request of the stage it needs, and for nothing otherwise.
CallNeeded(n) ==
    call[n] # NoCall =>
        /\ call[n] \in Msgs /\ call[n][1] = n /\ call[n][2] \in Needed(n)
        /\ pc[call[n]] # "unsent"

\* A request under way is one the executor needs or has given up, or it comes too
\* late to have an effect.
Underway(n) ==
    \A m \in Msgs :
        m[1] = n /\ ~AtRest(m) => m[2] \in Needed(n) \cup lost[n] \cup Visited(n)

\* What is known of the life of a row besides what backs it.
LifeKept(n) ==
    /\ epc[n] = "new" =>
          /\ row[n] = Exec(n)!NewContext /\ mem[n] = Exec(n)!NewContext
          /\ lost[n] = {} /\ recovery[n].phase = "none"
    /\ epc[n] \in {"new", "gone"} => n \notin recovered
    /\ n \in recovered => mem[n].status # "Pending"
    /\ "ForceComplete" \notin {row[n].status, mem[n].status, recovery[n].ctx.status}
    /\ \/ recovery[n].phase = "unread"
       \/ recovery[n].phase = "requesting" /\ recovery[n].tries = 0
       => epc[n] = "gone"
    /\ crashes[n] <= faults

\* Past its grant, before the clock has moved.
InTurn(m) == pc[m] \in {"holding", "executing", "inserted", "served", "failed"}

\* While a receiver is not disturbed nobody sends it a timestamp twice, ...
SentOnce(k) ==
    \A m, n \in MsgsOf(k) :
        pc[m] # "unsent" /\ pc[n] # "unsent" /\ Ts[m] = Ts[n] => m = n

\* ... and the invariant of the origin manager holds there (see TxOrigin's IInv): a
\* queued request has its turn ahead, ...
QueueAhead(k) ==
    \A m \in queue[k] :
        pc[m] \in {"enqueued", "waiting"} /\ m \notin reply /\ Ts[m] > clock[k]

\* ... nobody is late, a granted request has its turn now, a served one has had it, ...
TurnsRespected(k) ==
    \A m \in MsgsOf(k) :
        /\ pc[m] # "refused"
        /\ pc[m] = "idle" => Ts[m] > clock[k]
        /\ m \in reply => pc[m] \in {"enqueued", "waiting"}
        /\ m \in reply \/ InTurn(m) => Ts[m] = clock[k] + 1
        /\ Served(m) => Ts[m] <= clock[k]

\* ... and no turn is over that nobody has had.
TurnsTaken(k) == \A t \in 1 .. clock[k] : \E m \in MsgsOf(k) : Ts[m] = t /\ Served(m)

\* Who has been there is past its commit.
VisitsTurned(k) ==
    \A n \in Visitors(k) :
        \E m \in MsgsOf(k) : Ts[m] = n /\ (pc[m] \in {"served", "failed"} \/ Served(m))

TurnsKept(k) ==
    SentOnce(k) /\ QueueAhead(k) /\ TurnsRespected(k) /\ TurnsTaken(k) /\ VisitsTurned(k)

\* Everything that is kept of one transaction, and of all.
TxInv(n) == Backing(n) /\ LifeKept(n) /\ CallNeeded(n) /\ Underway(n)

RowsInv == ChainTypeOK /\ \A n \in Txs : TxInv(n)

\* Every queue holds requests to its own receiver only.
QueuesOwn == \A q \in Queues : queue[q] \subseteq MsgsOf(q)

ChainIInv ==
    /\ RowsInv
    /\ NoFilters
    /\ ParticipantIInv
    /\ QueuesOwn
    /\ \A k \in Stages \ disturbed : TurnsKept(k)

=============================================================================
