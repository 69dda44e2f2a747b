# txchain in TLA+

A verification project for this repository: TLA+ models of the transaction
chain in `pkg/cc`, `pkg/middleware` and `pkg/database` and of the calendar in
`pkg/api/v1` it is made for, the TLC runs that check
them on small instances, and TLAPS proofs of theorems that hold for every
instance. `PROJECT.json` lists every run, every definition with the source
lines it models, the hazards and the theorems; this file explains them.

## 1. The system

Three services (user, event, event_log) keep a calendar. A client's request to
a *coordinating* service becomes a chain of stages: the commit stage, then one
stage per *receiving* service. Each receiver applies the stages of one
(partition, sender service) queue in the order of timestamps the coordinator
gave them. Executors carry a chain to its end across failures and restarts.

| component | state | operations | hard behaviour |
|---|---|---|---|
| origin manager: `cc/origin.go`, `clock.go`, `partition.go` | receiver clocks, a priority queue per queue, one mutex per partition | `Acquire` (enqueue, next, wait), `Release` (advance, next) | the lock is given up between the parts; grants travel through goroutines |
| participant middleware: `middleware/tx.go` 23-98, `cc/filter.go`, `api/v1/cc.go` | request and response filters | filter, acquire, serve, release | retries, dropped requests and responses, panics |
| transaction life cycle and dedup hooks: `database/tx.go`, `cc/checkpoint.go` | `TxResult` rows | before hook, body, after hook, commit, `UnwrapResult` | effect and record in one transaction; concurrent duplicates; lost confirmations |
| executor and manager: `cc/executor.go`, `context.go`, `checkpoint.go` | executor context in memory and in its row | `Run`, `Execute`, `ForceComplete`, checkpoint, retry | a crash between effect and checkpoint; two executors on a row |
| coordinator middleware: `middleware/tx.go` 100-294 | sender clocks in memory and in `TxSenderClocks`, partition locks | create executor, serve, recovery path | clocks move only with a commit; concurrent requests |
| the parts together | rows, requests under way, receivers | a transaction from its creation to its completion | an answer that is lost, a stage that fails for good, a crash or restart at any point |
| recovery: `cc/recovery.go` | none of its own | set sender clocks, set receiver clocks, request continuation of executors | runs beside the server; repeats requests |
| instrumenter: `cc/instrumenter.go` | recorded visits | `VisitBefore`, `VisitAfter` | called outside the lock at the sender |
| calendar: `api/v1/*.go`, `database/user.go`, `event.go`, `event_log.go` | users, events, event logs | sagas over three services; stores | read-modify-write updates; a saga that stops half way |
| router and services, formats, logger, containers | wiring only | | none |

They interact so: the coordinator's timestamps are the turns of the receivers'
origin managers; the executor's stages are the requests the participants serve;
a participant's dedup hook makes a repeated stage harmless; recovery starts
executors through the coordinator middleware again.

What makes each of them correct:

* origin manager: one caller per queue at a time, in timestamp order, no lost
  wakeup, nobody refused but the outdated, everybody served whom no missing
  timestamp holds up;
* participant: a transaction commits at most once, in timestamp order; the result table says exactly
  what has committed; an "ok" means committed; every request ends;
* executor: stages take effect in order and on the previous stage's output; no
  checkpoint is ahead of the effects, or taken back but by a second executor object,
  which makes it good; a recorded commit is completed;
* coordinator: no timestamp is handed out twice or skipped, through failures
  and restarts; memory and database agree whenever clocks are read;
* together: every receiver sees a partition's transactions in one order, each once
  and stage by stage; transactions complete unless a failure of their own stops
  them, and never wait for each other in a circle;
* calendar: an update is lost only if another one overlaps it; a deleted row
  stays deleted; what a confirmed saga has written is there until it is undone or
  overwritten; the history is never ahead of the services.

## 2. Modules

| module | models | extends / uses |
|---|---|---|
| `SerialTurns` | what the origin manager promises: rooms entered by one message at a time, in turn order | |
| `SerialChains` | what all parts together promise: numbered transactions visit the receivers of their stages in order, once each, in one order everywhere | |
| `TxOrigin` | `cc/origin.go` with disciplined callers | instance of `SerialTurns` under a refinement mapping |
| `TxParticipant` | the participant middleware, filters, life cycle and dedup hooks around the origin manager | extends `TxOrigin`; instance of it under a mapping |
| `TxExecutor` | one transaction's executor, its manager, checkpoints, crashes, recovery | |
| `TxCoordinator` | timestamp allocation, sender clocks, their recovery | |
| `TxChain` | several transactions with their executors in front of real participants | extends `TxParticipant`; an instance of `TxExecutor` for each transaction; instance of `SerialChains` |
| `Calendar` | the sagas and the stores they call | |
| `TxOriginProofs`, `TxParticipantProofs`, `TxExecutorProofs`, `TxCoordinatorProofs`, `CalendarProofs` | theorems and proofs | extend the modules above |
| `TxChainProofs` | theorems about the parts together | extends `TxChain`, `TxParticipantProofs` |
| `MC...` | instances for TLC | extend the modules above |

Definitions under a comment "Faulty variant" are plausible bugs. They are used
in no specification; substituted for the operator they vary, each makes TLC
find a property violated.

### TxOrigin

`clock`, `queue` and `reply` are the receiver clock, the priority queue and the
grants whose `go func` is still sending. `enqueue`, `advance` and `next` each
hold the partition's mutex from beginning to end, so each is one action and
goroutines interleave between them: `EnqueueLate`/`Enqueue`, `AcquireNext`
(the `next` of `Acquire`), `Receive` (`<-msg.reply`), `Advance`, `ReleaseNext`.
The heap orders by timestamp only, so `Peek` may return any of the smallest.
A message on a queue that was never initialised is left out: `NewTxManager`
initialises all of them before the server starts. The senders' guarantee,
`UniqueTs`, is the coordinator's `TimestampsUnique`.

### TxParticipant

Reuses the origin manager's actions and adds what `TxParticipant` and a handler
do around them. It differs from `TxOrigin`'s callers where the code does: a
request that `Acquire` *refused* is served all the same, and `Release` is
deferred for every request that was served. `BeforeHook`, `AfterHook`, `Commit`,
`CommitFails` and `StatementFails` are the steps of `TxLifeCycle.Start` with the
dedup hooks; the UNIQUE constraint of `TxResult` makes an INSERT wait for an
open transaction with the same key. Every error panics in `UnwrapResult`
(`Abort`), and the deferred `Release` still runs. The filters are read once,
before the wait. Left out: the pass-through of requests without a stage context,
the instrumenter, and the start and end hooks, which run nothing here.

### TxExecutor

A *copy* is an executor object. `row` is the last checkpoint, `mem` the
contexts in memory, `pc` where a copy is in the handler (`running`, `saving`,
`sending`) or in the manager's two loops. An input is named by the number of
stages it has gone through, so "stage k ran on the output of stage k-1" is
`<<k, k>> \in effects`. A stage that fails may have had its effect already, or
may have it later: `inFlight` holds the requests nobody waits for any more,
after an error (an unrecoverable one too), a time-out or a crash, which `Serve` may
still carry out. A checkpoint that reports an error may have been written. A crash
empties memory. `Recover` runs beside the server (`recovery.go:52`), so it reads the
row at any time after the service was started, that of an executor at work included:
`Init` is a row whose executor has just been created, in a service whose `Recover` is
over or still to come. `RecoveryRequest` sends what was read, up to
`MaxTries` times, each time to a new copy, which may be the second one on the row
already with the first request; only its handler holds the partition lock of the
coordinator middleware while it runs (`PartitionFree`). The status `Rollback` is
never set in the code and left out. The commit stage of a recovered pending
context is a dry run, which succeeds only where an earlier execution left a
result. The handler is the one of `middleware/tx_test.go` 166-205, the only
place where the repository wires coordinator, executor and manager together.

### TxCoordinator

One action per step between two points where something else can happen:
`Begin` (lock, read the clocks, compute timestamps), `CreateFails`,
`CreateCommit` (row and clocks in one transaction), then `SetClocks` (memory,
unlock) or, if the COMMIT took effect and reports an error all the same,
`Unconfirmed`. `Recover` reads the clocks once (`RecoverRead`) and sets them one
by one without the lock (`RecoverSet`). With `ServeFirst`, requests are served
before `Recover` has finished, as its comment asks. `Partition` hashes with a
fresh random seed per call, so every request may land in any partition: `prt` is
arbitrary. A confirmation that is lost leaves the clock in memory one request
behind, and the next request gets the same timestamps; the first one was answered
with an error (`Rejected`) and sends nothing, so timestamps are shared with such
a request only, and the order of transactions (`OneOrder`) stands.

### TxChain

Transactions `1 .. N` of one sender partition, each with a commit stage and `K`
more stages at different receivers. What `TxCoordinator` shows of timestamps is
built in: the n-th row has timestamp n everywhere. A message of `TxParticipant`
is one request of a stage; there are `Slots` of them for each stage, used again
when they are at rest, so that a repeated request meets its predecessor anywhere
in the receiver. The executor's steps are those of `TxExecutor`, whose operators
they use through the instance `Exec(n)`; here its stage functions get their
answers from the participants, and `ExecutorsSpec` checks that what they see is
what `TxExecutor` allows. Four kinds of faults can be switched on: a time-out, a
failing statement or commit, a crash of the coordinating service, and a restart of
a receiver, which cuts off its requests and sets its clock to 0, since nothing
writes `TxReceiverClocks`. What a fault entails (more failures of requests whose
sender is gone, time-outs of requests that can never be granted) does not count
as a fault. `EndpointSet` says whether the checkpoints of a committed transaction name the
endpoint that recovery needs: those of the handler of `middleware/tx_test.go` do not;
`recovery_test.go` (236-237) recovers rows into which its own insert helper has put
one. A context that is still pending never has one. A recovery request is sent once:
repeated ones, the answer that ends them, and a recovery that reads the row of an
executor at work are in `TxExecutor`. `lost` and `disturbed` are history: the stages of a
transaction that were given up, and the receivers that got a request again
or restarted. The properties a client relies on are stated next to the refinements:
`CompletedEverywhere` (a transaction recorded as completed has been at every
receiver) and `ReceiversAgree` (what `middleware/tx_test.go` 314-316 compares).

### Calendar

`requests` is a workload, any function from sagas to requests out of
`Workloads`. A saga is a sequence of store calls (`HandleTxCreateEvent` ...), `at` the call
it is at. Its calls carry no stage context, so the participant middleware
passes them through and nothing orders them. `db` maps the columns the calls
read and write (`host_events` of a user, `participants` and `info` of an event)
to their values; an array is a set, since the code keeps it without duplicates
and the tests sort it. A read-modify-write call is `Select` and `WriteBack`:
PostgreSQL's READ COMMITTED, pgx's default, lets another transaction commit in
between, and an UPDATE holds its row lock to the COMMIT. `Fail` is an error of
any kind, with rollback and answer 500. `GiveUp` is a client time-out, after
which the call may still commit; a lost response looks the same. `ideal`,
`raced`, `stale` and `applied` help to state properties: `ideal` is what the
database would be if every update were one statement, `raced` the columns on
which two updates overlapped, `applied` the calls that were carried out.
A request sent to a store directly is a saga of one call, except that clients
do not write the history themselves. Identities of failed INSERTs are not
skipped, which no property could see.

## 3. Runs

| run | instance | shows |
|---|---|---|
| `origin` | queue A with timestamps 0-3, queue B with 1 and 3 | all safety properties, `EveryTurnComes`, and that `TxOrigin` with its fairness implements `SerialTurns` with its own |
| `participant_unique` | three requests with timestamps 1-3, one a dry run, filters that change | commit order, every request ends, and the middleware is a disciplined caller (`OriginSpec`) |
| `participant_dup_stall` | one timestamp requested twice, then the next | finding |
| `executor` | two copies, two stages, one crash, two recovery requests, of rows at rest or at work | order and inputs of stages, checkpoints true and taken back only by a second copy, never behind what recovery has read, and made good at the end, a recorded commit is completed; the inductive invariant |
| `coordinator` | four requests, two partitions, stages at A, B, A, two crashes | uniqueness, one order, no gap, memory = database but for rejected requests, the inductive invariant |
| `coordinator_serve_first` | four requests in one partition | finding |
| `chain` | two transactions with two stages, two requests per stage, any one fault | `SerialChains` is implemented, executors see what `TxExecutor` allows, at most once, "ok" means committed, completed means done everywhere, receivers agree on the order, and everything completes if nothing fails; the inductive invariant |
| `chain_lost_answer` | one transaction, one time-out | finding |
| `chain_gap` | two transactions, one failing statement | finding |
| `chain_recovery` | one transaction, one crash, the handler of `tx_test.go` | finding |
| `calendar` | two workloads over one event, chosen at the start: a join, a leave, two updates that share a field and a DELETE; or a create and a delete by one host, one more participant, a user deleted and one created | losses only by overlap, the history not ahead of the services, what confirmed sagas have written is there, no row comes back, the inductive invariant |
| `calendar_joins` | two joins of one event | finding |

Why the bounds are enough. An order violation needs two messages of a queue and
a gap needs a third; B's missing timestamp makes waiting for ever happen. Two
stages behind the commit stage have a first and a next stage. One crash is enough
where recovery may start beside it: the service of `Init` may be one that recovers,
so the crash may fall into a recovery or before it, and meet one copy or two; the
theorems of `TxExecutorProofs` hold for any number of crashes and copies. A receiver that occurs twice in one
chain, one that occurs once and one that does not occur are the cases of
`Timestamps`; the fourth request comes after a rejected one whose timestamps
were used again. In `chain` two transactions meet at two receivers, the least at
which they could disagree on their order or wait in a circle; one fault brings
one repeated request and so two requests for one timestamp, next to those of
the other transaction, with all their interleavings. Two
faults at once are beyond a run of five minutes; the theorems of `TxChainProofs`
hold for any number of them, and only `HealthyCompletes`, which speaks of runs
without a fault, rests on the instance alone. In the calendar every pair of
calls that share a column occurs in one of the two workloads, next to a DELETE of
its row; three transactions on one column bring nothing new, as the theorem
`LossExplained` confirms.
Named bounds: `MaxCrashes`, `MaxTries` (10 in the code; two already give two
executors), `MaxFaults`, `NumStages`, `N`, `K`, `Slots` (a stage has at most
one request more than there are faults, `ChainAssumption`), and the finite sets of messages,
requests and copies. Repeated requests count the clock of `TxChain` up to
`N` only: beyond the last timestamp no request can tell clocks apart.

A run names the properties it asks about; what is a conjunct of an inductive
invariant it checks (`DbCoversRows` of `IInv` in `coordinator`, `ChainTypeOK` and
`ParticipantIInv` of `ChainIInv` in `chain`) is checked with it and not listed again.

`CHECK_DEADLOCK FALSE`: requests are finitely many and each is answered once, so
the systems come to rest.

### Fairness

`TxOrigin` and `TxParticipant`: weak fairness of each caller, since the Go
scheduler runs every goroutine that can run, mutexes are held for a few
statements, and database statements return. Nothing is assumed of arrival: a
request that has not arrived is idle, and weak fairness brings it, because the
executor retries until it does.

`TxExecutor`: weak fairness of each copy; strong fairness of
the success of a stage, a complete function and a checkpoint, which the
manager's endless retries turn into progress (the flaky stages of
`executor_manager_test.go` do succeed at last); weak fairness of recovery.
`CommittedCompletes` needs a complete function for every stage: one without it
that fails for good is retried for ever. The bound on crashes is the usual
assumption that the service stays up long enough in the end.

`TxChain`: for `HealthyCompletes`, as little as can be: `ChainLiveSpec` says only
that the system does not stop while a step without a fault is possible and nothing
has failed. For the
findings the other way round, as much as the code justifies: `ChainFairSpec` has
weak fairness of every executor, every request at a receiver and recovery, and the
properties fail even so. No fault is ever forced to happen. There is no strong
fairness of a stage's success here: whether it succeeds is what the participants
decide. A stage function gives up at once on a request that can never be
granted, which stands for its client's time-out.

### Findings

Each is a run with `expect: violation`.

* `EveryRequestEnds` (`participant_dup_stall`): `TxParticipant` ignores the
  result of `Acquire`, and `Release` is deferred for a refused or doubly granted
  request too, so the clock passes a turn nobody had, or a duplicate blocks the
  head of the queue; later requests wait for ever. For the same reason a retry
  whose first attempt failed may commit after the next timestamp:
  `AppliedInOrder` needs timestamps that are not repeated.
* `CommittedCompletes` (`chain_lost_answer`): `UnwrapResult` panics on every
  error, `ErrTxAlreadyExecuted` included, and its lines that return the recorded
  result are not reachable. When the answer to a stage is lost after the commit,
  every retry is cut off, and the executor repeats the stage for ever.
  `checkpoint_test.go:91-92` expects the result of the second run.
* `OwnFailuresOnly` (`chain_gap`): timestamps for all stages are handed out before
  the commit stage runs. When it fails, nobody tells the later receivers to pass
  over the transaction, and all later ones of the partition wait for it for ever;
  `middleware/tx_test.go:277-307` expects every transaction to reach the last receiver.
* `CommittedCompletes` (`chain_recovery`): `TxCoordinator` puts no method and no
  endpoint into the executor context, nor does the handler of `tx_test.go`; a
  recovery request built from such a row cannot be sent.
  `recovery_test.go:168` expects all executors to be completed, of rows into
  which the test itself has put the endpoint.
* `TimestampsUnique` (`coordinator_serve_first`): `Recover` "should be called
  AFTER the server is running" (`recovery.go:52`), but a request served before
  the clocks are set gets timestamps that are taken.
* `JoinsKept` (`calendar_joins`): two overlapping joins read the same
  participants and write them back one after the other; both answer 204 and one
  is lost. `api/v1/tx_test.go:187` expects who has joined to be there.

Seen in the code and without a run of their own: a receiver that restarts has
clock 0 and waits for timestamps that are over (in `chain` this is one of the
faults, and only what survives it is checked); `middleware/tx_test.go:329`
registers `TxDedupBeforeHook` as an after hook; `:415` returns no error for an
answer of 300 and above (the faulty variant `ExecuteFailsUnnoticed`);
`CreateEventLog` runs the hooks of `GetEventLogs`.

## 4. Proofs

| theorem | module | statement |
|---|---|---|
| `TypeCorrect` | `TxOriginProofs` | `Spec => []TypeOK` |
| `Invariance` | `TxOriginProofs` | `UniqueTs` implies `Spec => []IInv` |
| `Exclusive`, `InOrder`, `WakeupKept`, `Admission` | `TxOriginProofs` | `MutualExclusion`, `NoOvertaking`, `NoLostWakeup`, `FreshNeverRefused` |
| `Refinement` | `TxOriginProofs` | `Spec => Turns!Spec` |
| `TypeCorrect`, `Invariance`, `Once`, `AnswersTrue` | `TxParticipantProofs` | `ParticipantTypeOK`, `ParticipantIInv`, `AppliedOnce`, `AnswerMeansApplied` |
| `Disciplined` | `TxParticipantProofs` | `UniqueTs` and `Numbered` imply `ParticipantSpec => OriginSpec`: the middleware implements `TxOrigin` |
| `CommitOrder` | `TxParticipantProofs` | from the same, `AppliedInOrder` |
| `Invariance`, `TypeCorrect`, `InputsMatch`, `InOrder`, `CheckpointTrue`, `Forward`, `AtRest` | `TxExecutorProofs` | `IInv`, `TypeOK`, `StageInputs`, `StagesInOrder`, `CheckpointBacked`, `CheckpointForward`, `AtRestCompleted` |
| `Invariance`, `TypeCorrect`, `Unique`, `Ordered`, `Gapless`, `MemoryCurrent`, `RestartCovers` | `TxCoordinatorProofs` | `IInv`, `TypeOK`, `TimestampsUnique`, `OneOrder`, `NoTimestampSkipped`, `MemoryMatchesDb`, `DbCoversRows`, from `~ServeFirst` |
| `ChainInvariance`, `ChainTypeCorrect`, `ChainAppliesOnce` | `TxChainProofs` | `ChainIInv`, `ChainTypeOK`, and `AppliedOnce`, `RecordedIffApplied`, `AnswerMeansApplied` of the composition |
| `ChainsSerial` | `TxChainProofs` | `ChainSpec => ChainsSpec`: the parts together implement `SerialChains` |
| `ExecutorsRefined`, `ExecutorsBacked` | `TxChainProofs` | `ChainSpec => ExecutorsSpec`: with real participants every executor implements `TxExecutor`; its `IInv` holds of all of them |
| `CompletedTruly`, `OrdersAgree` | `TxChainProofs` | `CompletedEverywhere`, `ReceiversAgree` |
| `Invariance`, `TypeCorrect`, `LossExplained`, `NoReturn`, `HistoryTrue`, `ConfirmedTrue` | `CalendarProofs` | `IInv`, `TypeOK`, `LostOnlyIfOverlapping`, `DeletedStaysDeleted`, `LogsTellTheTruth`, `ConfirmedIsDone` |

Origin manager. None of the safety properties is inductive. `IInv` adds that a grant is only given
for the present turn (`GrantedInTurn`), that queued and idle messages are ahead
of the clock, that served ones are not, and that every turn up to the clock was somebody's
(`TurnsCounted`). Mutual exclusion follows: two holders of a queue have the
timestamp `clock + 1`, and timestamps are unique. The refinement maps
`clock` to `turn`; `Receive` is `Enter`, `Advance` is `Leave`, `EnqueueLate` is
`TurnAway`, the rest stutters. Assumptions: `MsgAssumption` and, but for
types, `UniqueTs`. The run `participant_dup_stall` shows what happens without it.

Participant. At most once and "ok" means committed hold for any
number of requests per timestamp and need no order: `ParticipantIInv` adds that the
result table holds what has committed (`RecordedIffApplied`), that an
open transaction with an inserted result is alone with its key and that the key is
not in the table (`InsertAlone`), and that a dry run gets no further than the
before hook (`DryRunStops`). With unique timestamps the module maps to `TxOrigin`
(what a handler does is "served", what comes before `Acquire` is "idle"), so the
invariant proved there can be used here: the proof instantiates
`TxOriginProofs` under the mapping, shows that every step of the middleware
is one of a `TxOrigin` caller or a stutter, and gets the refinement and the
invariant together by induction. `Numbered` says that no timestamp is 0; it keeps
`Acquire` from refusing anybody. Commit order then follows: whoever commits holds
the queue, and what is applied belongs to requests that have had their turn
(`AppliedBySomeone`).

Executor. A context is *backed* when what it claims has happened: past
`Pending` the commit stage has had its effect and its `curr` first stages are
behind. `IInv` says that contexts in memory, in the row and in recovery
requests are backed, and that a request left in flight is one whose turn has
come (`InFlightDue`). A step starts from a backed context, so the stage it
runs is the next one on the right input (`NextStage`); effects are never undone, so backed
contexts stay backed (`BackedStable`), however old the copy is that a recovery
request carries. It holds for any number of stages, copies and crashes.
`CheckpointForward` needs two things more. `RowNotPassed`: while one copy works on the
row its context is not behind the row; there are no two before `Recover` has read the
row; and the first copy it starts after a crash starts from the row itself.
`ReadIsFloor`: what `Recover` has read is behind the row and every copy, for it is
read while there is one copy at most, and every later copy starts from it.
`AtRestCompleted` follows from `CompletionLast`: a copy writes its completion last, so
once a copy has ended, the row is completed or some copy has its own completion
still to write.

Coordinator. Whoever is between `Begin` and `SetClocks` holds the partition
alone (`InsideAlone`), so what it has read is what memory says
(`ReadIsCurrent`), and memory lags behind the database by at most one request that was
rejected (`MemoryLags`). Every row is therefore below memory's clocks, or is that
one request (`RowsBelow`), and new timestamps are above all others or equal to
its. That they leave no gap and do not collide with each other is `Numbering`:
the occurrences of a receiver in the chain are numbered 1, 2, ..., by counting
finite sets. After a crash, memory agrees with the database once the last clock
is set (`RecoverySets`).

Calendar. `LostOnlyIfOverlapping` is not inductive. `ReadsAreCurrent` adds that an open
transaction nobody has overtaken holds the current value of its column, and
that its row has been inserted, so no INSERT can create the row behind its
back: identities only grow. What it writes is then what an atomic update
writes. For the history, `HistoryInv` ties the sagas to the tables: a saga has
carried out every call it has passed (`CallsMade`); what was added is in `ideal`
and what was removed is not, unless an opposite call was carried out (`Kept`); the
event of a deleting saga is gone (`DeletedGone`); each entry belongs to a saga that
has done what the entry says (`LogsBacked`), and a saga that has written its
entry finds it (`LogsComplete`). `FieldsKept`, an induction of its own, says that
the fields of an update are in `ideal` unless the same field was updated again. `LogsTellTheTruth` and `ConfirmedIsDone` follow
because `db` and `ideal` agree on columns without a race. Assumptions:
`CalendarAssumption` alone.

The parts together. `ChainIInv` joins the invariants of three components and says
what ties them.

* Executors: for each transaction the invariant of `TxExecutor` (`Backing`), where
  "stage k has had its effect" now means that the receiver has
  applied it. It would not survive a receiver that applies a stage too early, so
  `CallNeeded` says that an executor only waits for the stage it needs, and
  `Underway` that any request still under way is for a needed stage, for one
  given up, or for one that has had its effect. `LifeKept` says when a
  recovered executor, or one that is gone, can exist.
* Participants: `ParticipantIInv` as it was proved for the middleware alone. Its
  proof has a parameter for the control states (`TypedBy`), because the composition adds
  "unsent" and "gone", so all its steps are cited again; new are only a request that
  is sent once more, one whose sender is gone, and the restart of a receiver.
* Order: `TurnsKept` is the invariant of the origin manager, restricted to
  receivers that are not disturbed. There each timestamp is used once
  (`SentOnce`), so the argument of `TxOriginProofs` holds; elsewhere nothing is claimed,
  since the clock may have passed requests that are still to come.

`ChainIInv` is inductive as it stands, and implies `IInv` of `TxExecutor` under
`Exec(n)` (`BackingMeans`, theorem `ExecutorsBacked`). Steps are
handled in groups: what an executor or its recovery does leaves the receivers alone
(`ReceiversUntouched`), what a receiver does leaves the executors alone
(`ServesKeepsRows`) except through the answer, and one transaction's steps leave
the others' alone (`UntouchedTx`).

For `ChainsSerial`, the only step that is not a stutter of `SerialChains` or a
disturbance is a commit; its stage is one the transaction has come to, and at an
undisturbed receiver whoever commits comes after all who have been there
(`CommitInTurn`). For `ExecutorsRefined`, a commit is the effect of a request its executor is
waiting for or has given up, hence `TakeEffect` of `TxExecutor` for that
transaction and a stutter for the others (`CommitTakesEffect`); an answer that
arrives finds the effect there, and executors change nothing of each other
(`OthersStutter`).
The assumption is `ChainAssumption` alone: any number of transactions, stages and
faults of the four kinds, with as many requests per stage as faults can cause.

Only model-checked: liveness (`EveryTurnComes`, `EveryRequestEnds`,
`CommittedCompletes`, `HealthyCompletes`, the fairness part of
`TurnsFairSpec`), since TLAPS does not reason about fairness and ENABLED.
`TxChainProofs` proves the facts about contexts that `TxExecutorProofs` has as
well (`BackedStable` and its like) once more, under `Exec(n)`: tlapm cannot
cite a theorem through an instance with a parameter.

## 5. Not modelled

* The instrumenter: it records visits for the tests and decides nothing. (Its
  call at the sender, `middleware/tx.go:192`, stands outside the partition lock,
  so `middleware/tx_test.go:314` compares a record that may be out of order.)
* Routers, service mains, formats, loggers, request validation, test
  containers: start-up wiring, encoding and output.
* REST handlers that only read, `UpdateName` (one UPDATE of a column nothing
  else touches), and the text of log entries.
* `Rollback` and `SyncRun` of the executor, which the manager never calls.
* The length of retry delays: `TxExecutor` allows any. The product in
  `ExponentialBackoffRetry` wraps in 64 bits from the 45th retry on, which TLC's
  32-bit integers cannot compute; a delay of 0 makes the executor retry without a
  pause and changes no property. The width of timestamps, counted up one by one.
* Filters' sets under a data race: any contents between two steps are allowed.
* A second sender partition in `TxChain`: partitions have queues, clocks and locks
  of their own and share nothing but the participants' tables, whose keys
  name the partition.

## 6. Plan

The order in which the modules were written is that of section 2; what was
planned is done. Worth doing next:

1. `TxChain` with two faults, if it can be made small enough, e.g. by letting a
   receiver's step be one where the other receivers cannot tell.
2. Theorems about a chain of `TxCoordinator` and `TxChain`: that the timestamps
   `TxChain` starts from are those the coordinator gives, which today rests on two
   theorems about `TxCoordinator` and the text above.
3. The safety half of `HealthyCompletes`, for any number of transactions: without
   a fault, some transaction that is not completed always has a step to take, so
   there is never a circle of waiting. Stated with the guards of the steps instead
   of ENABLED it is within reach of the prover.
