----------------------------- MODULE TxExecutor -----------------------------
(***************************************************************************)
(* One transaction of a coordinating service from the moment its executor  *)
(* row exists to its completion (pkg/cc/executor.go), with the checkpoints *)
(* of checkpoint.go, crashes of the service and the recovery of            *)
(* recovery.go.  The request handler around the executor is the one        *)
(* tx_test.go gives the coordinator (166-205): run the commit stage, save a *)
(* checkpoint, hand the executor to the manager, answer.                   *)
(*                                                                         *)
(* A copy is one TxExecutor object in memory.  More than one may work on   *)
(* the same row: Recover is called once the server is running, and may read *)
(* the row of an executor that is at work, and recoveryRequest repeats a   *)
(* request it has no answer to.                                            *)
(* Stage 0 is the commit stage, stages 1 .. NumStages follow it.  Stage    *)
(* functions are parameters of the executor, so every outcome they may     *)
(* have is allowed here.                                                   *)
(***************************************************************************)
EXTENDS Naturals

CONSTANTS
    Copies,         \* executor objects
    NumStages,      \* len(exec.stages)
    Completable,    \* the stages that have a complete function
    MaxCrashes,     \* bound on crashes of the service
    MaxTries        \* MaxRecoveryRetry

ASSUME ExecutorAssumption ==
    /\ NumStages \in Nat
    /\ Completable \subseteq 1 .. NumStages
    /\ MaxCrashes \in Nat
    /\ MaxTries \in Nat

VARIABLES
    row,        \* the TxExecutor row: the last checkpoint written
    mem,        \* [Copies -> execCtx]: the executor contexts in memory
    pc,         \* [Copies -> where the copy is]
    effects,    \* the <<stage, input>> pairs whose effect is at a participant
    inFlight,   \* the pairs sent but not served, whose sender waits no more
    forced,     \* the stages that were force-completed
    recovered,  \* the copies with execCtx.Recovered
    recovery,   \* the recovery of the row: see Recoveries
    crashes

vars == <<row, mem, pc, effects, inFlight, forced, recovered, recovery, crashes>>

Stages == 1 .. NumStages

\* execCtx.Rollback is never set; the other values of ExecStatus:
Statuses == {"Pending", "Committed", "Aborted", "ForceComplete", "Completed"}

\* The fields of TxExecutorContext the executor changes.  The input is named
\* by the number of stages it has gone through: 0 is the client's request.
Contexts ==
    [status : Statuses, curr : 0 .. NumStages, input : 0 .. NumStages + 1]

WithStatus(x, s) == [status |-> s, curr |-> x.curr, input |-> x.input]

NewContext == [status |-> "Pending", curr |-> 0, input |-> 0]

\* The handler is in Run, saves its checkpoint, sends to the manager; the
\* manager's goroutine is in one of its two loops, saves, sleeps before it
\* sends the executor back, saves the completion.
HandlerPCs == {"running", "saving", "sending"}
PCs == HandlerPCs \cup
       {"gone", "failed", "normal", "force", "normalSave", "forceSave",
        "retrying", "completing", "ended"}

\* Recover has not read the rows since the service was started, has found nothing
\* to do or is done, or sends requests with the context it has read.
Recoveries ==
    [phase : {"none", "unread", "requesting"}, ctx : Contexts, tries : 0 .. MaxTries]

\* Objects that are not in use are all the same, so one stands for the others.
AnyCopy(S) == CHOOSE c \in S : TRUE

Goto(c, label) == pc' = [pc EXCEPT ![c] = label]

-----------------------------------------------------------------------------
\* The executor's row is there and its handler is at work.  The service may be one
\* that has been running for long, or one whose Recover has still to read the rows.
Init ==
    /\ row = NewContext
    /\ mem = [c \in Copies |-> NewContext]
    /\ pc = [c \in Copies |-> IF c = AnyCopy(Copies) THEN "running" ELSE "gone"]
    /\ effects = {}
    /\ inFlight = {}
    /\ forced = {}
    /\ recovered = {}
    /\ recovery \in [phase : {"none", "unread"}, ctx : {NewContext}, tries : {0}]
    /\ crashes = 0

(* The requests of the stages *)

\* Faulty variant: Next goes one stage too far.
HasNextOffByOne(c) == mem[c].curr <= NumStages

HasNext(c) == mem[c].curr < NumStages

Executing(c) ==
    /\ pc[c] = "normal"
    /\ HasNext(c)
    /\ mem[c].status # "ForceComplete"

\* The request copy c waits for the answer of.
Requested(c) ==
    IF Executing(c)
    THEN {<<mem[c].curr + 1, mem[c].input>>}
    ELSE IF pc[c] = "running" /\ mem[c].status = "Pending" /\ c \notin recovered
    THEN {<<0, mem[c].input>>}
    ELSE {}

Requests == UNION {Requested(c) : c \in Copies}

Serve(requests) ==
    /\ effects' = effects \cup requests
    /\ inFlight' = inFlight \ requests

\* What is in flight when nobody waits for these requests any more.
Abandon(requests) == inFlight' = inFlight \cup (requests \ effects)

\* A participant serves a request, whether somebody still waits for it or not.
TakeEffect ==
    /\ \E e \in inFlight \cup Requests : Serve({e})
    /\ UNCHANGED <<row, mem, pc, forced, recovered, recovery, crashes>>

(* The request handler *)

\* Run on a context that is past the commit stage only returns its result.  (An
\* aborted context never gets here: this handler writes none to the row, and
\* Recover passes over those that executor_manager_test.go:133-136 writes.)
RunCommitted(c) ==
    /\ pc[c] = "running"
    /\ mem[c].status \in {"Committed", "ForceComplete", "Completed"}
    /\ Goto(c, "saving")
    /\ UNCHANGED <<row, mem, effects, inFlight, forced, recovered, recovery, crashes>>

\* Faulty variant: Run does not look at the status.
RunOkAnyStatus(c) ==
    /\ pc[c] = "running"
    /\ c \in recovered => <<0, 0>> \in effects
    /\ effects' = effects \cup {<<0, 0>>}
    /\ mem' = [mem EXCEPT ![c].status = "Committed"]
    /\ Goto(c, "saving")
    /\ UNCHANGED <<row, inFlight, forced, recovered, recovery, crashes>>

\* The context after the commit stage.
CommittedContext(x) == [status |-> "Committed", curr |-> x.curr, input |-> 1]

\* The commit stage succeeds.  A recovered pending context runs it as a dry
\* run, which only finds the result of an earlier execution.
RunOk(c) ==
    /\ pc[c] = "running"
    /\ mem[c].status = "Pending"
    /\ c \in recovered => <<0, 0>> \in effects
    /\ Serve({<<0, mem[c].input>>})
    /\ mem' = [mem EXCEPT ![c] = CommittedContext(@)]
    /\ Goto(c, "saving")
    /\ UNCHANGED <<row, forced, recovered, recovery, crashes>>

\* The commit stage fails; its request, unless it was a dry run, may have been
\* served or still be.  The handler answers with an error and saves nothing.
RunFails(c) ==
    /\ pc[c] = "running"
    /\ mem[c].status = "Pending"
    /\ Abandon(Requested(c))
    /\ mem' = [mem EXCEPT ![c] = WithStatus(@, "Aborted")]
    /\ Goto(c, "failed")
    /\ UNCHANGED <<row, effects, forced, recovered, recovery, crashes>>

\* _ = executor.Checkpoint(): a failure goes unnoticed.
HandlerSave(c) ==
    /\ pc[c] = "saving"
    /\ row' \in {row, mem[c]}
    /\ Goto(c, "sending")
    /\ UNCHANGED <<mem, effects, inFlight, forced, recovered, recovery, crashes>>

(* The executor manager *)

\* The manager's loop takes an executor and starts the goroutine its status
\* calls for.
Take(c) ==
    /\ pc[c] \in {"sending", "retrying"}
    /\ Goto(c, IF mem[c].status = "ForceComplete" THEN "force" ELSE "normal")
    /\ UNCHANGED <<row, mem, effects, inFlight, forced, recovered, recovery, crashes>>

\* Faulty variant: the output is not handed on to the next stage.
PassedKeepingInput(x) == [x EXCEPT !.curr = @ + 1]

\* The context after the stage at mem[c].curr has been passed.
Passed(x) == [status |-> x.status, curr |-> x.curr + 1, input |-> x.input + 1]

\* The normal loop meets a force-complete status and goes for the other one.
SwitchLoop(c) ==
    /\ pc[c] = "normal"
    /\ HasNext(c)
    /\ mem[c].status = "ForceComplete"
    /\ Goto(c, "retrying")
    /\ UNCHANGED <<row, mem, effects, inFlight, forced, recovered, recovery, crashes>>

\* exec.Execute succeeds.
ExecuteOk(c) ==
    /\ Executing(c)
    /\ Serve(Requested(c))
    /\ mem' = [mem EXCEPT ![c] = Passed(@)]
    /\ Goto(c, "normalSave")
    /\ UNCHANGED <<row, forced, recovered, recovery, crashes>>

\* Faulty variant: an error does not keep Execute from going on.
ExecuteFailsPassed(c) ==
    /\ Executing(c)
    /\ Abandon(Requested(c))
    /\ mem' = [mem EXCEPT ![c] = Passed(@)]
    /\ Goto(c, "retrying")
    /\ UNCHANGED <<row, effects, forced, recovered, recovery, crashes>>

\* exec.Execute fails, or gives up waiting for an answer: the stage is retried
\* and the request may have been served or still be.
ExecuteFails(c) ==
    /\ Executing(c)
    /\ Abandon(Requested(c))
    /\ Goto(c, "retrying")
    /\ UNCHANGED <<row, mem, effects, forced, recovered, recovery, crashes>>

\* ErrTxExecUnrecoverable: the stage function has given its request up for good.
ExecuteUnrecoverable(c) ==
    /\ Executing(c)
    /\ Abandon(Requested(c))
    /\ mem' = [mem EXCEPT ![c] = WithStatus(@, "ForceComplete")]
    /\ Goto(c, "normalSave")
    /\ UNCHANGED <<row, effects, forced, recovered, recovery, crashes>>

\* exec.ForceComplete succeeds.
CompleteOk(c) ==
    /\ pc[c] = "force"
    /\ HasNext(c)
    /\ mem[c].curr + 1 \in Completable
    /\ forced' = forced \cup {mem[c].curr + 1}
    /\ mem' = [mem EXCEPT ![c] = Passed(@)]
    /\ Goto(c, "forceSave")
    /\ UNCHANGED <<row, effects, inFlight, recovered, recovery, crashes>>

\* exec.ForceComplete fails, or there is no complete function.
CompleteFails(c) ==
    /\ pc[c] = "force"
    /\ HasNext(c)
    /\ Goto(c, "retrying")
    /\ UNCHANGED <<row, mem, effects, inFlight, forced, recovered, recovery, crashes>>

\* All stages are behind.
Finish(c) ==
    /\ pc[c] \in {"normal", "force"}
    /\ ~HasNext(c)
    /\ mem' = [mem EXCEPT ![c] = WithStatus(@, "Completed")]
    /\ Goto(c, "completing")
    /\ UNCHANGED <<row, effects, inFlight, forced, recovered, recovery, crashes>>

\* A checkpoint is written.
CheckpointOk(c) ==
    /\ pc[c] \in {"normalSave", "forceSave", "completing"}
    /\ row' = mem[c]
    /\ Goto(c, CASE pc[c] = "normalSave" -> "normal"
                 [] pc[c] = "forceSave"  -> "force"
                 [] OTHER                -> "ended")
    /\ UNCHANGED <<mem, effects, inFlight, forced, recovered, recovery, crashes>>

\* Faulty variant: an executor whose checkpoint fails is not sent back.
CheckpointFailsGivingUp(c) ==
    /\ pc[c] \in {"normalSave", "forceSave", "completing"}
    /\ row' \in {row, mem[c]}
    /\ Goto(c, "ended")
    /\ UNCHANGED <<mem, effects, inFlight, forced, recovered, recovery, crashes>>

\* A checkpoint returns an error, written or not: the executor is sent back.
CheckpointFails(c) ==
    /\ pc[c] \in {"normalSave", "forceSave", "completing"}
    /\ row' \in {row, mem[c]}
    /\ Goto(c, "retrying")
    /\ UNCHANGED <<mem, effects, inFlight, forced, recovered, recovery, crashes>>

(* Crash and recovery *)

\* The requests of the stages outlive the service that has sent them.
Crash ==
    /\ crashes < MaxCrashes
    /\ crashes' = crashes + 1
    /\ pc' = [c \in Copies |-> "gone"]
    /\ recovery' = [phase |-> "unread", ctx |-> NewContext, tries |-> 0]
    /\ mem' = [c \in Copies |-> NewContext]
    /\ recovered' = {}
    /\ Abandon(Requests)
    /\ UNCHANGED <<row, effects, forced>>

\* Recover, some time after the service was started: the row is read once, and
\* unless it is aborted or completed a goroutine starts to request its
\* continuation, also when an executor is at work on it already.
Recover ==
    /\ recovery.phase = "unread"
    /\ recovery' =
          [phase |-> IF row.status \in {"Aborted", "Completed"} THEN "none"
                                                               ELSE "requesting",
           ctx |-> row, tries |-> 0]
    /\ UNCHANGED <<row, mem, pc, effects, inFlight, forced, recovered, crashes>>

\* A recovery request's handler holds the lock of its sender partition.  That of
\* the transaction's own request has let go of it when the row exists.
PartitionFree == \A c \in recovered : pc[c] \notin HandlerPCs

\* recoveryRequest sends the context that was read, again when an earlier request
\* has timed out.
RecoveryRequest(c) ==
    /\ recovery.phase = "requesting"
    /\ recovery.tries < MaxTries
    /\ pc[c] = "gone" /\ c = AnyCopy({d \in Copies : pc[d] = "gone"})
    /\ PartitionFree
    /\ recovery' = [recovery EXCEPT !.tries = @ + 1]
    /\ mem' = [mem EXCEPT ![c] = recovery.ctx]
    /\ recovered' = recovered \cup {c}
    /\ Goto(c, "running")
    /\ UNCHANGED <<row, effects, inFlight, forced, crashes>>

\* The request is answered in time, with whatever status, or is given up.
RecoveryAnswered ==
    /\ recovery.phase = "requesting"
    /\ recovery.tries > 0
    /\ PartitionFree
    /\ recovery' = [recovery EXCEPT !.phase = "none"]
    /\ UNCHANGED <<row, mem, pc, effects, inFlight, forced, recovered, crashes>>

-----------------------------------------------------------------------------
Step(c) ==
    \/ RunCommitted(c) \/ RunOk(c) \/ RunFails(c) \/ HandlerSave(c)
    \/ Take(c) \/ SwitchLoop(c)
    \/ ExecuteOk(c) \/ ExecuteFails(c) \/ ExecuteUnrecoverable(c)
    \/ CompleteOk(c) \/ CompleteFails(c)
    \/ Finish(c) \/ CheckpointOk(c) \/ CheckpointFails(c)

Next ==
    \/ \E c \in Copies : Step(c) \/ RecoveryRequest(c)
    \/ TakeEffect
    \/ Crash
    \/ Recover
    \/ RecoveryAnswered

Spec == Init /\ [][Next]_vars

\* Goroutines are scheduled and retried for ever; a stage, a complete function
\* or a checkpoint that is tried again and again succeeds some time (the flaky
\* stages of executor_manager_test.go do); a restarted service calls Recover
\* and its first request arrives.
FairSpec ==
    /\ Spec
    /\ \A c \in Copies :
          /\ WF_vars(Step(c))
          /\ SF_vars(ExecuteOk(c) \/ ExecuteUnrecoverable(c) \/ CompleteOk(c))
          /\ SF_vars(CheckpointOk(c))
    /\ WF_vars(Recover)
    /\ WF_vars(\E c \in Copies : RecoveryRequest(c))

-----------------------------------------------------------------------------
(* Properties                                                              *)

TypeOK ==
    /\ row \in Contexts
    /\ mem \in [Copies -> Contexts]
    /\ pc \in [Copies -> PCs]
    /\ effects \subseteq (0 .. NumStages) \X (0 .. NumStages + 1)
    /\ inFlight \subseteq (0 .. NumStages) \X (0 .. NumStages + 1)
    /\ forced \subseteq Stages
    /\ recovered \subseteq Copies
    /\ recovery \in Recoveries
    /\ crashes \in 0 .. MaxCrashes

\* Stage k is behind: its effect is at the participant or it was completed by
\* force.
Behind(k) == <<k, k>> \in effects \/ k \in forced

\* Each stage acts on the output of the stage before it, also when a crash, a
\* retry or a second copy makes it run again.
StageInputs == \A e \in effects : e[1] = e[2]

\* A stage's effect appears only after the commit stage's and after every
\* earlier stage is behind, whatever is retried, crashes or runs twice.
StagesInOrder ==
    /\ \A e \in effects : <<0, 0>> \in effects /\ \A j \in 1 .. (e[1] - 1) : Behind(j)
    /\ \A k \in forced  : <<0, 0>> \in effects /\ \A j \in 1 .. (k - 1) : Behind(j)

\* A context is backed when what it claims has happened.
Backed(x) ==
    /\ x.status # "Aborted"
    /\ x.status = "Pending" => x.curr = 0 /\ x.input = 0
    /\ x.status # "Pending" =>
          /\ x.input = x.curr + 1
          /\ <<0, 0>> \in effects
          /\ \A k \in 1 .. x.curr : Behind(k)
    /\ x.status = "Completed" => x.curr = NumStages

\* A checkpoint is never ahead of the participants: recovery skips no stage.
CheckpointBacked == Backed(row)

Rank(status) ==
    CASE status = "Pending"       -> 0
      [] status = "Committed"     -> 1
      [] status = "ForceComplete" -> 2
      [] OTHER                    -> 3

\* x is no later a checkpoint than y.
NoLater(x, y) == x.curr <= y.curr /\ Rank(x.status) <= Rank(y.status)

\* Two copies have worked on the row since the service was last started.
Repeated ==
    \E c, d \in Copies : c # d /\ pc[c] # "gone" /\ pc[d] # "gone"

\* A checkpoint is taken back, even that of a completed transaction, only when a
\* recovery request has put a second copy to work, because Recover has read the row
\* of an executor at work or the request is repeated; and however the copies
\* overtake each other, never behind what Recover has read.
CheckpointForward ==
    [][NoLater(recovery.ctx, row') /\ (Repeated \/ NoLater(row, row'))]_row

\* What a second copy takes back is made good: when no copy is at work any more and
\* one has come to its end, the row is that of a completed transaction, whichever
\* copy has written to it last.
AtRestCompleted ==
    /\ \A c \in Copies : pc[c] \in {"gone", "failed", "ended"}
    /\ \E c \in Copies : pc[c] = "ended"
    => row.status = "Completed"

\* A transaction whose commit has been recorded is carried to its end, through
\* failures, crashes and a second executor at work on its row.
CommittedCompletes ==
    row.status \in {"Committed", "ForceComplete"} ~> row.status = "Completed"

-----------------------------------------------------------------------------
(* The inductive invariant behind the safety properties                    *)

\* Every live context is backed; a failed Run leaves its copy for good.
MemBacked == \A c \in Copies : pc[c] # "failed" => Backed(mem[c])

\* Past Run, a copy's transaction is committed.
PastRunCommitted ==
    \A c \in Copies :
        pc[c] \notin {"gone", "running", "failed"} => mem[c].status # "Pending"

\* What recovery requests carry was a checkpoint once.
RecoveryBacked == Backed(recovery.ctx)

\* A request that may still be served is due: a late effect comes in order.
InFlightDue ==
    \A e \in inFlight :
        /\ e[1] = e[2]
        /\ e[1] > 0 => <<0, 0>> \in effects /\ \A j \in 1 .. (e[1] - 1) : Behind(j)

\* At work on a context that is worth something.
Live(c) == pc[c] \notin {"gone", "failed"}

\* Only a second copy can have left a copy behind the row, and there is none before
\* Recover has read it; the first one to be recovered starts from the row itself.
RowNotPassed ==
    /\ \A c \in Copies : Live(c) => Repeated \/ NoLater(row, mem[c])
    /\ recovery.phase = "unread" => ~Repeated
    /\ recovery.phase = "requesting" /\ (\A c \in Copies : pc[c] = "gone")
          => recovery.ctx = row

\* Neither the row nor a copy is behind what Recover has read.
ReadIsFloor ==
    /\ NoLater(recovery.ctx, row)
    /\ \A c \in Copies : Live(c) => NoLater(recovery.ctx, mem[c])

\* A copy that has still to write its completion.
Unfinished(c) == Live(c) /\ pc[c] \notin {"running", "saving", "ended"}

\* A copy writes its completion last, and whoever has taken back another one's has
\* its own still to write.
CompletionLast ==
    /\ \A c \in Copies : pc[c] = "completing" => mem[c].status = "Completed"
    /\ (\E c \in Copies : pc[c] = "ended") =>
          row.status = "Completed" \/ \E c \in Copies : Unfinished(c)

IInv ==
    /\ TypeOK
    /\ StageInputs
    /\ StagesInOrder
    /\ CheckpointBacked
    /\ MemBacked
    /\ PastRunCommitted
    /\ RecoveryBacked
    /\ InFlightDue

=============================================================================
