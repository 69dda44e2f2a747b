-------------------------- MODULE TxExecutorProofs --------------------------
(***************************************************************************)
(* Theorems about the executor, for every number of stages, executor       *)
(* objects, crashes and repeated recovery requests.                        *)
(*                                                                         *)
(* The argument: a context in memory, in the row or in a recovery request  *)
(* only claims what has happened (Backed), and what has happened is never  *)
(* undone; so whichever context a step starts from, the stage it runs is   *)
(* the next one on the right input.                                        *)
(***************************************************************************)
EXTENDS TxExecutor, TLAPS

\* The part of the invariant that speaks of the participants only.
ParticipantsInv ==
    /\ effects \subseteq (0 .. NumStages) \X (0 .. NumStages + 1)
    /\ inFlight \subseteq (0 .. NumStages) \X (0 .. NumStages + 1)
    /\ forced \subseteq Stages
    /\ StageInputs
    /\ StagesInOrder
    /\ InFlightDue

\* A request that may take effect: for the right input, with all before it behind.
Due(e) ==
    /\ e \in (0 .. NumStages) \X (0 .. NumStages + 1)
    /\ e[1] = e[2]
    /\ e[1] > 0 => <<0, 0>> \in effects /\ \A j \in 1 .. (e[1] - 1) : Behind(j)

\* The part of a context's type that proofs compute with.
LEMMA ContextFields ==
    ASSUME NEW x \in Contexts
    PROVE  /\ x.status \in Statuses
           /\ x.curr \in 0 .. NumStages
           /\ x.input \in 0 .. NumStages + 1
  BY DEF Contexts

\* The context the commit stage leaves.
LEMMA CommittedFields ==
    ASSUME NEW x \in Contexts
    PROVE  /\ CommittedContext(x) \in Contexts
           /\ CommittedContext(x).status = "Committed"
           /\ CommittedContext(x).curr = x.curr
           /\ CommittedContext(x).input = 1
  BY ExecutorAssumption DEF CommittedContext, Contexts, Statuses

\* A context with a new status.
LEMMA WithStatusFields ==
    ASSUME NEW x \in Contexts, NEW s \in Statuses
    PROVE  /\ WithStatus(x, s) \in Contexts
           /\ WithStatus(x, s).status = s
           /\ WithStatus(x, s).curr = x.curr
           /\ WithStatus(x, s).input = x.input
  BY DEF WithStatus, Contexts

\* The context after a stage that was the next one.
LEMMA PassedFields ==
    ASSUME NEW x \in Contexts, x.curr + 1 \in Stages, x.input = x.curr + 1
    PROVE  /\ Passed(x) \in Contexts
           /\ Passed(x).status = x.status
           /\ Passed(x).curr = x.curr + 1
           /\ Passed(x).input = x.input + 1
  BY ExecutorAssumption DEF Passed, Contexts, Stages

\* Effects are never undone, so a backed context stays backed.
LEMMA BackedStable ==
    ASSUME effects \subseteq effects', forced \subseteq forced'
    PROVE  \A x \in Contexts : Backed(x) => Backed(x)'
  BY DEF Backed, Behind

\* Stages that are behind stay behind.
LEMMA OrderStable ==
    ASSUME StagesInOrder, effects \subseteq effects', forced \subseteq forced',
           \A e \in effects' : e \in effects \/
               (<<0, 0>> \in effects' /\ \A j \in 1 .. (e[1] - 1) : Behind(j)),
           \A k \in forced' : k \in forced \/
               (<<0, 0>> \in effects' /\ \A j \in 1 .. (k - 1) : Behind(j))
    PROVE  StagesInOrder'
  BY DEF StagesInOrder, Behind

\* What is due stays due.
LEMMA DueStable ==
    ASSUME effects \subseteq effects', forced \subseteq forced'
    PROVE  \A e : Due(e) => Due(e)'
  BY DEF Due, Behind

\* In every state of the invariant, what is in flight is due.
LEMMA InFlightIsDue ==
    ASSUME IInv
    PROVE  ParticipantsInv /\ \A e \in inFlight : Due(e)
  BY DEF IInv, TypeOK, ParticipantsInv, InFlightDue, Due

\* Stage k = curr + 1 of a backed context is the next one and gets its input.
LEMMA NextStage ==
    ASSUME IInv, NEW c \in Copies, pc[c] \in {"normal", "force"}, HasNext(c)
    PROVE  /\ mem[c] \in Contexts
           /\ mem[c].status \in {"Committed", "ForceComplete"}
           /\ mem[c].curr \in Nat
           /\ mem[c].curr + 1 \in Stages
           /\ mem[c].input = mem[c].curr + 1
           /\ <<0, 0>> \in effects
           /\ \A j \in 1 .. mem[c].curr : Behind(j)
  <1>1. mem[c] \in Contexts /\ Backed(mem[c]) /\ mem[c].status # "Pending"
    BY DEF IInv, TypeOK, MemBacked, PastRunCommitted
  <1> QED
    BY <1>1, ContextFields, ExecutorAssumption
       DEF HasNext, Backed, Statuses, Stages

\* What a copy waits for is the next stage on its input.
LEMMA RequestedDue ==
    ASSUME IInv, NEW c \in Copies, NEW e \in Requested(c)
    PROVE  Due(e)
  <1>1. CASE Executing(c)
    <2>1. e = <<mem[c].curr + 1, mem[c].curr + 1>> /\ mem[c].curr + 1 \in Stages
      BY <1>1, NextStage DEF Requested, Executing
    <2> QED
      BY <1>1, <2>1, NextStage, ExecutorAssumption DEF Executing, Stages, Due
  <1>2. CASE ~Executing(c)
    <2>1. e = <<0, 0>>
      BY <1>2 DEF Requested, IInv, MemBacked, Backed
    <2> QED
      BY <2>1, ExecutorAssumption DEF Due
  <1> QED
    BY <1>1, <1>2

\* Giving up requests leaves only due ones in flight.
LEMMA AbandonKept ==
    ASSUME IInv, NEW S, \A e \in S : Due(e), Abandon(S), UNCHANGED <<effects, forced>>
    PROVE  ParticipantsInv'
  <1>1. ParticipantsInv /\ \A e \in inFlight' : Due(e)'
    BY InFlightIsDue DEF Abandon, Due, Behind
  <1> QED
    BY <1>1 DEF ParticipantsInv, StageInputs, StagesInOrder, InFlightDue, Due, Behind

\* A participant that serves due requests keeps what holds of effects.
LEMMA ServeKept ==
    ASSUME IInv, NEW S, \A e \in S : Due(e), Serve(S), UNCHANGED forced
    PROVE  effects \subseteq effects' /\ ParticipantsInv'
  <1>1. /\ effects \subseteq effects'
        /\ \A e \in effects' : e \in effects \/ Due(e)
        /\ inFlight' \subseteq inFlight
    BY DEF Serve
  <1>2. effects' \subseteq (0 .. NumStages) \X (0 .. NumStages + 1) /\ StageInputs'
    BY <1>1 DEF IInv, TypeOK, StageInputs, Due
  <1>3. StagesInOrder'
    <2>1. ASSUME NEW e \in effects', e \notin effects
          PROVE  <<0, 0>> \in effects' /\ \A j \in 1 .. (e[1] - 1) : Behind(j)
      <3>1. Due(e) /\ e = <<e[1], e[2]>> /\ e[1] \in Nat
        BY <1>1, <2>1, ExecutorAssumption DEF Due
      <3> QED
        BY <1>1, <2>1, <3>1 DEF Due
    <2> QED
      BY <1>1, <2>1, OrderStable DEF IInv
  <1>4. InFlightDue'
    BY <1>1, InFlightIsDue, DueStable DEF InFlightDue, Due
  <1> QED
    BY <1>1, <1>2, <1>3, <1>4 DEF IInv, TypeOK, ParticipantsInv

\* A step that changes no effect, moves one copy on without a new context, and
\* at most writes that copy's context into the row.
LEMMA QuietStep ==
    ASSUME IInv, NEW c \in Copies, NEW label \in PCs \ {"failed", "gone", "running"},
           Goto(c, label), row' \in {row, mem[c]}, pc[c] # "failed",
           mem[c].status # "Pending",
           UNCHANGED <<mem, effects, inFlight, forced, recovered, recovery, crashes>>
    PROVE  IInv'
  <1> USE DEF IInv, TypeOK, Goto
  <1>1. TypeOK'
    OBVIOUS
  <1>2. StageInputs' /\ StagesInOrder' /\ InFlightDue'
    BY DEF StageInputs, StagesInOrder, InFlightDue, Behind
  <1>3. CheckpointBacked'
    BY DEF CheckpointBacked, MemBacked, Backed, Behind
  <1>4. MemBacked' /\ RecoveryBacked'
    BY DEF MemBacked, RecoveryBacked, Backed, Behind
  <1>5. PastRunCommitted'
    BY DEF PastRunCommitted
  <1> QED
    BY <1>1, <1>2, <1>3, <1>4, <1>5

\* Forcing the next stage keeps what holds of effects.
LEMMA ForcedKept ==
    ASSUME IInv, NEW c \in Copies, pc[c] \in {"normal", "force"}, HasNext(c),
           forced' = forced \cup {mem[c].curr + 1}, UNCHANGED <<effects, inFlight>>
    PROVE  ParticipantsInv'
  <1>1. /\ mem[c].curr \in Nat
        /\ mem[c].curr + 1 \in Stages
        /\ <<0, 0>> \in effects
        /\ \A j \in 1 .. mem[c].curr : Behind(j)
    BY NextStage
  <1>2. forced' \subseteq Stages
    BY <1>1 DEF IInv, TypeOK
  <1>3. StageInputs'
    BY DEF IInv, StageInputs
  <1>4. StagesInOrder'
    BY <1>1, OrderStable DEF IInv
  <1>5. InFlightDue'
    BY InFlightIsDue, DueStable DEF InFlightDue, Due
  <1> QED
    BY <1>2, <1>3, <1>4, <1>5 DEF ParticipantsInv, IInv, TypeOK

\* A step that gives copy c a new context x and moves it on.
LEMMA ContextStep ==
    ASSUME IInv, NEW c \in Copies, NEW x \in Contexts,
           NEW label \in PCs \ {"gone", "running"},
           mem' = [mem EXCEPT ![c] = x], Goto(c, label),
           label # "failed" => Backed(x)' /\ x.status # "Pending",
           effects \subseteq effects', forced \subseteq forced',
           ParticipantsInv', UNCHANGED <<row, recovered, recovery, crashes>>
    PROVE  IInv'
  <1>1. /\ mem \in [Copies -> Contexts] /\ pc \in [Copies -> PCs]
        /\ row \in Contexts /\ recovery.ctx \in Contexts
    BY DEF IInv, TypeOK, Recoveries
  <1>2. /\ mem' = [d \in Copies |-> IF d = c THEN x ELSE mem[d]]
        /\ pc' = [d \in Copies |-> IF d = c THEN label ELSE pc[d]]
    BY <1>1 DEF Goto
  <1>3. TypeOK'
    BY <1>1, <1>2 DEF IInv, TypeOK, ParticipantsInv
  <1>4. CheckpointBacked' /\ RecoveryBacked'
    BY <1>1, BackedStable DEF IInv, CheckpointBacked, RecoveryBacked, Backed, Behind
  <1>5. MemBacked'
    <2> SUFFICES ASSUME NEW d \in Copies, pc'[d] # "failed"
                 PROVE  Backed(mem[d])'
      BY DEF MemBacked
    <2>1. CASE d = c
      BY <1>2, <2>1 DEF Backed, Behind
    <2>2. CASE d # c
      BY <1>1, <1>2, <2>2, BackedStable DEF IInv, MemBacked, Backed, Behind
    <2> QED
      BY <2>1, <2>2
  <1>6. PastRunCommitted'
    BY <1>2 DEF IInv, PastRunCommitted
  <1> QED
    BY <1>3, <1>4, <1>5, <1>6 DEF IInv, ParticipantsInv

\* The commit stage: its effect is first and on the client's request.
LEMMA RunKeeps ==
    ASSUME IInv, NEW c \in Copies, RunOk(c) \/ RunFails(c)
    PROVE  IInv'
  <1> USE ExecutorAssumption
  <1>1. /\ pc[c] = "running" /\ mem[c].status = "Pending"
        /\ mem[c] \in Contexts /\ mem[c].curr = 0 /\ mem[c].input = 0
    BY DEF RunOk, RunFails, IInv, TypeOK, MemBacked, Backed
  <1>2. effects \subseteq effects' /\ forced' = forced
    BY <1>1 DEF RunOk, RunFails, Serve
  <1>3. ParticipantsInv'
    <2>1. Due(<<0, mem[c].input>>)
      BY <1>1 DEF Due
    <2>2. CASE RunOk(c)
      BY <2>1, <2>2, ServeKept DEF RunOk
    <2>3. CASE RunFails(c)
      BY <2>3, RequestedDue, AbandonKept DEF RunFails
    <2> QED
      BY <2>2, <2>3
  <1>5. CASE RunOk(c)
    <2>1. PICK x \in Contexts :
             /\ x.status = "Committed" /\ x.curr = 0 /\ x.input = 1
             /\ mem' = [mem EXCEPT ![c] = x]
      BY <1>1, <1>5, CommittedFields DEF RunOk
    <2>2. Goto(c, "saving")
      BY <1>5 DEF RunOk
    <2>3. <<0, 0>> \in effects'
      BY <1>1, <1>5 DEF RunOk, Serve
    <2>4. Backed(x)'
      BY <2>1, <2>3 DEF Backed
    <2> QED
      BY <1>2, <1>3, <1>5, <2>1, <2>2, <2>4, ContextStep
         DEF RunOk, PCs, HandlerPCs
  <1>6. CASE RunFails(c)
    <2>1. PICK x \in Contexts : mem' = [mem EXCEPT ![c] = x]
      BY <1>1, <1>6, WithStatusFields DEF RunFails, Statuses
    <2>2. Goto(c, "failed")
      BY <1>6 DEF RunFails
    <2> QED
      BY <1>2, <1>3, <1>6, <2>1, <2>2, ContextStep
         DEF RunFails, PCs, HandlerPCs
  <1> QED
    BY <1>5, <1>6

\* A stage is passed, executed or completed by force.
LEMMA PassKeeps ==
    ASSUME IInv, NEW c \in Copies, ExecuteOk(c) \/ CompleteOk(c)
    PROVE  IInv'
  <1>1. pc[c] \in {"normal", "force"} /\ HasNext(c)
    BY DEF ExecuteOk, CompleteOk, Executing
  <1>2. /\ mem[c] \in Contexts
        /\ mem[c].status \in {"Committed", "ForceComplete"}
        /\ mem[c].curr \in Nat
        /\ mem[c].curr + 1 \in Stages
        /\ mem[c].input = mem[c].curr + 1
        /\ <<0, 0>> \in effects
        /\ \A j \in 1 .. mem[c].curr : Behind(j)
    BY <1>1, NextStage
  <1>3. PICK x \in Contexts :
           /\ x.status = mem[c].status
           /\ x.curr = mem[c].curr + 1
           /\ x.input = x.curr + 1
           /\ mem' = [mem EXCEPT ![c] = x]
    <2>1. mem' = [mem EXCEPT ![c] = Passed(mem[c])]
      BY DEF ExecuteOk, CompleteOk, IInv, TypeOK
    <2> QED
      BY <1>2, <2>1, PassedFields
  <1>4. effects \subseteq effects' /\ forced \subseteq forced' /\ ParticipantsInv'
    <2>1. CASE ExecuteOk(c)
      BY <2>1, RequestedDue, ServeKept DEF ExecuteOk
    <2>2. CASE CompleteOk(c)
      BY <1>1, <2>2, ForcedKept DEF CompleteOk
    <2> QED
      BY <2>1, <2>2
  <1>5. Backed(x)'
    <2>1. \A j \in 1 .. x.curr : <<j, j>> \in effects' \/ j \in forced'
      <3>1. <<x.curr, x.curr>> \in effects' \/ x.curr \in forced'
        BY <1>2, <1>3 DEF ExecuteOk, CompleteOk, Serve, Requested
      <3>2. \A j \in 1 .. mem[c].curr : <<j, j>> \in effects' \/ j \in forced'
        BY <1>2, <1>4 DEF Behind
      <3>3. \A j \in 1 .. x.curr : j \in 1 .. mem[c].curr \/ j = x.curr
        BY <1>2, <1>3
      <3> QED
        BY <3>1, <3>2, <3>3
    <2> QED
      BY <1>2, <1>3, <1>4, <2>1 DEF Backed, Behind
  <1> QED
    BY <1>2, <1>3, <1>4, <1>5, ContextStep
       DEF ExecuteOk, CompleteOk, PCs, HandlerPCs

\* A stage fails, or is found to be unrecoverable.
LEMMA FailureKeeps ==
    ASSUME IInv, NEW c \in Copies, ExecuteFails(c) \/ ExecuteUnrecoverable(c)
    PROVE  IInv'
  <1>1. pc[c] = "normal" /\ HasNext(c)
    BY DEF ExecuteFails, ExecuteUnrecoverable, Executing
  <1>2. /\ mem[c] \in Contexts
        /\ mem[c].status \in {"Committed", "ForceComplete"}
        /\ Backed(mem[c])
    BY <1>1, NextStage DEF IInv, MemBacked
  <1>3. UNCHANGED <<row, effects, forced, recovered, recovery, crashes>>
    BY DEF ExecuteFails, ExecuteUnrecoverable
  <1>4. ParticipantsInv'
    <2>1. CASE ExecuteFails(c)
      BY <1>3, <2>1, RequestedDue, AbandonKept DEF ExecuteFails
    <2>2. CASE ExecuteUnrecoverable(c)
      BY <1>3, <2>2, RequestedDue, AbandonKept DEF ExecuteUnrecoverable
    <2> QED
      BY <2>1, <2>2
  <1>5. PICK x \in Contexts, label \in {"retrying", "normalSave"} :
           /\ mem' = [mem EXCEPT ![c] = x]
           /\ Goto(c, label)
           /\ x.status \in {"Committed", "ForceComplete"}
           /\ x.curr = mem[c].curr /\ x.input = mem[c].input
    <2>1. CASE ExecuteFails(c)
      <3>1. mem' = [mem EXCEPT ![c] = mem[c]] /\ Goto(c, "retrying")
        BY <2>1 DEF ExecuteFails, IInv, TypeOK
      <3> QED
        BY <1>2, <3>1
    <2>2. CASE ExecuteUnrecoverable(c)
      <3>1. /\ mem' = [mem EXCEPT ![c] = WithStatus(mem[c], "ForceComplete")]
            /\ Goto(c, "normalSave")
        BY <2>2 DEF ExecuteUnrecoverable
      <3> QED
        BY <1>2, <3>1, WithStatusFields DEF Statuses
    <2> QED
      BY <2>1, <2>2
  <1>6. Backed(x)'
    BY <1>2, <1>3, <1>5 DEF Backed, Behind
  <1> QED
    BY <1>3, <1>4, <1>5, <1>6, ContextStep DEF PCs, HandlerPCs

\* The completion.
LEMMA FinishKeeps ==
    ASSUME IInv, NEW c \in Copies, Finish(c)
    PROVE  IInv'
  <1>1. /\ pc[c] \in {"normal", "force"}
        /\ mem' = [mem EXCEPT ![c] = WithStatus(mem[c], "Completed")]
        /\ Goto(c, "completing")
        /\ UNCHANGED <<row, effects, inFlight, forced, recovered, recovery, crashes>>
    BY DEF Finish
  <1>2. /\ mem[c] \in Contexts
        /\ Backed(mem[c]) /\ mem[c].status # "Pending"
        /\ mem[c].curr = NumStages
    BY <1>1, ContextFields, ExecutorAssumption
       DEF IInv, TypeOK, MemBacked, PastRunCommitted, Finish, HasNext
  <1>3. PICK x \in Contexts :
           /\ mem' = [mem EXCEPT ![c] = x]
           /\ x.status = "Completed"
           /\ x.curr = mem[c].curr /\ x.input = mem[c].input
    BY <1>1, <1>2, WithStatusFields DEF Statuses
  <1>4. Backed(x)'
    BY <1>1, <1>2, <1>3 DEF Backed, Behind
  <1>5. ParticipantsInv'
    BY <1>1, InFlightIsDue
       DEF ParticipantsInv, StageInputs, StagesInOrder, InFlightDue, Behind
  <1> QED
    BY <1>1, <1>3, <1>4, <1>5, ContextStep DEF PCs, HandlerPCs

\* Everything else a copy does changes neither effects nor contexts.
LEMMA OtherKeeps ==
    ASSUME IInv, NEW c \in Copies,
           \/ RunCommitted(c) \/ HandlerSave(c) \/ Take(c) \/ SwitchLoop(c)
           \/ CompleteFails(c) \/ CheckpointOk(c) \/ CheckpointFails(c)
    PROVE  IInv'
  <1>1. /\ UNCHANGED <<mem, effects, inFlight, forced, recovered, recovery, crashes>>
        /\ row' \in {row, mem[c]}
    BY DEF RunCommitted, HandlerSave, Take, SwitchLoop,
           CompleteFails, CheckpointOk, CheckpointFails
  <1>2. pc[c] # "failed" /\ mem[c].status # "Pending"
    BY DEF RunCommitted, HandlerSave, Take, SwitchLoop,
           CompleteFails, CheckpointOk, CheckpointFails, IInv, PastRunCommitted
  <1>3. \E label \in PCs \ {"failed", "gone", "running"} : Goto(c, label)
    BY DEF RunCommitted, HandlerSave, Take, SwitchLoop,
           CompleteFails, CheckpointOk, CheckpointFails, PCs, HandlerPCs
  <1> QED
    BY <1>1, <1>2, <1>3, QuietStep

\* A crash only forgets.
LEMMA CrashKeeps ==
    ASSUME IInv, Crash
    PROVE  IInv'
  <1> USE ExecutorAssumption DEF Crash
  <1>1. NewContext \in Contexts /\ Backed(NewContext)'
    BY DEF NewContext, Contexts, Statuses, Backed
  <1>6. ParticipantsInv'
    BY RequestedDue, AbandonKept DEF Requests
  <1>2. TypeOK'
    BY <1>1, <1>6 DEF ParticipantsInv, IInv, TypeOK, PCs, Recoveries
  <1>3. CheckpointBacked'
    BY DEF IInv, CheckpointBacked, Backed, Behind
  <1>4. MemBacked' /\ RecoveryBacked'
    BY DEF NewContext, MemBacked, RecoveryBacked, Backed
  <1>5. PastRunCommitted'
    BY DEF PastRunCommitted
  <1> QED
    BY <1>2, <1>3, <1>4, <1>5, <1>6 DEF IInv, ParticipantsInv

\* Recovery reads a backed row, and its requests carry what it has read.
LEMMA RecoveryKeeps ==
    ASSUME IInv, Recover \/ RecoveryAnswered \/ \E c \in Copies : RecoveryRequest(c)
    PROVE  IInv'
  <1> USE ExecutorAssumption
  <1>1. /\ UNCHANGED <<row, effects, inFlight, forced, crashes>>
        /\ row \in Contexts /\ recovery \in Recoveries /\ recovery.ctx \in Contexts
    BY DEF IInv, TypeOK, Recover, RecoveryAnswered, RecoveryRequest, Recoveries
  <1>2. StageInputs' /\ StagesInOrder' /\ InFlightDue' /\ CheckpointBacked'
    BY <1>1 DEF IInv, StageInputs, StagesInOrder, InFlightDue, CheckpointBacked,
                Backed, Behind
  <1>3. CASE Recover \/ RecoveryAnswered
    <2>1. recovery' \in Recoveries /\ recovery'.ctx \in {row, recovery.ctx}
      BY <1>1, <1>3 DEF Recover, RecoveryAnswered, Recoveries
    <2>2. UNCHANGED <<mem, pc, recovered>>
      BY <1>3 DEF Recover, RecoveryAnswered
    <2>3. TypeOK' /\ PastRunCommitted'
      BY <1>1, <2>1, <2>2 DEF IInv, TypeOK, PastRunCommitted
    <2>4. MemBacked' /\ RecoveryBacked'
      BY <1>1, <2>1, <2>2
         DEF IInv, CheckpointBacked, RecoveryBacked, MemBacked, Backed, Behind
    <2> QED
      BY <1>2, <2>3, <2>4 DEF IInv
  <1>4. ASSUME NEW c \in Copies, RecoveryRequest(c)
        PROVE  IInv'
    <2>1. /\ mem' = [mem EXCEPT ![c] = recovery.ctx]
          /\ pc' = [pc EXCEPT ![c] = "running"]
          /\ recovered' \subseteq Copies
      BY <1>4 DEF RecoveryRequest, Goto, IInv, TypeOK
    <2>2. recovery' \in Recoveries /\ recovery'.ctx = recovery.ctx
      BY <1>1, <1>4 DEF RecoveryRequest, Recoveries
    <2>3. TypeOK' /\ PastRunCommitted'
      BY <1>1, <2>1, <2>2 DEF IInv, TypeOK, PastRunCommitted, PCs, HandlerPCs
    <2>4. MemBacked' /\ RecoveryBacked'
      BY <1>1, <2>1, <2>2
         DEF IInv, TypeOK, RecoveryBacked, MemBacked, Backed, Behind
    <2> QED
      BY <1>2, <2>3, <2>4 DEF IInv
  <1> QED
    BY <1>3, <1>4

\* The transaction starts with nothing done and nothing claimed.
LEMMA InitIInv ==
    ASSUME Init
    PROVE  IInv
  <1> USE ExecutorAssumption DEF Init
  <1>1. NewContext \in Contexts
    BY DEF NewContext, Contexts, Statuses
  <1>2. TypeOK
    BY <1>1 DEF TypeOK, PCs, HandlerPCs, Recoveries
  <1>3. StageInputs /\ StagesInOrder /\ InFlightDue
    BY DEF StageInputs, StagesInOrder, InFlightDue
  <1>4. CheckpointBacked /\ MemBacked /\ RecoveryBacked
    BY DEF CheckpointBacked, MemBacked, RecoveryBacked, Backed, NewContext
  <1>5. PastRunCommitted
    BY DEF PastRunCommitted
  <1> QED
    BY <1>2, <1>3, <1>4, <1>5 DEF IInv

\* A request is served: it was due.
LEMMA TakeEffectKeeps ==
    ASSUME IInv, TakeEffect
    PROVE  IInv'
  <1>1. PICK e \in inFlight \cup Requests : Serve({e})
    BY DEF TakeEffect
  <1>2. effects \subseteq effects' /\ forced' = forced /\ ParticipantsInv'
    BY <1>1, InFlightIsDue, RequestedDue, ServeKept DEF TakeEffect, Requests
  <1>3. TypeOK' /\ PastRunCommitted'
    BY <1>2 DEF TakeEffect, IInv, TypeOK, ParticipantsInv, PastRunCommitted
  <1>4. CheckpointBacked' /\ MemBacked' /\ RecoveryBacked'
    BY <1>2 DEF TakeEffect, IInv, CheckpointBacked, MemBacked, RecoveryBacked, Backed,
                Behind
  <1> QED
    BY <1>2, <1>3, <1>4 DEF IInv, ParticipantsInv

\* The inductive invariant: no context, in memory, in the row or in a recovery
\* request, is ahead of what has happened at the participants.
THEOREM Invariance == Spec => []IInv
  <1>1. IInv /\ [Next]_vars => IInv'
    <2> SUFFICES ASSUME IInv, [Next]_vars PROVE IInv'
      OBVIOUS
    <2>1. ASSUME NEW c \in Copies, Step(c) PROVE IInv'
      BY <2>1, RunKeeps, PassKeeps, FailureKeeps, FinishKeeps, OtherKeeps DEF Step
    <2>2. CASE Crash \/ TakeEffect
      BY <2>2, CrashKeeps, TakeEffectKeeps
    <2>3. CASE Recover \/ RecoveryAnswered \/ \E c \in Copies : RecoveryRequest(c)
      BY <2>3, RecoveryKeeps
    <2>4. CASE UNCHANGED vars
      BY <2>4 DEF vars, IInv, TypeOK, StageInputs, StagesInOrder, CheckpointBacked,
                  MemBacked, PastRunCommitted, RecoveryBacked, InFlightDue, Backed,
                  Behind
    <2> QED
      BY <2>1, <2>2, <2>3, <2>4 DEF Next
  <1> QED
    BY <1>1, InitIInv, PTL DEF Spec

\* TypeOK for every number of stages and executor objects.
THEOREM TypeCorrect == Spec => []TypeOK
  BY Invariance, PTL DEF IInv

\* Each stage acts on the output of the stage before it, whatever fails, crashes
\* or runs twice.
THEOREM InputsMatch == Spec => []StageInputs
  BY Invariance, PTL DEF IInv

\* A stage's effect appears only after the commit stage's and with every earlier
\* stage behind.
THEOREM InOrder == Spec => []StagesInOrder
  BY Invariance, PTL DEF IInv

\* No checkpoint is ahead of the participants, so recovery skips no stage.
THEOREM CheckpointTrue == Spec => []CheckpointBacked
  BY Invariance, PTL DEF IInv

-----------------------------------------------------------------------------
(* Checkpoints are taken back by a second copy only                        *)

\* The order of contexts.
LEMMA NoLaterFacts ==
    ASSUME NEW x \in Contexts, NEW y \in Contexts, NEW z \in Contexts
    PROVE  /\ NoLater(x, x)
           /\ NoLater(x, y) /\ NoLater(y, z) => NoLater(x, z)
           /\ NoLater(NewContext, x)
  <1>1. \A s \in Statuses : Rank(s) \in 0 .. 3
    BY DEF Rank, Statuses
  <1>2. x.curr \in Nat /\ y.curr \in Nat /\ z.curr \in Nat
    BY ExecutorAssumption DEF Contexts
  <1>3. x.status \in Statuses /\ y.status \in Statuses /\ z.status \in Statuses
    BY DEF Contexts
  <1>4. NoLater(x, x)
    BY <1>1, <1>2, <1>3 DEF NoLater
  <1>5. ASSUME NoLater(x, y), NoLater(y, z)
        PROVE  NoLater(x, z)
    <2>1. x.curr <= z.curr
      BY <1>2, <1>5 DEF NoLater
    <2>2. Rank(x.status) <= Rank(z.status)
      BY <1>1, <1>3, <1>5 DEF NoLater
    <2> QED
      BY <2>1, <2>2 DEF NoLater
  <1>6. NoLater(NewContext, x)
    <2>1. NewContext.curr = 0 /\ NewContext.status = "Pending" /\ Rank("Pending") = 0
      BY DEF NewContext, Rank
    <2> QED
      BY <1>1, <1>2, <1>3, <2>1 DEF NoLater
  <1> QED
    BY <1>4, <1>5, <1>6

\* What a copy makes of its context, short of failing, is no earlier.
LEMMA ContextsAdvance ==
    ASSUME IInv, NEW c \in Copies, pc[c] \notin {"gone", "failed"}, NEW y,
           \/ pc[c] = "running" /\ mem[c].status = "Pending" /\ y = CommittedContext(mem[c])
           \/ HasNext(c) /\ y = Passed(mem[c])
           \/ Executing(c) /\ y = WithStatus(mem[c], "ForceComplete")
           \/ y = WithStatus(mem[c], "Completed")
    PROVE  NoLater(mem[c], y)
  <1> DEFINE x == mem[c]
  <1>1. x \in Contexts /\ x.curr \in Nat /\ x.status \in Statuses
    BY ExecutorAssumption DEF IInv, TypeOK, Contexts
  <1>2. /\ Rank("Pending") = 0 /\ Rank("Committed") = 1
        /\ Rank("ForceComplete") = 2 /\ Rank("Completed") = 3
    BY DEF Rank
  <1>3. Rank(x.status) \in 0 .. 3
    BY <1>1 DEF Rank, Statuses
  <1>4. CASE x.status = "Pending" /\ y = CommittedContext(x)
    BY <1>1, <1>2, <1>4 DEF CommittedContext, NoLater
  <1>5. CASE y = Passed(x)
    BY <1>1, <1>3, <1>5 DEF Passed, NoLater
  <1>6. CASE Executing(c) /\ y = WithStatus(x, "ForceComplete")
    <2>1. x.status # "Completed" /\ x.status # "Aborted"
      <3>1. Backed(x)
        BY DEF IInv, MemBacked
      <3>2. x.curr < NumStages
        BY <1>6 DEF Executing, HasNext
      <3> QED
        BY <1>1, <3>1, <3>2, ExecutorAssumption DEF Backed
    <2>2. Rank(x.status) <= 2
      BY <1>1, <2>1 DEF Rank, Statuses
    <2> QED
      BY <1>1, <1>2, <1>6, <2>2 DEF WithStatus, NoLater
  <1>7. CASE y = WithStatus(x, "Completed")
    BY <1>1, <1>2, <1>3, <1>7 DEF WithStatus, NoLater
  <1> QED
    BY <1>4, <1>5, <1>6, <1>7

\* Copies are only ever put to work, short of a crash.
LEMMA StillRepeated ==
    ASSUME Repeated, \A c \in Copies : pc[c] # "gone" => pc'[c] # "gone"
    PROVE  Repeated'
  BY DEF Repeated

\* A step of a copy writes its own context to the row, or nothing, and advances
\* its own context, or leaves it alone.
LEMMA StepWrites ==
    ASSUME IInv, NEW c \in Copies, Step(c)
    PROVE  /\ Live(c)
           /\ pc'[c] # "gone" /\ \A d \in Copies : d # c => pc'[d] = pc[d]
           /\ UNCHANGED recovery
           /\ \A d \in Copies : d # c => mem'[d] = mem[d]
           /\ pc'[c] # "failed" => mem'[c] \in Contexts /\ NoLater(mem[c], mem'[c])
           /\ row' = row \/ (row' = mem[c] /\ mem' = mem)
  <1> USE DEF Goto, Live
  <1>1. mem \in [Copies -> Contexts] /\ pc \in [Copies -> PCs] /\ mem[c] \in Contexts
    BY DEF IInv, TypeOK
  <1>2. pc[c] \notin {"gone", "failed"}
    BY DEF Step, RunCommitted, RunOk, RunFails, HandlerSave, Take, SwitchLoop, ExecuteOk,
           ExecuteFails, ExecuteUnrecoverable, CompleteOk, CompleteFails, Finish,
           CheckpointOk, CheckpointFails, Executing
  <1>3. ASSUME mem' = mem PROVE mem'[c] \in Contexts /\ NoLater(mem[c], mem'[c])
    BY <1>1, <1>3, NoLaterFacts
  <1>4. \A d \in Copies : d # c => pc'[d] = pc[d] /\ mem'[d] = mem[d]
    BY <1>1
       DEF Step, RunCommitted, RunOk, RunFails, HandlerSave, Take, SwitchLoop, ExecuteOk,
           ExecuteFails, ExecuteUnrecoverable, CompleteOk, CompleteFails, Finish,
           CheckpointOk, CheckpointFails
  <1>5. CASE RunCommitted(c) \/ Take(c) \/ SwitchLoop(c) \/ ExecuteFails(c) \/ CompleteFails(c)
    <2>1. mem' = mem /\ row' = row /\ recovery' = recovery /\ pc'[c] # "gone"
      BY <1>1, <1>5 DEF RunCommitted, Take, SwitchLoop, ExecuteFails, CompleteFails
    <2> QED
      BY <1>2, <1>3, <1>4, <2>1
  <1>6. CASE HandlerSave(c) \/ CheckpointOk(c) \/ CheckpointFails(c)
    <2>1. /\ mem' = mem /\ recovery' = recovery /\ pc'[c] # "gone"
          /\ row' = row \/ row' = mem[c]
      BY <1>1, <1>6 DEF HandlerSave, CheckpointOk, CheckpointFails
    <2> QED
      BY <1>2, <1>3, <1>4, <2>1
  <1>7. CASE RunFails(c)
    BY <1>1, <1>2, <1>4, <1>7 DEF RunFails
  <1>8. CASE RunOk(c) \/ ExecuteOk(c) \/ ExecuteUnrecoverable(c) \/ CompleteOk(c) \/ Finish(c)
    <2>1. row' = row /\ recovery' = recovery /\ pc'[c] # "gone"
      BY <1>1, <1>8 DEF RunOk, ExecuteOk, ExecuteUnrecoverable, CompleteOk, Finish
    <2>2. /\ \/ pc[c] = "running" /\ mem[c].status = "Pending"
                /\ mem'[c] = CommittedContext(mem[c])
             \/ HasNext(c) /\ mem'[c] = Passed(mem[c])
             \/ Executing(c) /\ mem'[c] = WithStatus(mem[c], "ForceComplete")
             \/ mem'[c] = WithStatus(mem[c], "Completed")
      BY <1>1, <1>8
         DEF RunOk, ExecuteOk, ExecuteUnrecoverable, CompleteOk, Finish, Executing
    <2>3. NoLater(mem[c], mem'[c])
      BY <1>2, <2>2, ContextsAdvance
    <2>4. mem'[c] \in Contexts
      <3>1. IInv'
        BY Step(c), RunKeeps, PassKeeps, FailureKeeps, FinishKeeps, OtherKeeps DEF Step
      <3> QED
        BY <3>1 DEF IInv, TypeOK
    <2> QED
      BY <1>2, <1>4, <2>1, <2>3, <2>4
  <1> QED
    BY <1>5, <1>6, <1>7, <1>8 DEF Step

\* The step of a copy leaves the row behind no copy, unless there are two.
LEMMA StepForward ==
    ASSUME IInv, RowNotPassed, NEW c \in Copies, Step(c)
    PROVE  /\ RowNotPassed'
           /\ Repeated \/ NoLater(row, row')
  <1> USE DEF Live
  <1>1. row \in Contexts /\ \A d \in Copies : mem[d] \in Contexts
    BY DEF IInv, TypeOK
  <1>2. \A d \in Copies : pc[d] # "gone" => pc'[d] # "gone"
    BY StepWrites
  <1>3. Repeated => Repeated'
    BY <1>2, StillRepeated
  <1>4. \E d \in Copies : pc'[d] # "gone"
    BY StepWrites
  <1>5. CASE Repeated
    BY <1>3, <1>4, <1>5, StepWrites DEF RowNotPassed
  <1>6. CASE ~Repeated
    <2>1. NoLater(row, mem[c])
      BY <1>6, StepWrites DEF RowNotPassed
    <2>2. NoLater(row, row')
      BY <1>1, <2>1, StepWrites, NoLaterFacts
    <2>3. \A d \in Copies : d # c => pc'[d] = "gone"
      BY <1>6, StepWrites DEF Repeated
    <2>4. ~Repeated'
      BY <2>3 DEF Repeated
    <2>5. ASSUME pc'[c] # "failed" PROVE NoLater(row', mem'[c])
      <3>1. CASE row' = row
        BY <1>1, <2>1, <2>5, <3>1, StepWrites, NoLaterFacts
      <3>2. CASE row' = mem[c] /\ mem' = mem
        BY <1>1, <3>2, NoLaterFacts
      <3> QED
        BY <3>1, <3>2, StepWrites
    <2>6. RowNotPassed'
      BY <1>4, <2>3, <2>4, <2>5, StepWrites DEF RowNotPassed
    <2> QED
      BY <2>2, <2>6
  <1> QED
    BY <1>5, <1>6

\* A recovery request puts a copy to work on what Recover has read.
LEMMA RequestStarts ==
    ASSUME IInv, NEW c \in Copies, RecoveryRequest(c)
    PROVE  /\ pc[c] = "gone" /\ pc'[c] = "running" /\ mem'[c] = recovery.ctx
           /\ \A d \in Copies : d # c => pc'[d] = pc[d] /\ mem'[d] = mem[d]
           /\ recovery.phase = "requesting"
           /\ recovery'.phase = "requesting" /\ recovery'.ctx = recovery.ctx
           /\ UNCHANGED row
  BY DEF RecoveryRequest, Goto, IInv, TypeOK, Recoveries

\* What Recover, and the end of its requests, leave alone.
LEMMA RecoveryQuiet ==
    ASSUME IInv, Recover \/ RecoveryAnswered
    PROVE  /\ UNCHANGED <<row, mem, pc>>
           /\ recovery'.phase # "unread"
           /\ recovery'.phase = "requesting" => Recover
           /\ Recover => recovery.phase = "unread" /\ recovery'.ctx = row
           /\ RecoveryAnswered => recovery'.ctx = recovery.ctx
  BY DEF Recover, RecoveryAnswered, IInv, TypeOK, Recoveries

\* A row is taken back only while two copies are at work on it.
LEMMA NotPassedInvariance ==
    ASSUME IInv, RowNotPassed, [Next]_vars
    PROVE  RowNotPassed' /\ [Repeated \/ NoLater(row, row')]_row
  <1>1. ASSUME NEW c \in Copies, Step(c)
        PROVE  RowNotPassed' /\ [Repeated \/ NoLater(row, row')]_row
    BY <1>1, StepForward
  <1>2. CASE Crash
    BY <1>2 DEF Crash, RowNotPassed, Live, Repeated
  <1>3. CASE TakeEffect \/ UNCHANGED vars
    BY <1>3 DEF TakeEffect, vars, RowNotPassed, Repeated, Live
  <1>4. CASE Recover \/ RecoveryAnswered
    BY <1>4, RecoveryQuiet DEF RowNotPassed, Repeated, Live
  <1>5. ASSUME NEW c \in Copies, RecoveryRequest(c)
        PROVE  RowNotPassed' /\ UNCHANGED row
    <2>1. row \in Contexts
      BY DEF IInv, TypeOK
    <2>2. CASE \A d \in Copies : pc[d] = "gone"
      BY <1>5, <2>1, <2>2, RequestStarts, NoLaterFacts DEF RowNotPassed, Live
    <2>3. CASE \E d \in Copies : pc[d] # "gone"
      <3>1. Repeated'
        BY <1>5, <2>3, RequestStarts DEF Repeated
      <3> QED
        BY <1>5, <3>1, RequestStarts DEF RowNotPassed
    <2> QED
      BY <2>2, <2>3, <1>5, RequestStarts
  <1> QED
    BY <1>1, <1>2, <1>3, <1>4, <1>5 DEF Next

\* Nothing goes back behind what Recover has read.
LEMMA FloorInvariance ==
    ASSUME IInv, RowNotPassed, ReadIsFloor, [Next]_vars
    PROVE  ReadIsFloor' /\ NoLater(recovery.ctx, row')
  <1> USE DEF Live
  <1>1. /\ row \in Contexts /\ recovery.ctx \in Contexts
        /\ \A d \in Copies : mem[d] \in Contexts
    BY DEF IInv, TypeOK, Recoveries
  <1>2. ASSUME NEW c \in Copies, Step(c)
        PROVE  ReadIsFloor' /\ NoLater(recovery.ctx, row')
    <2>1. NoLater(recovery.ctx, mem[c]) /\ NoLater(recovery.ctx, row)
      BY <1>2, StepWrites DEF ReadIsFloor
    <2>2. NoLater(recovery.ctx, row') /\ recovery' = recovery
      BY <1>2, <2>1, StepWrites
    <2>3. ASSUME pc'[c] # "failed" PROVE NoLater(recovery.ctx, mem'[c])
      BY <1>1, <1>2, <2>1, <2>3, StepWrites, NoLaterFacts
    <2> QED
      BY <1>2, <2>2, <2>3, StepWrites DEF ReadIsFloor
  <1>3. CASE Crash
    BY <1>1, <1>3, NoLaterFacts DEF Crash, ReadIsFloor
  <1>4. CASE TakeEffect \/ UNCHANGED vars
    BY <1>4 DEF TakeEffect, vars, ReadIsFloor
  <1>5. CASE Recover
    <2>1. \A d \in Copies : Live(d) => NoLater(row, mem[d])
      BY <1>5, RecoveryQuiet DEF RowNotPassed
    <2> QED
      BY <1>1, <1>5, <2>1, RecoveryQuiet, NoLaterFacts DEF ReadIsFloor
  <1>6. CASE RecoveryAnswered
    BY <1>6, RecoveryQuiet DEF ReadIsFloor
  <1>7. ASSUME NEW c \in Copies, RecoveryRequest(c)
        PROVE  ReadIsFloor' /\ NoLater(recovery.ctx, row')
    BY <1>1, <1>7, RequestStarts, NoLaterFacts DEF ReadIsFloor
  <1> QED
    BY <1>2, <1>3, <1>4, <1>5, <1>6, <1>7 DEF Next

\* A checkpoint is taken back only while a second executor object works on the
\* row, and never behind what Recover has read of it.
THEOREM Forward == Spec => CheckpointForward
  <1>1. Init => RowNotPassed /\ ReadIsFloor
    <2> SUFFICES ASSUME Init PROVE RowNotPassed /\ ReadIsFloor
      OBVIOUS
    <2>1. NewContext \in Contexts
      BY ExecutorAssumption DEF NewContext, Contexts, Statuses
    <2>2. recovery.ctx = NewContext /\ recovery.phase # "requesting"
      BY DEF Init
    <2>3. ~Repeated
      BY DEF Init, Repeated
    <2> QED
      BY <2>1, <2>2, <2>3, NoLaterFacts DEF Init, RowNotPassed, ReadIsFloor
  <1>2. IInv /\ RowNotPassed /\ ReadIsFloor /\ [Next]_vars
        => /\ RowNotPassed' /\ ReadIsFloor'
           /\ [NoLater(recovery.ctx, row') /\ (Repeated \/ NoLater(row, row'))]_row
    BY NotPassedInvariance, FloorInvariance
  <1> QED
    BY <1>1, <1>2, Invariance, PTL DEF Spec, CheckpointForward

-----------------------------------------------------------------------------
(* Whoever writes last writes the completion                               *)

\* Where a step takes its copy: it has still to write its completion, has just
\* written it, or is not past its handler's first step.
LEMMA StepCompletes ==
    ASSUME IInv, NEW c \in Copies, Step(c),
           pc[c] = "completing" => mem[c].status = "Completed"
    PROVE  /\ pc'[c] = "completing" => mem'[c].status = "Completed"
           /\ \/ Unfinished(c)'
              \/ pc'[c] = "ended" /\ row'.status = "Completed"
              \/ pc'[c] \in {"saving", "failed"} /\ pc[c] = "running" /\ row' = row
  <1> USE DEF Goto, Unfinished, Live
  <1>1. mem \in [Copies -> Contexts] /\ pc \in [Copies -> PCs]
    BY DEF IInv, TypeOK
  <1>2. CASE RunCommitted(c) \/ RunOk(c) \/ RunFails(c)
    BY <1>1, <1>2 DEF RunCommitted, RunOk, RunFails
  <1>3. CASE HandlerSave(c) \/ Take(c) \/ SwitchLoop(c) \/ CompleteFails(c)
             \/ CheckpointFails(c)
    BY <1>1, <1>3 DEF HandlerSave, Take, SwitchLoop, CompleteFails, CheckpointFails
  <1>4. CASE ExecuteOk(c) \/ ExecuteFails(c) \/ ExecuteUnrecoverable(c) \/ CompleteOk(c)
    BY <1>1, <1>4 DEF ExecuteOk, ExecuteFails, ExecuteUnrecoverable, CompleteOk
  <1>5. CASE Finish(c)
    BY <1>1, <1>5 DEF Finish, WithStatus
  <1>6. CASE CheckpointOk(c)
    BY <1>1, <1>6 DEF CheckpointOk
  <1> QED
    BY <1>2, <1>3, <1>4, <1>5, <1>6 DEF Step

\* Every step keeps it: a copy that takes a completion back is unfinished.
LEMMA CompletionInvariance ==
    ASSUME IInv, CompletionLast, [Next]_vars
    PROVE  CompletionLast'
  <1>1. mem \in [Copies -> Contexts] /\ pc \in [Copies -> PCs]
    BY DEF IInv, TypeOK
  <1>2. CASE Crash
    BY <1>2 DEF Crash, CompletionLast
  <1>3. CASE TakeEffect \/ Recover \/ RecoveryAnswered \/ UNCHANGED vars
    BY <1>3 DEF TakeEffect, Recover, RecoveryAnswered, vars, CompletionLast, Unfinished, Live
  <1>4. ASSUME NEW c \in Copies, RecoveryRequest(c)
        PROVE  CompletionLast'
    BY <1>4, RequestStarts DEF CompletionLast, Unfinished, Live
  <1>5. ASSUME NEW c \in Copies, Step(c)
        PROVE  CompletionLast'
    <2>1. \A d \in Copies : d # c => pc'[d] = pc[d] /\ mem'[d] = mem[d]
      BY <1>5, StepWrites
    <2>2. pc'[c] = "completing" => mem'[c].status = "Completed"
      BY <1>5, StepCompletes DEF CompletionLast
    <2>3. \/ Unfinished(c)'
          \/ pc'[c] = "ended" /\ row'.status = "Completed"
          \/ pc'[c] \in {"saving", "failed"} /\ pc[c] = "running" /\ row' = row
      BY <1>5, StepCompletes DEF CompletionLast
    <2> QED
      BY <2>1, <2>2, <2>3 DEF CompletionLast, Unfinished, Live
  <1> QED
    BY <1>2, <1>3, <1>4, <1>5 DEF Next

\* When no copy is at work any more and one has come to its end, the row is
\* completed, although a second copy may have taken the completion back.
THEOREM AtRest == Spec => []AtRestCompleted
  <1>1. Init => CompletionLast
    BY DEF Init, CompletionLast
  <1>2. IInv /\ CompletionLast /\ [Next]_vars => CompletionLast'
    BY CompletionInvariance
  <1>3. CompletionLast => AtRestCompleted
    BY DEF CompletionLast, AtRestCompleted, Unfinished, Live
  <1> QED
    BY <1>1, <1>2, <1>3, Invariance, PTL DEF Spec

=============================================================================
