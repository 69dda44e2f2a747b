--------------------------- MODULE TxChainProofs ---------------------------
(***************************************************************************)
(* Theorems about coordinator, executors and participants together, for    *)
(* every number of transactions, stages, requests per stage and faults,    *)
(* and every combination of the four kinds of faults.                      *)
(*                                                                         *)
(* The argument: an executor's contexts only claim what has happened, as   *)
(* in TxExecutorProofs, and it only asks for the stage it needs            *)
(* (CallNeeded). So each request that can still have an effect is for a    *)
(* needed stage, for one given up or for one that has had its effect       *)
(* (Underway), and stages take effect in order and on the right input. At  *)
(* the receivers the exactly-once invariant of TxParticipantProofs holds   *)
(* through restarts and requests whose sender is gone. The origin          *)
(* manager's invariant holds where no request was repeated (TurnsKept): it *)
(* orders the transactions there. Each group of steps keeps the executors' *)
(* part of the invariant, then the receivers' and then the turns; both     *)
(* refinements follow.                                                     *)
(***************************************************************************)
EXTENDS TxChain, TxParticipantProofs

\* What the assumption on the constants says of a message.
LEMMA Messages ==
    /\ N \in Nat /\ K \in Nat /\ MaxFaults \in Nat
    /\ Queues = Stages /\ DryRun = {} /\ Attrs = {}
    /\ \A m \in Msgs :
          /\ m[1] \in Txs /\ m[2] \in Stages /\ m[3] \in Slots
          /\ m = <<m[1], m[2], m[3]>>
          /\ Ts[m] = m[1] /\ QueueOf[m] = m[2]
    /\ \A n \in Txs, k \in Stages, s \in Slots : <<n, k, s>> \in Msgs
  BY ChainAssumption

\* The values of the executors' variables, spelled out.
LEMMA ExecutorValues ==
    /\ Contexts = [status : {"Pending", "Committed", "Aborted", "ForceComplete",
                             "Completed"},
                   curr : 0 .. K, input : 0 .. K + 1]
    /\ Recoveries = [phase : {"none", "unread", "requesting"}, ctx : Contexts, tries : 0 .. 1]
    /\ ExecutorPCs = {"running", "saving", "sending", "gone", "failed", "normal", "force",
                      "normalSave", "forceSave", "retrying", "completing", "ended", "new"}
  BY DEF Contexts, Exec!Contexts, Exec!Statuses, Recoveries, Exec!Recoveries,
         ExecutorPCs, Exec!PCs, Exec!HandlerPCs

\* The contexts the executors' steps make.
LEMMA CommittedMade ==
    ASSUME NEW n \in Txs, NEW x \in Contexts
    PROVE  /\ Exec(n)!CommittedContext(x) \in Contexts
           /\ Exec(n)!CommittedContext(x).status = "Committed"
           /\ Exec(n)!CommittedContext(x).curr = x.curr
           /\ Exec(n)!CommittedContext(x).input = 1
  BY Messages, ExecutorValues DEF Exec!CommittedContext

LEMMA StatusMade ==
    ASSUME NEW n \in Txs, NEW x \in Contexts, NEW s \in {"Aborted", "Completed"}
    PROVE  /\ Exec(n)!WithStatus(x, s) \in Contexts
           /\ Exec(n)!WithStatus(x, s).status = s
           /\ Exec(n)!WithStatus(x, s).curr = x.curr
           /\ Exec(n)!WithStatus(x, s).input = x.input
  BY ExecutorValues DEF Exec!WithStatus

LEMMA PassedMade ==
    ASSUME NEW n \in Txs, NEW x \in Contexts, x.curr + 1 \in Stages, x.input = x.curr + 1
    PROVE  /\ Exec(n)!Passed(x) \in Contexts
           /\ Exec(n)!Passed(x).status = x.status
           /\ Exec(n)!Passed(x).curr = x.curr + 1
           /\ Exec(n)!Passed(x).input = x.input + 1
  <1>1. x.curr \in 0 .. K /\ K \in Nat
    BY Messages, ExecutorValues
  <1> QED
    BY <1>1, ExecutorValues DEF Exec!Passed, Stages

-----------------------------------------------------------------------------
(* The invariant of one transaction                                        *)

\* Backing is TxExecutor's inductive invariant of transaction n.
LEMMA BackingMeans ==
    ASSUME ChainTypeOK, NEW n \in Txs, Backing(n)
    PROVE  Exec(n)!IInv
  <1>1. Visited(n) \subseteq 0 .. K /\ lost[n] \subseteq 0 .. K /\ K \in Nat
    BY Messages DEF Visited, Stages, ChainTypeOK
  <1>2. \A x \in Contexts : Honest(n, x) => Exec(n)!Backed(x)
    BY <1>1, ExecutorValues DEF Honest, Exec!Backed, Exec!Behind
  <1>3. row[n] \in Contexts /\ mem[n] \in Contexts /\ recovery[n].ctx \in Contexts
    BY ExecutorValues DEF ChainTypeOK
  <1>4. Exec(n)!TypeOK
    <2>1. Exec(n)!Contexts = Contexts /\ Exec(n)!Recoveries = Recoveries
      BY DEF Contexts, Recoveries, Exec!Contexts, Exec!Statuses, Exec!Recoveries
    <2>2. (IF epc[n] = "new" THEN "running" ELSE epc[n]) \in Exec(n)!PCs
      BY ExecutorValues DEF ChainTypeOK, Exec!PCs, Exec!HandlerPCs
    <2> QED
      BY <1>1, <1>3, <2>1, <2>2 DEF ChainTypeOK, Exec!TypeOK
  <1>5. Exec(n)!StageInputs /\ Exec(n)!StagesInOrder /\ Exec(n)!InFlightDue
    <2>1. ASSUME NEW k \in Visited(n) \cup lost[n]
          PROVE  /\ k \in 0 .. K
                 /\ k > 0 => 0 \in Visited(n) /\ \A j \in 1 .. (k - 1) : j \in Visited(n)
      BY <1>1 DEF Backing
    <2>2. Exec(n)!StageInputs
      BY DEF Exec!StageInputs
    <2>3. Exec(n)!StagesInOrder
      <3>1. ASSUME NEW k \in Visited(n)
            PROVE  0 \in Visited(n) /\ \A j \in 1 .. (k - 1) : j \in Visited(n)
        <4>1. k \in 0 .. K /\ (k = 0 \/ k > 0)
          BY <2>1, <1>1
        <4> QED
          BY <2>1, <4>1
      <3> QED
        BY <3>1 DEF Exec!StagesInOrder, Exec!Behind
    <2>4. Exec(n)!InFlightDue
      BY <2>1 DEF Exec!InFlightDue, Exec!Behind
    <2> QED
      BY <2>2, <2>3, <2>4
  <1>6. Exec(n)!CheckpointBacked /\ Exec(n)!MemBacked /\ Exec(n)!RecoveryBacked
    BY <1>2, <1>3 DEF Backing, Exec!CheckpointBacked, Exec!MemBacked, Exec!RecoveryBacked
  <1>7. Exec(n)!PastRunCommitted
    BY DEF Backing, Exec!PastRunCommitted
  <1> QED
    BY <1>4, <1>5, <1>6, <1>7 DEF Exec!IInv

\* What an executor needs is the next stage: all before it are behind.
LEMMA NeededNext ==
    ASSUME ChainTypeOK, NEW n \in Txs, Backing(n), NEW k \in Needed(n)
    PROVE  /\ k \in Stages
           /\ \A j \in 0 .. (k - 1) : j \in Visited(n)
           /\ k > 0 => /\ epc[n] = "normal" /\ mem[n].curr = k - 1 /\ mem[n].input = k
                       /\ mem[n].status # "Pending"
           /\ k = 0 => /\ epc[n] = "running" /\ mem[n].status = "Pending"
                       /\ mem[n].curr = 0 /\ mem[n].input = 0
           /\ Needed(n) = {k}
  <1>1. mem[n].curr \in 0 .. K /\ K \in Nat
    BY Messages, ExecutorValues DEF ChainTypeOK
  <1>2. CASE epc[n] = "normal" /\ mem[n].curr < K
    <2>1. k = mem[n].curr + 1 /\ Needed(n) = {k}
      BY <1>2 DEF Needed
    <2> QED
      BY <1>1, <1>2, <2>1 DEF Backing, Honest, Stages
  <1>3. CASE epc[n] = "running" /\ mem[n].status = "Pending"
    <2>1. k = 0 /\ Needed(n) = {k}
      BY <1>3 DEF Needed
    <2> QED
      BY <1>1, <1>3, <2>1 DEF Backing, Honest, Stages
  <1> QED
    BY <1>2, <1>3 DEF Needed

\* A step that leaves a transaction alone keeps what is known of it.
LEMMA UntouchedTx ==
    ASSUME NEW n \in Txs, TxInv(n),
           row'[n] = row[n], mem'[n] = mem[n], epc'[n] = epc[n], call'[n] = call[n],
           lost'[n] = lost[n], recovery'[n] = recovery[n], crashes'[n] = crashes[n],
           n \in recovered' <=> n \in recovered,
           UNCHANGED applied, \A m \in Msgs : m[1] = n => pc'[m] = pc[m],
           crashes[n] <= faults => crashes[n] <= faults'
    PROVE  TxInv(n)'
  <1>1. Visited(n)' = Visited(n)
    BY DEF Visited, Visitors
  <1>2. Needed(n)' = Needed(n)
    BY DEF Needed
  <1>3. Backing(n)'
    BY <1>1 DEF TxInv, Backing, Honest
  <1>4. LifeKept(n)'
    BY DEF TxInv, LifeKept, Exec!NewContext
  <1>5. CallNeeded(n)'
    BY <1>2 DEF TxInv, CallNeeded
  <1>6. Underway(n)'
    BY <1>1, <1>2 DEF TxInv, Underway, AtRest
  <1> QED
    BY <1>3, <1>4, <1>5, <1>6 DEF TxInv

-----------------------------------------------------------------------------
(* The steps of an executor                                                *)

\* Executor n ends what it was doing, with context x and checkpoint y, and goes to
\* a label.  Its request, if any, has been served or is given up.
MovesOn(n, x, y, label) ==
    /\ epc[n] # "gone"
    /\ label # "failed" => Honest(n, x)
    /\ label \notin {"running", "failed"} => x.status # "Pending"
    /\ x.status # "ForceComplete"
    /\ n \in recovered => x.status # "Pending"
    /\ mem' = [mem EXCEPT ![n] = x]
    /\ row' = [row EXCEPT ![n] = y]
    /\ y = row[n] \/ epc[n] # "failed"
    /\ epc' = [epc EXCEPT ![n] = label]
    /\ call' = [call EXCEPT ![n] = NoCall]
    /\ \/ lost' = lost /\ Needed(n) \subseteq Visited(n)
       \/ lost' = [lost EXCEPT ![n] = @ \cup Needed(n)]
    /\ faults' \in {faults, faults + 1} /\ faults' <= MaxFaults
    /\ UNCHANGED <<participantVars, recovered, recovery, crashes, disturbed>>

LEMMA MoveKeepsTypes ==
    ASSUME ChainTypeOK, NEW n \in Txs, TxInv(n), NEW x \in Contexts,
           NEW y \in {row[n], mem[n]}, NEW label \in ExecutorPCs, MovesOn(n, x, y, label)
    PROVE  ChainTypeOK'
  <1>1. UNCHANGED participantVars /\ Needed(n) \subseteq Stages
    BY NeededNext DEF MovesOn, TxInv
  <1>2. /\ mem' \in [Txs -> Contexts] /\ row' \in [Txs -> Contexts]
        /\ epc' \in [Txs -> ExecutorPCs] /\ call' \in [Txs -> Msgs \cup {NoCall}]
    BY DEF MovesOn, ChainTypeOK
  <1>3. lost' \in [Txs -> SUBSET Stages]
    BY <1>1 DEF MovesOn, ChainTypeOK
  <1>4. faults' \in 0 .. MaxFaults
    BY ChainAssumption DEF MovesOn, ChainTypeOK
  <1> QED
    BY <1>1, <1>2, <1>3, <1>4
       DEF MovesOn, ChainTypeOK, participantVars, originVars, dbVars

LEMMA MoveKeeps ==
    ASSUME ChainTypeOK, NEW n \in Txs, TxInv(n), NEW x \in Contexts,
           NEW y \in {row[n], mem[n]}, NEW label \in ExecutorPCs \ {"new", "gone"},
           MovesOn(n, x, y, label)
    PROVE  TxInv(n)'
  <1>1. UNCHANGED <<applied, pc, recovered, recovery, crashes>>
    BY DEF MovesOn, participantVars, originVars, dbVars
  <1>2. /\ mem'[n] = x /\ row'[n] = y /\ epc'[n] = label /\ call'[n] = NoCall
        /\ recovery'[n] = recovery[n] /\ crashes'[n] = crashes[n]
    BY <1>1 DEF ChainTypeOK, MovesOn
  <1>3. Visited(n)' = Visited(n)
    BY <1>1 DEF Visited, Visitors
  <1>4. /\ Needed(n) \subseteq lost'[n] \cup Visited(n)
        /\ lost[n] \subseteq lost'[n] /\ lost'[n] \subseteq lost[n] \cup Needed(n)
    BY DEF ChainTypeOK, MovesOn
  <1>5. Backing(n)'
    <2>1. \A k \in Needed(n) : \A j \in 0 .. (k - 1) : j \in Visited(n)
      BY NeededNext DEF TxInv
    <2>2. \A k \in Visited(n) \cup lost'[n] : \A j \in 0 .. (k - 1) : j \in Visited(n)
      BY <1>4, <2>1 DEF TxInv, Backing
    <2>3. Honest(n, y) /\ Honest(n, recovery[n].ctx)
      BY DEF TxInv, Backing, MovesOn
    <2>4. /\ label # "failed" => Honest(n, mem[n])'
          /\ Honest(n, row[n])' /\ Honest(n, recovery[n].ctx)'
      BY <1>2, <1>3, <2>3 DEF Honest, MovesOn
    <2> QED
      BY <1>2, <1>3, <2>2, <2>4 DEF Backing, MovesOn
  <1>6. LifeKept(n)'
    <2>1. crashes[n] <= faults'
      BY Messages DEF MovesOn, TxInv, LifeKept, ChainTypeOK
    <2> QED
      BY <1>1, <1>2, <2>1 DEF TxInv, LifeKept, MovesOn
  <1>7. CallNeeded(n)'
    BY <1>2 DEF CallNeeded
  <1>8. Underway(n)'
    BY <1>1, <1>3, <1>4 DEF TxInv, Underway, AtRest
  <1> QED
    BY <1>5, <1>6, <1>7, <1>8 DEF TxInv

\* An answer that says yes is that of a request for the needed stage, which has
\* been served.
LEMMA YesMeansVisited ==
    ASSUME ChainTypeOK, AnswerMeansApplied, NEW n \in Txs, TxInv(n), Answered(n, "ok")
    PROVE  Needed(n) # {} /\ Needed(n) \subseteq Visited(n)
  <1>1. /\ call[n] \in Msgs /\ call[n][1] = n /\ call[n][2] \in Needed(n)
        /\ answer[call[n]] = "ok"
    BY DEF TxInv, CallNeeded, Answered
  <1>2. call[n][2] \in Stages /\ QueueOf[call[n]] = call[n][2] /\ Ts[call[n]] = n
    BY <1>1, Messages
  <1>3. call[n][2] \in Visited(n)
    BY <1>1, <1>2 DEF AnswerMeansApplied, Visited, Visitors
  <1> QED
    BY <1>1, <1>3, NeededNext DEF TxInv

\* Whoever needs no stage waits for no answer.
LEMMA NothingNeeded ==
    ASSUME ChainTypeOK, NEW n \in Txs, TxInv(n), Needed(n) = {}
    PROVE  call = [call EXCEPT ![n] = NoCall]
  BY DEF TxInv, CallNeeded, ChainTypeOK

\* A request that is given up leaves its mark.
LEMMA FailsMarks ==
    ASSUME ChainTypeOK, NEW n \in Txs, NEW why, Fails(n, why)
    PROVE  /\ call' = [call EXCEPT ![n] = NoCall]
           /\ lost' = [lost EXCEPT ![n] = @ \cup Needed(n)]
           /\ faults' \in {faults, faults + 1} /\ faults' <= MaxFaults
           /\ UNCHANGED <<participantVars, row, recovered, recovery, crashes, disturbed>>
           /\ call[n] # NoCall
  BY Messages DEF Fails, Returns, Fault, Answered, ChainTypeOK

\* Every step of an executor that does not send a request moves it on.
LEMMA HandlerMoves ==
    ASSUME ChainTypeOK, AnswerMeansApplied, NEW n \in Txs, TxInv(n),
           \/ Create(n) \/ RunOk(n) \/ RunCommitted(n) \/ \E why : RunFails(n, why)
    PROVE  \E x \in Contexts, label \in ExecutorPCs \ {"new", "gone"} :
              MovesOn(n, x, row[n], label)
  <1> USE ExecutorValues
  <1>1. /\ mem[n] \in Contexts /\ row = [row EXCEPT ![n] = row[n]]
        /\ mem = [mem EXCEPT ![n] = mem[n]]
        /\ mem[n].curr \in 0 .. K /\ K \in Nat
        /\ faults \in {faults, faults + 1} /\ faults <= MaxFaults
    BY Messages DEF ChainTypeOK
  <1>2. CASE Create(n)
    <2>1. epc[n] = "new" /\ Needed(n) = {} /\ n \notin recovered
      BY <1>2 DEF Create, Needed, TxInv, LifeKept
    <2>2. Honest(n, mem[n]) /\ mem[n].status # "ForceComplete"
      BY <2>1 DEF TxInv, Backing, LifeKept
    <2>3. MovesOn(n, mem[n], row[n], "running")
      BY <1>1, <1>2, <2>1, <2>2, NothingNeeded DEF Create, ExecGoto, rowVars, MovesOn
    <2> QED
      BY <1>1, <2>3
  <1>3. CASE RunCommitted(n)
    <2>1. epc[n] = "running" /\ mem[n].status # "Pending" /\ Needed(n) = {}
      BY <1>3 DEF RunCommitted, Needed
    <2>2. Honest(n, mem[n]) /\ mem[n].status # "ForceComplete"
      BY <2>1 DEF TxInv, Backing, LifeKept
    <2>3. MovesOn(n, mem[n], row[n], "saving")
      BY <1>1, <1>3, <2>1, <2>2, NothingNeeded DEF RunCommitted, ExecGoto, rowVars, MovesOn
    <2> QED
      BY <1>1, <2>3
  <1>4. CASE RunOk(n)
    <2>1. epc[n] = "running" /\ 0 \in Visited(n) /\ mem[n].curr = 0 /\ Needed(n) \subseteq Visited(n)
      <3>1. PICK k \in Needed(n) : k \in Visited(n) /\ Needed(n) = {k} /\ epc[n] = "running"
        BY <1>4, YesMeansVisited, NeededNext DEF RunOk, TxInv
      <3>2. k = 0 /\ mem[n].curr = 0
        BY <3>1, NeededNext DEF TxInv, Stages
      <3> QED
        BY <3>1, <3>2
    <2>2. PICK x \in Contexts :
             /\ x.status = "Committed" /\ x.curr = 0 /\ x.input = 1
             /\ mem' = [mem EXCEPT ![n] = x]
      <3>1. mem' = [mem EXCEPT ![n] = Exec(n)!CommittedContext(mem[n])]
        BY <1>4 DEF RunOk
      <3>2. /\ Exec(n)!CommittedContext(mem[n]) \in Contexts
            /\ Exec(n)!CommittedContext(mem[n]).status = "Committed"
            /\ Exec(n)!CommittedContext(mem[n]).curr = 0
            /\ Exec(n)!CommittedContext(mem[n]).input = 1
        BY <1>1, <2>1, CommittedMade
      <3> QED
        BY <3>1, <3>2
    <2>3. Honest(n, x)
      BY <2>1, <2>2 DEF Honest
    <2>4. MovesOn(n, x, row[n], "saving")
      BY <1>1, <1>4, <2>1, <2>2, <2>3 DEF RunOk, Returns, ExecGoto, MovesOn
    <2> QED
      BY <2>4
  <1>5. ASSUME NEW why, RunFails(n, why)
        PROVE  \E x \in Contexts : MovesOn(n, x, row[n], "failed")
    <2>1. PICK x \in Contexts : x.status = "Aborted" /\ mem' = [mem EXCEPT ![n] = x]
      <3>1. mem' = [mem EXCEPT ![n] = Exec(n)!WithStatus(mem[n], "Aborted")]
        BY <1>5 DEF RunFails
      <3>2. /\ Exec(n)!WithStatus(mem[n], "Aborted") \in Contexts
            /\ Exec(n)!WithStatus(mem[n], "Aborted").status = "Aborted"
        BY <1>1, StatusMade
      <3> QED
        BY <3>1, <3>2
    <2>2. epc[n] = "running" /\ epc' = [epc EXCEPT ![n] = "failed"] /\ Fails(n, why)
      BY <1>5 DEF RunFails, ExecGoto
    <2>3. MovesOn(n, x, row[n], "failed")
      BY <1>1, <2>1, <2>2, FailsMarks DEF MovesOn
    <2> QED
      BY <2>3
  <1> QED
    BY <1>2, <1>3, <1>4, <1>5

LEMMA ManagerMoves ==
    ASSUME ChainTypeOK, AnswerMeansApplied, NEW n \in Txs, TxInv(n),
           \/ Take(n) \/ ExecuteOk(n) \/ \E why : ExecuteFails(n, why)
           \/ Finish(n) \/ Checkpoint(n)
    PROVE  \E x \in Contexts, y \in {row[n], mem[n]},
              label \in ExecutorPCs \ {"new", "gone"} : MovesOn(n, x, y, label)
  <1> USE ExecutorValues
  <1>1. /\ mem[n] \in Contexts /\ row = [row EXCEPT ![n] = row[n]]
        /\ mem = [mem EXCEPT ![n] = mem[n]]
        /\ mem[n].curr \in 0 .. K /\ mem[n].input \in 0 .. K + 1 /\ K \in Nat
        /\ faults \in {faults, faults + 1} /\ faults <= MaxFaults
    BY Messages DEF ChainTypeOK
  <1>2. /\ epc[n] \notin {"new", "gone", "running", "failed"}
        /\ Honest(n, mem[n]) /\ mem[n].status \notin {"Pending", "ForceComplete"}
    BY DEF Take, ExecuteOk, ExecuteFails, Finish, Checkpoint, TxInv, Backing, LifeKept
  <1>3. CASE Take(n)
    <2>1. Needed(n) = {}
      BY <1>3 DEF Take, Needed
    <2>2. MovesOn(n, mem[n], row[n], "normal")
      BY <1>1, <1>2, <1>3, <2>1, NothingNeeded DEF Take, ExecGoto, rowVars, MovesOn
    <2> QED
      BY <1>1, <2>2
  <1>4. CASE ExecuteOk(n)
    <2>1. PICK k \in Needed(n) : k \in Visited(n) /\ Needed(n) = {k}
      BY <1>4, YesMeansVisited, NeededNext DEF TxInv, ExecuteOk
    <2>2. k \in Stages /\ k > 0 /\ mem[n].curr = k - 1 /\ mem[n].input = k
      BY <1>2, <2>1, NeededNext DEF TxInv, Stages
    <2>3. PICK x \in Contexts :
             /\ x.status = mem[n].status /\ x.curr = k /\ x.input = k + 1
             /\ mem' = [mem EXCEPT ![n] = x]
      <3>1. mem' = [mem EXCEPT ![n] = Exec(n)!Passed(mem[n])]
        BY <1>4 DEF ExecuteOk
      <3>2. mem[n].curr + 1 = k /\ mem[n].input = mem[n].curr + 1
        BY <1>1, <2>2
      <3>3. /\ Exec(n)!Passed(mem[n]) \in Contexts
            /\ Exec(n)!Passed(mem[n]).status = mem[n].status
            /\ Exec(n)!Passed(mem[n]).curr = mem[n].curr + 1
            /\ Exec(n)!Passed(mem[n]).input = mem[n].input + 1
        BY <1>1, <2>2, <3>2, PassedMade
      <3> QED
        BY <2>2, <3>1, <3>2, <3>3
    <2>4. Honest(n, x)
      <3>1. \A j \in 0 .. (k - 1) : j \in Visited(n)
        BY <2>1, NeededNext DEF TxInv
      <3>2. x.status # "Completed"
        BY <1>1, <1>2, <2>2, <2>3 DEF Honest, Stages
      <3> QED
        BY <1>2, <2>1, <2>2, <2>3, <3>1, <3>2 DEF Honest, Stages
    <2>5. MovesOn(n, x, row[n], "normalSave")
      BY <1>1, <1>2, <1>4, <2>1, <2>3, <2>4 DEF ExecuteOk, Returns, ExecGoto, MovesOn
    <2> QED
      BY <2>5
  <1>5. ASSUME NEW why, ExecuteFails(n, why)
        PROVE  MovesOn(n, mem[n], row[n], "retrying")
    <2>1. epc' = [epc EXCEPT ![n] = "retrying"] /\ Fails(n, why) /\ mem' = mem
      BY <1>5 DEF ExecuteFails, ExecGoto
    <2> QED
      BY <1>1, <1>2, <2>1, FailsMarks DEF MovesOn
  <1>6. CASE Finish(n)
    <2>1. epc[n] = "normal" /\ mem[n].curr = K /\ Needed(n) = {}
      BY <1>1, <1>6 DEF Finish, Needed, Exec!HasNext
    <2>2. PICK x \in Contexts :
             /\ x.status = "Completed" /\ x.curr = mem[n].curr /\ x.input = mem[n].input
             /\ mem' = [mem EXCEPT ![n] = x]
      <3>1. mem' = [mem EXCEPT ![n] = Exec(n)!WithStatus(mem[n], "Completed")]
        BY <1>6 DEF Finish
      <3>2. /\ Exec(n)!WithStatus(mem[n], "Completed") \in Contexts
            /\ Exec(n)!WithStatus(mem[n], "Completed").status = "Completed"
            /\ Exec(n)!WithStatus(mem[n], "Completed").curr = mem[n].curr
            /\ Exec(n)!WithStatus(mem[n], "Completed").input = mem[n].input
        BY <1>1, StatusMade
      <3> QED
        BY <3>1, <3>2
    <2>3. Honest(n, x)
      BY <1>2, <2>1, <2>2 DEF Honest
    <2>4. MovesOn(n, x, row[n], "completing")
      BY <1>1, <1>2, <1>6, <2>1, <2>2, <2>3, NothingNeeded DEF Finish, ExecGoto, MovesOn
    <2> QED
      BY <2>4
  <1>7. CASE Checkpoint(n)
    <2>1. PICK label \in {"sending", "normal", "ended"} :
             epc' = [epc EXCEPT ![n] = label]
      BY <1>7 DEF Checkpoint, ExecGoto
    <2>2. Needed(n) = {}
      BY <1>7 DEF Checkpoint, Needed
    <2>3. MovesOn(n, mem[n], mem[n], label)
      BY <1>1, <1>2, <1>7, <2>1, <2>2, NothingNeeded DEF Checkpoint, MovesOn
    <2> QED
      BY <1>1, <2>1, <2>3
  <1> QED
    BY <1>1, <1>3, <1>4, <1>5, <1>6, <1>7

\* An executor's move leaves the other transactions alone.
LEMMA MoveKeepsRows ==
    ASSUME RowsInv, NEW n \in Txs, NEW x \in Contexts, NEW y \in {row[n], mem[n]},
           NEW label \in ExecutorPCs \ {"new", "gone"}, MovesOn(n, x, y, label)
    PROVE  RowsInv'
  <1>1. ChainTypeOK'
    BY MoveKeepsTypes DEF RowsInv
  <1>2. TxInv(n)'
    BY MoveKeeps DEF RowsInv
  <1>3. ASSUME NEW d \in Txs, d # n
        PROVE  TxInv(d)'
    <2>1. /\ row'[d] = row[d] /\ mem'[d] = mem[d] /\ epc'[d] = epc[d]
          /\ call'[d] = call[d] /\ lost'[d] = lost[d]
      BY <1>3 DEF MovesOn, RowsInv, ChainTypeOK
    <2>2. UNCHANGED <<applied, pc, recovered, recovery, crashes>>
      BY DEF MovesOn, participantVars, originVars, dbVars
    <2>3. crashes[d] <= faults => crashes[d] <= faults'
      <3>1. crashes[d] \in Nat /\ faults \in Nat /\ faults' \in {faults, faults + 1}
        BY Messages DEF MovesOn, RowsInv, ChainTypeOK
      <3> QED
        BY <3>1
    <2> QED
      BY <2>1, <2>2, <2>3, UntouchedTx DEF RowsInv
  <1> QED
    BY <1>1, <1>2, <1>3 DEF RowsInv

\* What Ask does, with the slot it takes.
LEMMA AskSends ==
    ASSUME ChainTypeOK, NEW n \in Txs, TxInv(n), Ask(n)
    PROVE  \E k \in Needed(n), s \in Slots :
              /\ <<n, k, s>> \in Msgs
              /\ AtRest(<<n, k, s>>)
              /\ call' = [call EXCEPT ![n] = <<n, k, s>>]
              /\ pc' = [pc EXCEPT ![<<n, k, s>>] = "idle"]
              /\ answer' = [answer EXCEPT ![<<n, k, s>>] = "none"]
              /\ \/ disturbed' = disturbed \cup {k}
                 \/ disturbed' = disturbed /\ \A r \in Slots : pc[<<n, k, r>>] = "unsent"
              /\ UNCHANGED <<clock, queue, reply, filterVars, dropResp, dbVars,
                             rowVars, epc, lost, faults>>
  <1>1. PICK k \in Needed(n) :
           LET free == {s \in Slots : AtRest(<<n, k, s>>)}
               m == <<n, k, CHOOSE s \in free : TRUE>>
               again == \E s \in Slots : pc[<<n, k, s>>] # "unsent"
           IN  /\ free # {}
               /\ call' = [call EXCEPT ![n] = m]
               /\ pc' = [pc EXCEPT ![m] = "idle"]
               /\ answer' = [answer EXCEPT ![m] = "none"]
               /\ disturbed' = IF again THEN disturbed \cup {k} ELSE disturbed
    BY DEF Ask
  <1> DEFINE free == {s \in Slots : AtRest(<<n, k, s>>)}
             slot == CHOOSE s \in free : TRUE
  <1>2. slot \in free
    <2>1. \E s : s \in free
      BY <1>1
    <2> QED
      BY <2>1, Zenon
  <1>3. slot \in Slots /\ AtRest(<<n, k, slot>>)
    BY <1>2
  <1>4. <<n, k, slot>> \in Msgs
    BY <1>3, Messages, NeededNext DEF TxInv
  <1>5. /\ call' = [call EXCEPT ![n] = <<n, k, slot>>]
        /\ pc' = [pc EXCEPT ![<<n, k, slot>>] = "idle"]
        /\ answer' = [answer EXCEPT ![<<n, k, slot>>] = "none"]
    BY <1>1
  <1>6. \/ disturbed' = disturbed \cup {k}
        \/ disturbed' = disturbed /\ \A r \in Slots : pc[<<n, k, r>>] = "unsent"
    BY <1>1
  <1>7. UNCHANGED <<clock, queue, reply, filterVars, dropResp, dbVars, rowVars, epc,
                    lost, faults>>
    BY DEF Ask
  <1> HIDE DEF slot
  <1> QED
    BY <1>3, <1>4, <1>5, <1>6, <1>7

\* A request is sent.
LEMMA AskKeepsRows ==
    ASSUME RowsInv, NEW n \in Txs, Ask(n)
    PROVE  RowsInv'
  <1>1. PICK k \in Needed(n), s \in Slots :
           /\ <<n, k, s>> \in Msgs
           /\ AtRest(<<n, k, s>>)
           /\ call' = [call EXCEPT ![n] = <<n, k, s>>]
           /\ pc' = [pc EXCEPT ![<<n, k, s>>] = "idle"]
           /\ answer' = [answer EXCEPT ![<<n, k, s>>] = "none"]
           /\ disturbed' \subseteq disturbed \cup {k}
           /\ UNCHANGED <<clock, queue, reply, filterVars, dropResp, dbVars,
                          rowVars, epc, lost, faults>>
    BY AskSends DEF RowsInv
  <1> DEFINE m == <<n, k, s>>
  <1>2. k \in Stages
    BY NeededNext DEF RowsInv, TxInv
  <1>3. UNCHANGED <<row, mem, epc, lost, recovered, recovery, crashes, applied, faults>>
    BY <1>1 DEF rowVars, dbVars
  <1>4. ChainTypeOK'
    <2>1. /\ call' \in [Txs -> Msgs \cup {NoCall}]
          /\ pc' \in [Msgs -> RequestPCs \cup {"unsent", "gone"}]
          /\ answer' \in [Msgs -> {"none", "ok", "unavailable", "aborted"}]
          /\ disturbed' \subseteq Stages
      BY <1>1, <1>2 DEF RowsInv, ChainTypeOK, RequestPCs, PCs
    <2> QED
      BY <1>1, <1>3, <2>1 DEF RowsInv, ChainTypeOK, dbVars
  <1>5. ASSUME NEW d \in Txs, d # n
        PROVE  TxInv(d)'
    <2>1. call'[d] = call[d] /\ \A o \in Msgs : o[1] = d => pc'[o] = pc[o]
      BY <1>1, <1>5 DEF RowsInv, ChainTypeOK
    <2> QED
      BY <1>3, <2>1, UntouchedTx DEF RowsInv
  <1>6. TxInv(n)'
    <2>1. Visited(n)' = Visited(n) /\ Needed(n)' = Needed(n)
      BY <1>3 DEF Visited, Visitors, Needed
    <2>2. Backing(n)' /\ LifeKept(n)'
      BY <1>3, <2>1 DEF RowsInv, TxInv, Backing, Honest, LifeKept, Exec!NewContext
    <2>3. /\ call'[n] = m /\ pc'[m] = "idle" /\ m[1] = n /\ m[2] = k
          /\ \A o \in Msgs : o # m => pc'[o] = pc[o]
      BY <1>1 DEF RowsInv, ChainTypeOK
    <2>4. CallNeeded(n)'
      BY <1>1, <2>1, <2>3 DEF CallNeeded
    <2>5. Underway(n)'
      BY <1>1, <1>3, <2>1, <2>3 DEF RowsInv, TxInv, Underway, AtRest
    <2> QED
      BY <2>2, <2>4, <2>5 DEF TxInv
  <1> QED
    BY <1>4, <1>5, <1>6 DEF RowsInv

-----------------------------------------------------------------------------
(* Crash and recovery                                                      *)

\* A new context claims nothing.
LEMMA NewMade ==
    ASSUME NEW n \in Txs
    PROVE  /\ Exec(n)!NewContext \in Contexts
           /\ Exec(n)!NewContext.status = "Pending"
           /\ Exec(n)!NewContext.curr = 0 /\ Exec(n)!NewContext.input = 0
  BY Messages, ExecutorValues DEF Exec!NewContext

\* A recovery of any phase that has asked for nothing.
LEMMA RecoveryMade ==
    ASSUME NEW x \in Contexts, NEW phase \in {"none", "unread", "requesting"}
    PROVE  /\ RecoveryAt(phase, x) \in Recoveries
           /\ RecoveryAt(phase, x).phase = phase
           /\ RecoveryAt(phase, x).ctx = x
           /\ RecoveryAt(phase, x).tries = 0
  BY ExecutorValues DEF RecoveryAt

\* A recovery that goes on keeps what it has read.
LEMMA RecoveryGoesOn ==
    ASSUME NEW r \in Recoveries
    PROVE  /\ [r EXCEPT !.tries = 1] \in Recoveries
           /\ [r EXCEPT !.tries = 1].tries = 1
           /\ [r EXCEPT !.tries = 1].ctx = r.ctx
           /\ [r EXCEPT !.tries = 1].phase = r.phase
  BY ExecutorValues

LEMMA CrashKeepsTx ==
    ASSUME RowsInv, Crash, NEW n \in Txs
    PROVE  TxInv(n)'
  <1> DEFINE new == Exec(n)!NewContext
  <1>1. /\ epc'[n] = IF Created(n) THEN "gone" ELSE "new"
        /\ mem'[n] = new /\ call'[n] = NoCall
        /\ lost'[n] = lost[n] \cup Needed(n)
        /\ crashes'[n] = IF Created(n) THEN crashes[n] + 1 ELSE crashes[n]
        /\ recovered' = {}
        /\ recovery'[n] = IF Created(n) THEN RecoveryAt("unread", new) ELSE recovery[n]
        /\ row'[n] = row[n] /\ faults' = faults + 1
        /\ UNCHANGED <<applied, pc>>
    BY DEF Crash, Fault, participantVars, originVars, dbVars
  <1>2. Visited(n)' = Visited(n)
    BY <1>1 DEF Visited, Visitors
  <1>3. new.status = "Pending" /\ new.curr = 0 /\ new.input = 0
    BY NewMade
  <1>4. /\ RecoveryAt("unread", new).phase = "unread"
        /\ RecoveryAt("unread", new).ctx = new
    BY NewMade, RecoveryMade
  <1>5. \A k \in Visited(n) \cup lost'[n] : \A j \in 0 .. (k - 1) : j \in Visited(n)
    BY <1>1, NeededNext DEF RowsInv, TxInv, Backing
  <1>6. Backing(n)'
    <2>1. Honest(n, mem[n])'
      BY <1>1, <1>2, <1>3 DEF Honest
    <2>2. Honest(n, row[n])'
      BY <1>1, <1>2 DEF RowsInv, TxInv, Backing, Honest
    <2>3. Honest(n, recovery[n].ctx)'
      BY <1>1, <1>2, <1>3, <1>4 DEF RowsInv, TxInv, Backing, Honest
    <2> QED
      BY <1>1, <1>2, <1>5, <2>1, <2>2, <2>3 DEF Backing
  <1>7. LifeKept(n)'
    <2>1. crashes'[n] <= faults'
      <3>1. crashes[n] \in Nat /\ faults \in Nat /\ crashes[n] <= faults
        BY Messages DEF RowsInv, ChainTypeOK, TxInv, LifeKept
      <3> QED
        BY <1>1, <3>1
    <2>2. epc'[n] = "new" => /\ row'[n] = new /\ mem'[n] = new
                             /\ lost'[n] = {} /\ recovery'[n].phase = "none"
      BY <1>1 DEF Created, RowsInv, TxInv, LifeKept, Needed
    <2>3. "ForceComplete" \notin {row'[n].status, mem'[n].status, recovery'[n].ctx.status}
      BY <1>1, <1>3, <1>4 DEF RowsInv, TxInv, LifeKept
    <2>4. \/ recovery'[n].phase = "unread"
          \/ recovery'[n].phase = "requesting" /\ recovery'[n].tries = 0
          => epc'[n] = "gone"
      BY <1>1, <1>4 DEF Created, RowsInv, TxInv, LifeKept
    <2> QED
      BY <1>1, <2>1, <2>2, <2>3, <2>4 DEF LifeKept, Exec!NewContext
  <1>8. CallNeeded(n)'
    BY <1>1 DEF CallNeeded
  <1>9. Underway(n)'
    BY <1>1, <1>2 DEF RowsInv, TxInv, Underway, AtRest
  <1> QED
    BY <1>6, <1>7, <1>8, <1>9 DEF TxInv

LEMMA CrashKeepsTypes ==
    ASSUME RowsInv, Crash
    PROVE  ChainTypeOK'
  <1>1. UNCHANGED <<participantVars, row, disturbed>>
    BY DEF Crash
  <1>2. mem' \in [Txs -> Contexts] /\ epc' \in [Txs -> ExecutorPCs]
    BY NewMade, ExecutorValues DEF Crash
  <1>3. call' \in [Txs -> Msgs \cup {NoCall}] /\ recovered' \subseteq Txs
    BY DEF Crash
  <1>4. lost' \in [Txs -> SUBSET Stages]
    BY NeededNext DEF Crash, RowsInv, ChainTypeOK, TxInv
  <1>5. recovery' \in [Txs -> Recoveries]
    <2>1. recovery' =
            [n \in Txs |-> IF Created(n) THEN RecoveryAt("unread", Exec(n)!NewContext)
                                         ELSE recovery[n]]
      BY DEF Crash
    <2>2. \A n \in Txs : RecoveryAt("unread", Exec(n)!NewContext) \in Recoveries
      BY NewMade, RecoveryMade
    <2> QED
      BY <2>1, <2>2 DEF RowsInv, ChainTypeOK
  <1>6. faults' \in 0 .. MaxFaults /\ faults' = faults + 1
    BY Messages DEF Crash, Fault, RowsInv, ChainTypeOK
  <1>7. crashes' \in [Txs -> 0 .. MaxFaults]
    <2>1. ASSUME NEW n \in Txs
          PROVE  crashes[n] \in 0 .. MaxFaults /\ crashes[n] + 1 \in 0 .. MaxFaults
      <3>1. crashes[n] \in 0 .. MaxFaults /\ crashes[n] <= faults
        BY DEF RowsInv, ChainTypeOK, TxInv, LifeKept
      <3>2. MaxFaults \in Nat /\ faults \in Nat
        BY Messages DEF RowsInv, ChainTypeOK
      <3> QED
        BY <1>6, <3>1, <3>2
    <2> QED
      BY <2>1 DEF Crash
  <1> QED
    BY <1>1, <1>2, <1>3, <1>4, <1>5, <1>6, <1>7
       DEF RowsInv, ChainTypeOK, participantVars, originVars, dbVars

LEMMA RecoverKeepsRows ==
    ASSUME RowsInv, Recover
    PROVE  RowsInv'
  <1>1. UNCHANGED <<applied, pc, row, mem, recovered, crashes, epc, call, lost,
                    disturbed, faults>>
    BY DEF Recover, participantVars, originVars, dbVars
  <1>2. ASSUME NEW n \in Txs
        PROVE  /\ recovery'[n] \in Recoveries
               /\ \/ recovery'[n] = recovery[n]
                  \/ /\ recovery[n].phase = "unread"
                     /\ recovery'[n].phase # "unread" /\ recovery'[n].ctx = row[n]
    <2>1. recovery[n] \in Recoveries /\ row[n] \in Contexts
      BY DEF RowsInv, ChainTypeOK
    <2>2. recovery'[n] = IF recovery[n].phase # "unread" THEN recovery[n]
                         ELSE IF row[n].status = "Completed" THEN RecoveryAt("none", row[n])
                         ELSE RecoveryAt("requesting", row[n])
      BY DEF Recover
    <2> QED
      BY <2>1, <2>2, RecoveryMade
  <1>3. ChainTypeOK'
    <2>1. recovery' \in [Txs -> Recoveries]
      BY <1>2 DEF Recover
    <2>2. UNCHANGED participantVars
      BY DEF Recover
    <2> QED
      BY <1>1, <2>1, <2>2 DEF RowsInv, ChainTypeOK, participantVars, originVars, dbVars
  <1>4. ASSUME NEW n \in Txs
        PROVE  TxInv(n)'
    <2>1. Visited(n)' = Visited(n) /\ Needed(n)' = Needed(n)
      BY <1>1 DEF Visited, Visitors, Needed
    <2>2. Backing(n)'
      BY <1>1, <1>2, <2>1 DEF RowsInv, TxInv, Backing, Honest
    <2>3. LifeKept(n)'
      BY <1>1, <1>2 DEF RowsInv, TxInv, LifeKept, Exec!NewContext
    <2>4. CallNeeded(n)' /\ Underway(n)'
      BY <1>1, <2>1 DEF RowsInv, TxInv, CallNeeded, Underway, AtRest
    <2> QED
      BY <2>2, <2>3, <2>4 DEF TxInv
  <1> QED
    BY <1>3, <1>4 DEF RowsInv

\* A recovery request reaches the handler.
LEMMA RecoveryKeepsRows ==
    ASSUME RowsInv, NEW n \in Txs, RecoveryRequest(n)
    PROVE  RowsInv'
  <1>1. UNCHANGED <<participantVars, applied, pc, row, crashes, call, lost, disturbed,
                    faults>>
    BY DEF RecoveryRequest, participantVars, originVars, dbVars
  <1>2. /\ recovery[n] \in Recoveries /\ recovery[n].ctx \in Contexts
        /\ recovery[n].phase = "requesting"
    <2>1. recovery[n] \in Recoveries
      BY DEF RowsInv, ChainTypeOK
    <2>2. recovery[n].ctx \in Contexts
      BY <2>1, ExecutorValues
    <2>3. recovery[n].phase = "requesting"
      BY DEF RecoveryRequest
    <2> QED
      BY <2>1, <2>2, <2>3
  <1>3. /\ mem' = [mem EXCEPT ![n] = recovery[n].ctx]
        /\ recovered' = recovered \cup {n}
        /\ epc' = [epc EXCEPT ![n] = "running"]
        /\ recovery' = [recovery EXCEPT ![n].tries = 1]
        /\ recovery[n].ctx.status # "Pending" /\ recovery[n].tries = 0
    BY DEF RecoveryRequest, ExecGoto
  <1>4. /\ recovery'[n].tries = 1 /\ recovery'[n].ctx = recovery[n].ctx
        /\ recovery'[n].phase = "requesting" /\ recovery'[n] \in Recoveries
        /\ mem'[n] = recovery[n].ctx /\ epc'[n] = "running"
    <2>1. /\ recovery'[n] = [recovery[n] EXCEPT !.tries = 1]
          /\ mem'[n] = recovery[n].ctx /\ epc'[n] = "running"
      BY <1>3 DEF RowsInv, ChainTypeOK
    <2> QED
      BY <1>2, <2>1, RecoveryGoesOn
  <1>5. ChainTypeOK'
    <2>1. /\ mem' \in [Txs -> Contexts] /\ epc' \in [Txs -> ExecutorPCs]
          /\ recovered' \subseteq Txs /\ recovery' \in [Txs -> Recoveries]
      BY <1>2, <1>3, <1>4, ExecutorValues DEF RowsInv, ChainTypeOK
    <2> QED
      BY <1>1, <2>1 DEF RowsInv, ChainTypeOK, participantVars, originVars, dbVars
  <1>6. TxInv(n)'
    <2>1. epc[n] = "gone" /\ Needed(n) = {}
      BY <1>2, <1>3 DEF RowsInv, TxInv, LifeKept, Needed
    <2>2. Visited(n)' = Visited(n) /\ Needed(n)' = {}
      BY <1>1, <1>3, <1>4 DEF Visited, Visitors, Needed
    <2>3. Backing(n)'
      BY <1>1, <1>4, <2>2 DEF RowsInv, TxInv, Backing, Honest
    <2>4. LifeKept(n)'
      BY <1>1, <1>3, <1>4 DEF RowsInv, TxInv, LifeKept, Exec!NewContext
    <2>5. CallNeeded(n)'
      BY <1>1, <2>1 DEF RowsInv, TxInv, CallNeeded
    <2>6. Underway(n)'
      BY <1>1, <2>1, <2>2 DEF RowsInv, TxInv, Underway, AtRest
    <2> QED
      BY <2>3, <2>4, <2>5, <2>6 DEF TxInv
  <1>7. ASSUME NEW d \in Txs, d # n
        PROVE  TxInv(d)'
    <2>1. /\ mem'[d] = mem[d] /\ epc'[d] = epc[d] /\ recovery'[d] = recovery[d]
          /\ d \in recovered' <=> d \in recovered
      BY <1>3, <1>7 DEF RowsInv, ChainTypeOK
    <2> QED
      BY <1>1, <2>1, UntouchedTx DEF RowsInv
  <1> QED
    BY <1>5, <1>6, <1>7 DEF RowsInv

-----------------------------------------------------------------------------
(* The steps of the receivers                                              *)

\* The control states of a message here: the middleware's, not sent, cut off.
MsgPCs == RequestPCs \cup {"unsent", "gone"}

LEMMA ChainTyped ==
    ASSUME ChainTypeOK, NoFilters
    PROVE  TypedBy(MsgPCs)
  BY DEF ChainTypeOK, NoFilters, TypedBy, MsgPCs

\* What the middleware and the handler do with a request.
Serves(m) ==
    \/ Acquire(m) \/ Release(m) \/ BeforeHook(m) \/ AfterHook(m)
    \/ StatementFails(m) \/ Commit(m) \/ CommitFails(m)
    \/ clock[QueueOf[m]] >= N /\ ReleaseUncounted(m)

\* The executors take no part in it.
LEMMA ReceiverServes ==
    ASSUME ChainTypeOK, NEW m \in Msgs, Progress(m) \/ DatabaseFails(m)
    PROVE  /\ Serves(m)
           /\ UNCHANGED <<executorVars, disturbed>>
           /\ faults' \in {faults, faults + 1} /\ faults' <= MaxFaults
  <1>1. faults <= MaxFaults
    BY ChainAssumption DEF ChainTypeOK
  <1>2. CASE Progress(m)
    BY <1>1, <1>2 DEF Progress, ReleaseUpToN, Serves
  <1>3. CASE DatabaseFails(m)
    <2>1. Serves(m) /\ UNCHANGED <<executorVars, disturbed>>
      BY <1>3 DEF DatabaseFails, Serves
    <2>2. faults' \in {faults, faults + 1} /\ faults' <= MaxFaults
      <3>1. Fault("statement") \/ UNCHANGED faults
        BY <1>3 DEF DatabaseFails
      <3> QED
        BY <1>1, <3>1, ChainAssumption DEF Fault, ChainTypeOK
    <2> QED
      BY <2>1, <2>2
  <1> QED
    BY <1>2, <1>3

LEMMA ServesTypes ==
    ASSUME ChainTypeOK, NoFilters, NEW m \in Msgs, Serves(m)
    PROVE  TypedBy(MsgPCs)'
  <1>1. TypedBy(MsgPCs) /\ RequestPCs \subseteq MsgPCs
    BY ChainTyped DEF MsgPCs
  <1>2. CASE ReleaseUncounted(m)
    <2>1. pc' \in [Msgs -> MsgPCs]
      BY <1>1, <1>2, GotoType DEF ReleaseUncounted, RequestPCs, PCs
    <2> QED
      BY <1>1, <1>2, <2>1 DEF ReleaseUncounted, TypedBy, filterVars, dbVars
  <1>3. CASE \/ BeforeHook(m) \/ AfterHook(m) \/ StatementFails(m)
             \/ Commit(m) \/ CommitFails(m)
    BY <1>1, <1>3, HandlerType
  <1>4. CASE Acquire(m) \/ Release(m)
    BY <1>1, <1>4, AcquireType, ReleaseType
  <1> QED
    BY <1>2, <1>3, <1>4 DEF Serves

\* A step is about one request that is under way, and commits only what is inserted.
LEMMA ServesOne ==
    ASSUME ChainTypeOK, NEW m \in Msgs, Serves(m)
    PROVE  /\ ~AtRest(m) /\ pc'[m] \notin {"unsent", "idle", "gone"}
           /\ \A o \in Msgs : o # m => pc'[o] = pc[o]
           /\ \/ UNCHANGED dbVars
              \/ /\ pc[m] = "inserted" /\ CommitDb(m)
                 /\ pc'[m] \in {"served", "failed"}
           /\ UNCHANGED <<filterVars, dropResp>>
  <1>1. UNCHANGED <<filterVars, dropResp>>
    BY DEF Serves, Acquire, Release, ReleaseUncounted, BeforeHook, AfterHook,
           StatementFails, Commit, CommitFails
  <1>2. PICK label \in MsgPCs \ {"unsent", "idle", "gone"} : Goto(m, label)
    BY DEF Serves, Acquire, EnqueueLate, Enqueue, AcquireNext, Receive,
           Release, Advance, ReleaseNext, ReleaseUncounted,
           BeforeHook, AfterHook, StatementFails, Commit, CommitFails, Abort,
           MsgPCs, RequestPCs, PCs
  <1>3. /\ pc'[m] = label
        /\ \A o \in Msgs : o # m => pc'[o] = pc[o]
    BY <1>2 DEF Goto, ChainTypeOK
  <1>4. ~AtRest(m)
    BY DEF Serves, Acquire, EnqueueLate, Enqueue, AcquireNext, Receive,
           Release, Advance, ReleaseNext, ReleaseUncounted,
           BeforeHook, AfterHook, StatementFails, Commit, CommitFails, AtRest
  <1>5. \/ UNCHANGED dbVars
        \/ /\ pc[m] = "inserted" /\ CommitDb(m)
           /\ Goto(m, "served") \/ Goto(m, "failed")
    BY DEF Serves, Acquire, Release, ReleaseUncounted, BeforeHook, AfterHook,
           StatementFails, Commit, CommitFails, Abort
  <1> QED
    BY <1>1, <1>3, <1>4, <1>5 DEF Goto, ChainTypeOK

\* A commit is the first visit of the transaction at the receiver.
LEMMA CommitVisits ==
    ASSUME ChainTypeOK, ParticipantIInv, NEW m \in Msgs, pc[m] = "inserted", CommitDb(m)
    PROVE  /\ m[1] \in Txs /\ m[2] \in Stages
           /\ m[2] \notin Visited(m[1])
           /\ applied' = [applied EXCEPT ![m[2]] = Append(@, m[1])]
           /\ Visitors(m[2])' = Visitors(m[2]) \cup {m[1]}
           /\ \A k \in Stages : k # m[2] => Visitors(k)' = Visitors(k)
  <1> DEFINE k == m[2]
             n == m[1]
  <1>1. n \in Txs /\ k \in Stages /\ QueueOf[m] = k /\ Ts[m] = n /\ Queues = Stages
    BY Messages
  <1>2. applied' = [applied EXCEPT ![k] = Append(@, n)]
    BY <1>1 DEF CommitDb
  <1>3. applied[k] \in Seq(Nat) /\ n \in Nat
    BY <1>1, MsgAssumption DEF ChainTypeOK
  <1>4. applied'[k] = Append(applied[k], n) /\ \A j \in Stages : j # k => applied'[j] = applied[j]
    BY <1>1, <1>2 DEF ChainTypeOK
  <1>5. n \notin Visitors(k)
    <2>1. <<k, n>> \notin txResult
      BY <1>1 DEF ParticipantIInv, InsertAlone, Key
    <2>2. ASSUME NEW i \in DOMAIN applied[k], applied[k][i] = n
          PROVE  <<k, n>> \in txResult
      BY <1>1, <2>2 DEF ParticipantIInv, RecordedIffApplied
    <2> QED
      BY <2>1, <2>2 DEF Visitors
  <1>6. Visitors(k)' = Visitors(k) \cup {n}
    <2>1. /\ \A i \in DOMAIN applied[k] :
                i \in DOMAIN applied'[k] /\ applied'[k][i] = applied[k][i]
          /\ \A i \in DOMAIN applied'[k] :
                i \in DOMAIN applied[k] \/ applied'[k][i] = n
          /\ Len(applied[k]) + 1 \in DOMAIN applied'[k]
          /\ applied'[k][Len(applied[k]) + 1] = n
      BY <1>3, <1>4, SeenAppend
    <2> QED
      BY <2>1 DEF Visitors
  <1>7. \A j \in Stages : j # k => Visitors(j)' = Visitors(j)
    BY <1>4 DEF Visitors
  <1> QED
    BY <1>1, <1>2, <1>5, <1>6, <1>7 DEF Visited

\* What a transaction has been at only grows, by stages it needs or has given up.
LEMMA VisitsGrow ==
    ASSUME RowsInv, ParticipantIInv, NEW m \in Msgs, Serves(m), NEW n \in Txs
    PROVE  /\ Visited(n) \subseteq Visited(n)'
           /\ Visited(n)' \subseteq Visited(n) \cup Needed(n) \cup lost[n]
  <1>1. CASE UNCHANGED dbVars
    BY <1>1 DEF dbVars, Visited, Visitors
  <1>2. CASE pc[m] = "inserted" /\ CommitDb(m)
    <2>1. m[1] \in Txs /\ m[2] \in Stages /\ m[2] \notin Visited(m[1])
      BY <1>2, CommitVisits DEF RowsInv
    <2>2. m[2] \in Needed(m[1]) \cup lost[m[1]]
      BY <1>2, <2>1 DEF RowsInv, TxInv, Underway, AtRest
    <2>3. /\ Visitors(m[2])' = Visitors(m[2]) \cup {m[1]}
          /\ \A k \in Stages : k # m[2] => Visitors(k)' = Visitors(k)
      BY <1>2, CommitVisits DEF RowsInv
    <2> QED
      BY <2>1, <2>2, <2>3 DEF Visited
  <1> QED
    BY <1>1, <1>2, ServesOne DEF RowsInv

\* What is known of a transaction survives what receivers do.
LEMMA ReceiverKeepsTx ==
    ASSUME RowsInv, UNCHANGED executorVars, faults' \in {faults, faults + 1},
           \A m \in Msgs : pc'[m] # pc[m] => ~AtRest(m) /\ pc'[m] # "unsent",
           NEW n \in Txs,
           Visited(n) \subseteq Visited(n)',
           Visited(n)' \subseteq Visited(n) \cup Needed(n) \cup lost[n]
    PROVE  TxInv(n)'
  <1>1. UNCHANGED <<row, mem, epc, call, lost, recovered, recovery, crashes>>
    BY DEF executorVars, rowVars
  <1>2. Needed(n)' = Needed(n)
    BY <1>1 DEF Needed
  <1>3. Backing(n)'
    <2>1. /\ epc[n] # "failed" => Honest(n, mem[n])'
          /\ Honest(n, row[n])' /\ Honest(n, recovery[n].ctx)'
      BY <1>1 DEF RowsInv, TxInv, Backing, Honest
    <2>2. \A k \in Visited(n)' \cup lost[n] : \A j \in 0 .. (k - 1) : j \in Visited(n)
      BY NeededNext DEF RowsInv, TxInv, Backing
    <2> QED
      BY <1>1, <2>1, <2>2 DEF RowsInv, TxInv, Backing
  <1>4. LifeKept(n)'
    <2>1. crashes[n] <= faults'
      <3>1. crashes[n] \in Nat /\ faults \in Nat /\ crashes[n] <= faults
        BY Messages DEF RowsInv, ChainTypeOK, TxInv, LifeKept
      <3> QED
        BY <3>1
    <2> QED
      BY <1>1, <2>1 DEF RowsInv, TxInv, LifeKept, Exec!NewContext
  <1>5. CallNeeded(n)'
    BY <1>1, <1>2 DEF RowsInv, TxInv, CallNeeded, AtRest
  <1>6. Underway(n)'
    BY <1>1, <1>2 DEF RowsInv, TxInv, Underway, AtRest
  <1> QED
    BY <1>3, <1>4, <1>5, <1>6 DEF TxInv

LEMMA ServesKeepsRows ==
    ASSUME RowsInv, NoFilters, ParticipantIInv,
           NEW m \in Msgs, Progress(m) \/ DatabaseFails(m)
    PROVE  RowsInv'
  <1>1. /\ Serves(m)
        /\ UNCHANGED <<executorVars, disturbed>>
        /\ faults' \in {faults, faults + 1} /\ faults' <= MaxFaults
    BY ReceiverServes DEF RowsInv
  <1>2. ASSUME NEW n \in Txs
        PROVE  TxInv(n)'
    <2>1. \A o \in Msgs : pc'[o] # pc[o] => ~AtRest(o) /\ pc'[o] # "unsent"
      BY <1>1, ServesOne DEF RowsInv
    <2> QED
      BY <1>1, <2>1, VisitsGrow, ReceiverKeepsTx
  <1>3. ChainTypeOK'
    <2>1. TypedBy(MsgPCs)'
      BY <1>1, ServesTypes DEF RowsInv
    <2>2. faults' \in 0 .. MaxFaults
      BY <1>1, ChainAssumption DEF RowsInv, ChainTypeOK
    <2> QED
      BY <1>1, <2>1, <2>2 DEF RowsInv, ChainTypeOK, TypedBy, MsgPCs, executorVars, rowVars
  <1> QED
    BY <1>2, <1>3 DEF RowsInv

LEMMA RestartKeepsRows ==
    ASSUME RowsInv, NEW q \in Queues, RestartReceiver(q)
    PROVE  RowsInv'
  <1> DEFINE cut == {m \in MsgsOf(q) : ~AtRest(m) /\ pc[m] # "idle"}
  <1>1. /\ clock' = [clock EXCEPT ![q] = 0]
        /\ queue' = [queue EXCEPT ![q] = {}]
        /\ reply' = reply \ cut
        /\ pc' = [m \in Msgs |-> IF m \in cut THEN "gone" ELSE pc[m]]
        /\ answer' = [m \in Msgs |-> IF m \in cut THEN "aborted" ELSE answer[m]]
        /\ disturbed' = disturbed \cup {q}
        /\ UNCHANGED <<filterVars, dropResp, txResult, applied, executorVars>>
    BY DEF RestartReceiver, dbVars
  <1>2. faults' = faults + 1 /\ faults' \in 0 .. MaxFaults
    BY ChainAssumption DEF RestartReceiver, Fault, RowsInv, ChainTypeOK
  <1>3. ASSUME NEW n \in Txs
        PROVE  TxInv(n)'
    <2>1. \A m \in Msgs : pc'[m] # pc[m] => ~AtRest(m) /\ pc'[m] # "unsent"
      BY <1>1
    <2>2. Visited(n)' = Visited(n)
      BY <1>1 DEF Visited, Visitors
    <2> QED
      BY <1>1, <1>2, <2>1, <2>2, ReceiverKeepsTx
  <1>4. ChainTypeOK'
    <2>1. /\ clock' \in [Queues -> Nat] /\ queue' \in [Queues -> SUBSET Msgs]
          /\ reply' \subseteq Msgs
      BY <1>1 DEF RowsInv, ChainTypeOK
    <2>2. /\ pc' \in [Msgs -> RequestPCs \cup {"unsent", "gone"}]
          /\ answer' \in [Msgs -> {"none", "ok", "unavailable", "aborted"}]
      BY <1>1 DEF RowsInv, ChainTypeOK
    <2>3. disturbed' \subseteq Stages
      BY <1>1, Messages DEF RowsInv, ChainTypeOK
    <2> QED
      BY <1>1, <1>2, <2>1, <2>2, <2>3 DEF RowsInv, ChainTypeOK, executorVars, rowVars
  <1> QED
    BY <1>3, <1>4 DEF RowsInv

-----------------------------------------------------------------------------
(* The turns at a receiver nobody has disturbed                            *)

\* A step elsewhere leaves a receiver's turns alone.
LEMMA TurnsElsewhere ==
    ASSUME NEW k, TurnsKept(k), queue[k] \subseteq MsgsOf(k),
           clock'[k] = clock[k], queue'[k] = queue[k], Visitors(k)' = Visitors(k),
           \A o \in MsgsOf(k) : pc'[o] = pc[o] /\ (o \in reply' <=> o \in reply)
    PROVE  TurnsKept(k)'
  <1>1. SentOnce(k)' /\ QueueAhead(k)'
    BY DEF TurnsKept, SentOnce, QueueAhead, MsgsOf
  <1>2. TurnsRespected(k)'
    BY DEF TurnsKept, TurnsRespected, InTurn, Served, MsgsOf
  <1>3. TurnsTaken(k)' /\ VisitsTurned(k)'
    BY DEF TurnsKept, TurnsTaken, VisitsTurned, Served, MsgsOf
  <1> QED
    BY <1>1, <1>2, <1>3 DEF TurnsKept

\* A request joins the queue.
LEMMA EnqueueKeepsTurns ==
    ASSUME ChainTypeOK, NEW k \in Queues, TurnsKept(k), NEW m \in MsgsOf(k), Enqueue(m),
           UNCHANGED dbVars
    PROVE  TurnsKept(k)'
  <1>1. /\ pc[m] = "idle" /\ pc'[m] = "enqueued" /\ Ts[m] > clock[k] /\ m \notin reply
        /\ queue'[k] = queue[k] \cup {m}
        /\ UNCHANGED <<clock, reply, applied>>
        /\ \A o \in MsgsOf(k) : o # m => pc'[o] = pc[o]
    BY DEF Enqueue, Goto, MsgsOf, ChainTypeOK, TurnsKept, TurnsRespected, dbVars
  <1>2. \A o \in queue[k] : o # m
    BY <1>1 DEF TurnsKept, QueueAhead
  <1>3. SentOnce(k)'
    BY <1>1 DEF TurnsKept, SentOnce, MsgsOf
  <1>4. QueueAhead(k)'
    <2> SUFFICES ASSUME NEW o \in queue'[k]
                 PROVE  pc'[o] \in {"enqueued", "waiting"} /\ o \notin reply /\ Ts[o] > clock[k]
      BY <1>1 DEF QueueAhead
    <2>1. CASE o = m
      BY <1>1, <2>1
    <2>2. CASE o # m
      <3>1. o \in queue[k] /\ pc'[o] = pc[o]
        BY <1>1, <2>2 DEF Enqueue, Goto, ChainTypeOK
      <3> QED
        BY <3>1 DEF TurnsKept, QueueAhead
    <2> QED
      BY <2>1, <2>2
  <1>5. TurnsRespected(k)'
    BY <1>1 DEF TurnsKept, TurnsRespected, InTurn, Served, MsgsOf
  <1>6. TurnsTaken(k)' /\ VisitsTurned(k)'
    BY <1>1 DEF TurnsKept, TurnsTaken, VisitsTurned, Served, Visitors, MsgsOf
  <1> QED
    BY <1>3, <1>4, <1>5, <1>6 DEF TurnsKept

\* next is called, before the wait or at the end of Release.
LEMMA GrantKeepsTurns ==
    ASSUME ChainTypeOK, NEW k \in Queues, TurnsKept(k), queue[k] \subseteq MsgsOf(k),
           NEW m \in MsgsOf(k), GrantNext(k), UNCHANGED <<clock, dbVars>>,
           \/ pc[m] = "enqueued" /\ Goto(m, "waiting")
           \/ pc[m] = "advanced" /\ Goto(m, "done")
    PROVE  TurnsKept(k)'
  <1>1. /\ \/ pc[m] = "enqueued" /\ pc'[m] = "waiting"
           \/ pc[m] = "advanced" /\ pc'[m] = "done"
        /\ \A o \in MsgsOf(k) : o # m => pc'[o] = pc[o]
        /\ m \in Msgs
    BY DEF Goto, MsgsOf, ChainTypeOK
  <1>2. /\ queue'[k] \subseteq queue[k]
        /\ \A o \in reply' : o \in reply \/ (o \in queue[k] /\ Ts[o] = clock[k] + 1)
        /\ \A o \in queue'[k] : o \notin reply => o \notin reply'
    <2>1. CASE UNCHANGED <<queue, reply>>
      BY <2>1
    <2>2. ASSUME NEW h \in Heads(k), Ts[h] = clock[k] + 1,
                 queue' = [queue EXCEPT ![k] = @ \ {h}], reply' = reply \cup {h}
          PROVE  /\ queue'[k] \subseteq queue[k]
                 /\ \A o \in reply' : o \in reply \/ (o \in queue[k] /\ Ts[o] = clock[k] + 1)
                 /\ \A o \in queue'[k] : o \notin reply => o \notin reply'
      BY <2>2 DEF Heads, ChainTypeOK
    <2> QED
      BY <2>1, <2>2 DEF GrantNext
  <1>3. SentOnce(k)'
    BY <1>1 DEF TurnsKept, SentOnce, MsgsOf
  <1>4. QueueAhead(k)'
    <2> SUFFICES ASSUME NEW o \in queue'[k]
                 PROVE  pc'[o] \in {"enqueued", "waiting"} /\ o \notin reply' /\ Ts[o] > clock[k]
      BY DEF QueueAhead
    <2>1. /\ o \in queue[k] /\ o \in MsgsOf(k)
          /\ pc[o] \in {"enqueued", "waiting"} /\ o \notin reply /\ Ts[o] > clock[k]
      BY <1>2 DEF TurnsKept, QueueAhead
    <2> QED
      BY <1>1, <1>2, <2>1
  <1>5. TurnsRespected(k)'
    <2> SUFFICES ASSUME NEW o \in MsgsOf(k)
                 PROVE  /\ pc'[o] # "refused"
                        /\ pc'[o] = "idle" => Ts[o] > clock[k]
                        /\ o \in reply' => pc'[o] \in {"enqueued", "waiting"}
                        /\ o \in reply' \/ InTurn(o)' => Ts[o] = clock[k] + 1
                        /\ Served(o)' => Ts[o] <= clock[k]
      BY DEF TurnsRespected, MsgsOf
    <2>1. /\ pc[o] # "refused"
          /\ pc[o] = "idle" => Ts[o] > clock[k]
          /\ o \in reply => pc[o] \in {"enqueued", "waiting"}
          /\ o \in reply \/ InTurn(o) => Ts[o] = clock[k] + 1
          /\ Served(o) => Ts[o] <= clock[k]
      BY DEF TurnsKept, TurnsRespected
    <2>2. o \in reply' =>
             pc[o] \in {"enqueued", "waiting"} /\ Ts[o] = clock[k] + 1
      BY <1>2, <2>1 DEF TurnsKept, QueueAhead
    <2> QED
      BY <1>1, <2>1, <2>2 DEF InTurn, Served
  <1>6. TurnsTaken(k)' /\ VisitsTurned(k)'
    BY <1>1 DEF TurnsKept, TurnsTaken, VisitsTurned, Served, Visitors, MsgsOf, dbVars
  <1> QED
    BY <1>3, <1>4, <1>5, <1>6 DEF TurnsKept

\* A request that is granted goes on up to its commit, all in its turn.
LEMMA ServingKeepsTurns ==
    ASSUME ChainTypeOK, NEW k \in Queues, TurnsKept(k), NEW m \in MsgsOf(k),
           queue[k] \subseteq MsgsOf(k),
           \/ Receive(m)
           \/ /\ pc[m] \in {"holding", "executing", "inserted"}
              /\ UNCHANGED reply
              /\ pc'[m] \in {"executing", "inserted", "served", "failed"},
           UNCHANGED <<clock, queue>>,
           \A o \in Msgs : o # m => pc'[o] = pc[o],
           Visitors(k)' \subseteq
               Visitors(k) \cup (IF pc'[m] \in {"served", "failed"} THEN {Ts[m]} ELSE {})
    PROVE  TurnsKept(k)'
  <1>1. /\ \A o \in MsgsOf(k) : o \in Msgs /\ (o # m => pc'[o] = pc[o])
        /\ m \in MsgsOf(k)' /\ \A o \in MsgsOf(k) : o \in MsgsOf(k)'
        /\ InTurn(m)' /\ pc[m] \notin {"unsent", "idle", "served", "failed", "advanced", "done"}
    BY DEF MsgsOf, Receive, Goto, InTurn, ChainTypeOK
  <1>2. Ts[m] = clock[k] + 1 /\ m \notin reply' /\ reply' \subseteq reply /\ m \notin queue[k]
    BY DEF Receive, TurnsKept, TurnsRespected, QueueAhead, InTurn
  <1>3. SentOnce(k)'
    BY <1>1 DEF TurnsKept, SentOnce, MsgsOf
  <1>4. QueueAhead(k)'
    BY <1>1, <1>2 DEF TurnsKept, QueueAhead
  <1>5. TurnsRespected(k)'
    <2> SUFFICES ASSUME NEW o \in MsgsOf(k)
                 PROVE  /\ pc'[o] # "refused"
                        /\ pc'[o] = "idle" => Ts[o] > clock[k]
                        /\ o \in reply' => pc'[o] \in {"enqueued", "waiting"}
                        /\ o \in reply' \/ InTurn(o)' => Ts[o] = clock[k] + 1
                        /\ Served(o)' => Ts[o] <= clock[k]
      BY DEF TurnsRespected, MsgsOf
    <2>1. CASE o = m
      BY <1>1, <1>2, <2>1 DEF InTurn, Served
    <2>2. CASE o # m
      BY <1>1, <1>2, <2>2 DEF TurnsKept, TurnsRespected, InTurn, Served
    <2> QED
      BY <2>1, <2>2
  <1>6. TurnsTaken(k)'
    BY <1>1 DEF TurnsKept, TurnsTaken, Served, MsgsOf
  <1>7. VisitsTurned(k)'
    BY <1>1 DEF TurnsKept, VisitsTurned, Served, MsgsOf
  <1> QED
    BY <1>3, <1>4, <1>5, <1>6, <1>7 DEF TurnsKept

\* Release moves the clock: the turn of the request that had it is over.
LEMMA AdvanceKeepsTurns ==
    ASSUME ChainTypeOK, NEW k \in Queues, TurnsKept(k), queue[k] \subseteq MsgsOf(k),
           NEW m \in MsgsOf(k), NEW label \in {"served", "failed"}, Advance(m, label),
           UNCHANGED dbVars
    PROVE  TurnsKept(k)'
  <1>1. /\ pc[m] \in {"served", "failed"} /\ pc'[m] = "advanced"
        /\ clock'[k] = clock[k] + 1
        /\ queue' = queue /\ reply' = reply /\ applied' = applied
        /\ \A o \in MsgsOf(k) : o \in Msgs /\ (o # m => pc'[o] = pc[o])
    BY DEF Advance, Goto, MsgsOf, ChainTypeOK, dbVars
  <1>2. clock[k] \in Nat /\ \A o \in MsgsOf(k) : Ts[o] \in Nat
    BY MsgAssumption DEF ChainTypeOK, MsgsOf
  <1>3. Ts[m] = clock[k] + 1 /\ m \notin reply
    BY <1>1 DEF TurnsKept, TurnsRespected, InTurn
  <1>4. \A o \in MsgsOf(k) : pc[o] # "unsent" /\ Ts[o] = clock[k] + 1 => o = m
    BY <1>1, <1>3 DEF TurnsKept, SentOnce
  <1>5. SentOnce(k)'
    BY <1>1 DEF TurnsKept, SentOnce, MsgsOf
  <1>6. QueueAhead(k)'
    <2> SUFFICES ASSUME NEW o \in queue[k]
                 PROVE  /\ pc'[o] \in {"enqueued", "waiting"}
                        /\ o \notin reply /\ Ts[o] > clock[k] + 1
      BY <1>1 DEF QueueAhead
    <2>1. /\ o \in MsgsOf(k) /\ pc[o] \in {"enqueued", "waiting"}
          /\ o \notin reply /\ Ts[o] > clock[k]
      BY DEF TurnsKept, QueueAhead
    <2>2. o # m /\ Ts[o] # clock[k] + 1
      BY <1>1, <1>4, <2>1
    <2> QED
      BY <1>1, <1>2, <2>1, <2>2
  <1>7. TurnsRespected(k)'
    <2> SUFFICES ASSUME NEW o \in MsgsOf(k)
                 PROVE  /\ pc'[o] # "refused"
                        /\ pc'[o] = "idle" => Ts[o] > clock[k] + 1
                        /\ o \in reply => pc'[o] \in {"enqueued", "waiting"}
                        /\ o \in reply \/ InTurn(o)' => Ts[o] = clock[k] + 2
                        /\ Served(o)' => Ts[o] <= clock[k] + 1
      BY <1>1, <1>2 DEF TurnsRespected, MsgsOf
    <2>1. CASE o = m
      BY <1>1, <1>2, <1>3, <2>1 DEF InTurn, Served
    <2>2. CASE o # m
      <3>1. pc'[o] = pc[o] /\ (pc[o] # "unsent" => Ts[o] # clock[k] + 1)
        BY <1>1, <1>4, <2>2
      <3>2. /\ pc[o] # "refused"
            /\ pc[o] = "idle" => Ts[o] > clock[k]
            /\ o \in reply => pc[o] \in {"enqueued", "waiting"}
            /\ o \in reply \/ InTurn(o) => Ts[o] = clock[k] + 1
            /\ Served(o) => Ts[o] <= clock[k]
        BY DEF TurnsKept, TurnsRespected
      <3>3. o \notin reply /\ ~InTurn(o)
        BY <3>1, <3>2 DEF InTurn
      <3> QED
        BY <1>2, <3>1, <3>2, <3>3 DEF InTurn, Served
    <2> QED
      BY <2>1, <2>2
  <1>8. TurnsTaken(k)'
    <2> SUFFICES ASSUME NEW t \in 1 .. (clock[k] + 1)
                 PROVE  \E o \in MsgsOf(k) : Ts[o] = t /\ Served(o)'
      BY <1>1 DEF TurnsTaken, MsgsOf
    <2>1. CASE t = clock[k] + 1
      BY <1>1, <1>3, <2>1 DEF Served
    <2>2. CASE t \in 1 .. clock[k]
      <3>1. PICK o \in MsgsOf(k) : Ts[o] = t /\ Served(o)
        BY <2>2 DEF TurnsKept, TurnsTaken
      <3> QED
        BY <1>1, <3>1 DEF Served
    <2> QED
      BY <1>2, <2>1, <2>2
  <1>9. VisitsTurned(k)'
    BY <1>1 DEF TurnsKept, VisitsTurned, Served, Visitors, MsgsOf
  <1> QED
    BY <1>5, <1>6, <1>7, <1>8, <1>9 DEF TurnsKept

\* Receivers keep apart: a request is nothing to the receivers of other stages.
LEMMA ServesElsewhere ==
    ASSUME ChainTypeOK, QueuesOwn, ParticipantIInv, NEW m \in Msgs, Serves(m),
           NEW k \in Stages, k # m[2]
    PROVE  /\ clock'[k] = clock[k] /\ queue'[k] = queue[k] /\ Visitors(k)' = Visitors(k)
           /\ \A o \in MsgsOf(k) : pc'[o] = pc[o] /\ (o \in reply' <=> o \in reply)
  <1> DEFINE q == QueueOf[m]
  <1>1. q = m[2] /\ q \in Queues /\ k \in Queues /\ q # k /\ Queues = Stages
    BY Messages
  <1>2. m \notin MsgsOf(k) /\ \A o \in queue[q] : o \notin MsgsOf(k)
    BY <1>1 DEF MsgsOf, QueuesOwn
  <1>3. Visitors(k)' = Visitors(k)
    <2>1. CASE UNCHANGED dbVars
      BY <2>1 DEF dbVars, Visitors
    <2>2. CASE pc[m] = "inserted" /\ CommitDb(m)
      BY <2>2, CommitVisits
    <2> QED
      BY <2>1, <2>2, ServesOne
  <1>4. \A o \in MsgsOf(k) : pc'[o] = pc[o]
    BY <1>2, ServesOne DEF MsgsOf
  <1>5. clock'[k] = clock[k]
    BY <1>1 DEF Serves, Acquire, EnqueueLate, Enqueue, AcquireNext, Receive,
           Release, Advance, ReleaseNext, ReleaseUncounted,
           BeforeHook, AfterHook, StatementFails, Commit, CommitFails, ChainTypeOK
  <1>6. GrantNext(q) => /\ queue'[k] = queue[k]
                        /\ \A o \in MsgsOf(k) : o \in reply' <=> o \in reply
    BY <1>1, <1>2 DEF GrantNext, Heads, ChainTypeOK
  <1>7. ~GrantNext(q) => /\ queue'[k] = queue[k]
                         /\ \A o \in MsgsOf(k) : o \in reply' <=> o \in reply
    BY <1>1, <1>2 DEF Serves, Acquire, EnqueueLate, Enqueue, AcquireNext, Receive,
           Release, Advance, ReleaseNext, ReleaseUncounted,
           BeforeHook, AfterHook, StatementFails, Commit, CommitFails, ChainTypeOK
  <1> QED
    BY <1>3, <1>4, <1>5, <1>6, <1>7

LEMMA ServesKeepsQueues ==
    ASSUME ChainTypeOK, QueuesOwn, NEW m \in Msgs, Serves(m)
    PROVE  QueuesOwn'
  <1> DEFINE q == QueueOf[m]
  <1>1. q \in Queues /\ m \in MsgsOf(q)
    BY MsgAssumption DEF MsgsOf
  <1>2. GrantNext(q) => \A r \in Queues : queue'[r] \subseteq queue[r]
    BY <1>1 DEF GrantNext, Heads, ChainTypeOK
  <1>3. ~GrantNext(q) => \A r \in Queues : queue'[r] \subseteq queue[r] \cup (IF r = q THEN {m} ELSE {})
    BY <1>1 DEF Serves, Acquire, EnqueueLate, Enqueue, AcquireNext, Receive,
           Release, Advance, ReleaseNext, ReleaseUncounted,
           BeforeHook, AfterHook, StatementFails, Commit, CommitFails, ChainTypeOK
  <1> QED
    BY <1>1, <1>2, <1>3 DEF QueuesOwn, MsgsOf

LEMMA ServesKeepsTurns ==
    ASSUME ChainTypeOK, QueuesOwn, ParticipantIInv, NEW m \in Msgs, Serves(m),
           NEW k \in Stages, TurnsKept(k)
    PROVE  TurnsKept(k)'
  <1>1. k \in Queues /\ queue[k] \subseteq MsgsOf(k)
    BY Messages DEF QueuesOwn
  <1>2. CASE k # m[2]
    BY <1>1, <1>2, ServesElsewhere, TurnsElsewhere
  <1>3. CASE k = m[2]
    <2>1. QueueOf[m] = k /\ m \in MsgsOf(k) /\ Ts[m] = m[1] /\ m[1] \in 1 .. N /\ N \in Nat
      BY <1>3, Messages DEF MsgsOf, Txs
    <2>2. /\ pc[m] # "refused"
          /\ pc[m] = "idle" => Ts[m] > clock[k]
          /\ InTurn(m) => Ts[m] = clock[k] + 1
      BY <2>1 DEF TurnsKept, TurnsRespected
    <2>3. clock[k] \in Nat
      BY <1>1 DEF ChainTypeOK
    <2>4. CASE Acquire(m)
      <3>1. ~EnqueueLate(m)
        BY <2>1, <2>2, <2>3 DEF EnqueueLate
      <3>2. UNCHANGED dbVars
        BY <2>4 DEF Acquire
      <3>3. CASE Enqueue(m)
        BY <1>1, <2>1, <3>2, <3>3, EnqueueKeepsTurns
      <3>4. CASE AcquireNext(m)
        BY <1>1, <2>1, <3>2, <3>4, GrantKeepsTurns DEF AcquireNext
      <3>5. CASE Receive(m)
        <4>1. UNCHANGED <<clock, queue>> /\ \A o \in Msgs : o # m => pc'[o] = pc[o]
          BY <3>5 DEF Receive, Goto, ChainTypeOK
        <4>2. Visitors(k)' = Visitors(k)
          BY <3>2 DEF dbVars, Visitors
        <4> QED
          BY <1>1, <2>1, <3>5, <4>1, <4>2, ServingKeepsTurns
      <3> QED
        BY <2>4, <3>1, <3>3, <3>4, <3>5 DEF Acquire
    <2>5. CASE Release(m)
      <3>1. UNCHANGED dbVars
        BY <2>5 DEF Release
      <3>2. CASE ReleaseNext(m)
        BY <1>1, <2>1, <3>1, <3>2, GrantKeepsTurns DEF ReleaseNext
      <3>3. CASE Advance(m, "served") \/ Advance(m, "failed")
        BY <1>1, <2>1, <3>1, <3>3, AdvanceKeepsTurns
      <3> QED
        BY <2>5, <3>2, <3>3 DEF Release
    <2>6. ~(clock[QueueOf[m]] >= N /\ ReleaseUncounted(m))
      BY <2>1, <2>2, <2>3 DEF ReleaseUncounted, InTurn
    <2>7. CASE \/ BeforeHook(m) \/ AfterHook(m) \/ StatementFails(m)
               \/ Commit(m) \/ CommitFails(m)
      <3>1. /\ pc[m] \in {"holding", "executing", "inserted"}
            /\ UNCHANGED <<clock, queue, reply>>
        BY <2>2, <2>7 DEF BeforeHook, AfterHook, StatementFails, Commit, CommitFails
      <3>2. PICK label \in {"executing", "inserted", "served", "failed"} : Goto(m, label)
        BY <2>7 DEF BeforeHook, AfterHook, StatementFails, Commit, CommitFails, Abort
      <3>3. pc'[m] = label /\ \A o \in Msgs : o # m => pc'[o] = pc[o]
        BY <3>2 DEF Goto, ChainTypeOK
      <3>4. Visitors(k)' \subseteq
              Visitors(k) \cup (IF pc'[m] \in {"served", "failed"} THEN {Ts[m]} ELSE {})
        <4>1. CASE UNCHANGED dbVars
          BY <4>1 DEF dbVars, Visitors
        <4>2. CASE pc[m] = "inserted" /\ CommitDb(m) /\ pc'[m] \in {"served", "failed"}
          BY <1>3, <2>1, <4>2, CommitVisits
        <4> QED
          BY <4>1, <4>2, ServesOne
      <3> QED
        BY <1>1, <2>1, <3>1, <3>3, <3>4, ServingKeepsTurns
    <2> QED
      BY <2>4, <2>5, <2>6, <2>7 DEF Serves
  <1> QED
    BY <1>2, <1>3

\* A request to a receiver that stays undisturbed is the first of its timestamp, and
\* its turn has not passed.
LEMMA AskKeepsTurns ==
    ASSUME RowsInv, QueuesOwn, NEW n \in Txs, Ask(n),
           NEW k \in Stages, k \notin disturbed', TurnsKept(k)
    PROVE  TurnsKept(k)'
  <1>1. PICK j \in Needed(n), s \in Slots :
           /\ <<n, j, s>> \in Msgs
           /\ AtRest(<<n, j, s>>)
           /\ pc' = [pc EXCEPT ![<<n, j, s>>] = "idle"]
           /\ \/ disturbed' = disturbed \cup {j}
              \/ disturbed' = disturbed /\ \A r \in Slots : pc[<<n, j, r>>] = "unsent"
           /\ UNCHANGED <<clock, queue, reply, dbVars>>
    BY AskSends DEF RowsInv
  <1>2. PICK m \in Msgs : m = <<n, j, s>>
    BY <1>1
  <1>3. /\ m[1] = n /\ m[2] = j /\ QueueOf[m] = j /\ Ts[m] = n
        /\ k \in Queues /\ queue[k] \subseteq MsgsOf(k)
    BY <1>2, Messages DEF QueuesOwn
  <1>4. /\ pc'[m] = "idle"
        /\ \A o \in Msgs : o # m => pc'[o] = pc[o]
    BY <1>1, <1>2 DEF RowsInv, ChainTypeOK
  <1>5. Visitors(k)' = Visitors(k)
    BY <1>1 DEF Visitors, dbVars
  <1>6. CASE j # k
    <2>1. \A o \in MsgsOf(k) : pc'[o] = pc[o] /\ (o \in reply' <=> o \in reply)
      BY <1>1, <1>3, <1>4, <1>6 DEF MsgsOf
    <2> QED
      BY <1>1, <1>3, <1>5, <2>1, TurnsElsewhere
  <1>7. CASE j = k
    <2>1. \A r \in Slots : pc[<<n, k, r>>] = "unsent"
      BY <1>1, <1>7
    <2>2. \A o \in MsgsOf(k) : Ts[o] = n => pc[o] = "unsent"
      <3>1. ASSUME NEW o \in MsgsOf(k), Ts[o] = n
            PROVE  pc[o] = "unsent"
        <4>1. o \in Msgs /\ QueueOf[o] = k
          BY DEF MsgsOf
        <4>2. o = <<n, k, o[3]>> /\ o[3] \in Slots
          BY <3>1, <4>1, Messages
        <4> QED
          BY <2>1, <4>2
      <3> QED
        BY <3>1
    <2>3. m \in MsgsOf(k) /\ pc[m] = "unsent"
      BY <1>3, <1>7, <2>2 DEF MsgsOf
    <2>4. clock[k] \in Nat /\ n \in 1 .. N /\ N \in Nat
      BY <1>3, Messages DEF RowsInv, ChainTypeOK, Txs
    <2>5. n > clock[k]
      <3>1. SUFFICES ASSUME n \in 1 .. clock[k]
                     PROVE  FALSE
        BY <2>4
      <3>2. PICK o \in MsgsOf(k) : Ts[o] = n /\ Served(o)
        BY <3>1 DEF TurnsKept, TurnsTaken
      <3> QED
        BY <2>2, <3>2 DEF Served
    <2>6. m \notin reply /\ m \notin queue[k]
      BY <2>3 DEF TurnsKept, TurnsRespected, QueueAhead
    <2>7. SentOnce(k)'
      BY <1>3, <1>4, <2>2 DEF TurnsKept, SentOnce, MsgsOf
    <2>8. QueueAhead(k)'
      BY <1>1, <1>3, <1>4, <2>6 DEF TurnsKept, QueueAhead, MsgsOf
    <2>9. TurnsRespected(k)'
      <3> SUFFICES ASSUME NEW o \in MsgsOf(k)
                   PROVE  /\ pc'[o] # "refused"
                          /\ pc'[o] = "idle" => Ts[o] > clock[k]
                          /\ o \in reply => pc'[o] \in {"enqueued", "waiting"}
                          /\ o \in reply \/ InTurn(o)' => Ts[o] = clock[k] + 1
                          /\ Served(o)' => Ts[o] <= clock[k]
        BY <1>1 DEF TurnsRespected, MsgsOf
      <3>1. CASE o = m
        BY <1>3, <1>4, <2>5, <2>6, <3>1 DEF InTurn, Served
      <3>2. CASE o # m
        BY <1>4, <3>2 DEF TurnsKept, TurnsRespected, InTurn, Served, MsgsOf
      <3> QED
        BY <3>1, <3>2
    <2>10. TurnsTaken(k)'
      BY <1>1, <1>4, <2>3 DEF TurnsKept, TurnsTaken, Served, MsgsOf
    <2>11. VisitsTurned(k)'
      BY <1>4, <1>5, <2>3 DEF TurnsKept, VisitsTurned, Served, MsgsOf
    <2> QED
      BY <2>7, <2>8, <2>9, <2>10, <2>11 DEF TurnsKept
  <1> QED
    BY <1>6, <1>7

LEMMA RestartKeepsTurns ==
    ASSUME ChainTypeOK, QueuesOwn, NEW q \in Queues, RestartReceiver(q),
           NEW k \in Stages, k \notin disturbed', TurnsKept(k)
    PROVE  TurnsKept(k)'
  <1> DEFINE cut == {m \in MsgsOf(q) : ~AtRest(m) /\ pc[m] # "idle"}
  <1>1. k # q /\ k \in Queues /\ \A o \in MsgsOf(k) : o \in Msgs /\ o \notin cut
    BY Messages DEF RestartReceiver, MsgsOf
  <1>2. clock'[k] = clock[k] /\ queue'[k] = queue[k] /\ Visitors(k)' = Visitors(k)
    BY <1>1 DEF RestartReceiver, dbVars, Visitors, ChainTypeOK
  <1>3. \A o \in MsgsOf(k) : pc'[o] = pc[o] /\ (o \in reply' <=> o \in reply)
    <2>1. /\ reply' = reply \ cut
          /\ pc' = [m \in Msgs |-> IF m \in cut THEN "gone" ELSE pc[m]]
      BY DEF RestartReceiver
    <2> QED
      BY <1>1, <2>1
  <1> QED
    BY <1>1, <1>2, <1>3, TurnsElsewhere DEF QueuesOwn

-----------------------------------------------------------------------------
(* The invariant of the composition                                        *)

\* An executor's step that sends nothing.
ExecutorMoves ==
    \E n \in Txs : \E x \in Contexts : \E y \in {row[n], mem[n]} :
        \E label \in ExecutorPCs \ {"new", "gone"} : MovesOn(n, x, y, label)

\* The kinds of steps of the composition.
LEMMA StepKinds ==
    ASSUME ChainIInv, ChainNext
    PROVE  \/ ExecutorMoves
           \/ \E n \in Txs : Ask(n)
           \/ \E n \in Txs : RecoveryRequest(n)
           \/ Recover
           \/ Crash
           \/ \E m \in Msgs : Progress(m) \/ DatabaseFails(m)
           \/ \E q \in Queues : RestartReceiver(q)
  <1>1. ChainTypeOK /\ AnswerMeansApplied /\ \A n \in Txs : TxInv(n)
    BY DEF ChainIInv, RowsInv, ParticipantIInv
  <1>2. ASSUME NEW n \in Txs, \/ Create(n) \/ RunOk(n) \/ RunCommitted(n)
                              \/ \E why : RunFails(n, why)
        PROVE  ExecutorMoves
    BY <1>1, <1>2, HandlerMoves DEF ExecutorMoves
  <1>3. ASSUME NEW n \in Txs, \/ Take(n) \/ ExecuteOk(n) \/ \E why : ExecuteFails(n, why)
                              \/ Finish(n) \/ Checkpoint(n)
        PROVE  ExecutorMoves
    BY <1>1, <1>3, ManagerMoves DEF ExecutorMoves
  <1>4. CASE \E n \in Txs : Create(n) \/ ExecutorStep(n) \/ TimesOut(n)
    BY <1>2, <1>3, <1>4 DEF ExecutorStep, TimesOut
  <1> QED
    BY <1>4 DEF ChainNext, FaultFree, Faulty

\* What does not concern the receivers keeps what is known of them.
LEMMA ReceiversUntouched ==
    ASSUME ChainIInv, UNCHANGED <<participantVars, disturbed>>
    PROVE  /\ NoFilters' /\ ParticipantIInv' /\ QueuesOwn'
           /\ \A k \in Stages \ disturbed' : TurnsKept(k)'
  <1>1. UNCHANGED <<clock, queue, reply, pc, reqFilter, respFilter, dropResp, txResult,
                    applied, answer>>
    BY DEF participantVars, originVars, filterVars, dbVars
  <1>2. NoFilters' /\ QueuesOwn'
    BY <1>1 DEF ChainIInv, NoFilters, QueuesOwn, MsgsOf
  <1>3. ParticipantIInv'
    BY <1>1 DEF ChainIInv, ParticipantIInv, AppliedOnce, RecordedIffApplied,
                AnswerMeansApplied, InsertAlone, DryRunStops, Key
  <1>4. ASSUME NEW k \in Stages, k \notin disturbed'
        PROVE  TurnsKept(k)'
    <2>1. k \in Queues /\ k \notin disturbed
      BY <1>4, Messages
    <2>2. TurnsKept(k) /\ queue[k] \subseteq MsgsOf(k) /\ Visitors(k)' = Visitors(k)
      BY <1>1, <2>1 DEF ChainIInv, QueuesOwn, Visitors
    <2> QED
      BY <1>1, <2>2, TurnsElsewhere
  <1> QED
    BY <1>2, <1>3, <1>4

LEMMA AskKeepsReceivers ==
    ASSUME ChainIInv, NEW n \in Txs, Ask(n)
    PROVE  NoFilters' /\ ParticipantIInv' /\ QueuesOwn'
  <1>1. PICK k \in Needed(n), s \in Slots :
           /\ <<n, k, s>> \in Msgs
           /\ pc' = [pc EXCEPT ![<<n, k, s>>] = "idle"]
           /\ answer' = [answer EXCEPT ![<<n, k, s>>] = "none"]
           /\ UNCHANGED <<clock, queue, reply, filterVars, dropResp, dbVars>>
    BY AskSends DEF ChainIInv, RowsInv
  <1>2. PICK m \in Msgs : m = <<n, k, s>>
    BY <1>1
  <1>3. ParticipantIInv'
    <2>1. /\ pc'[m] = "idle"
          /\ \A o \in Msgs : o # m => pc'[o] = pc[o]
          /\ \A o \in Msgs : answer'[o] = "ok" => answer[o] = "ok"
      BY <1>1, <1>2 DEF ChainIInv, RowsInv, ChainTypeOK
    <2> QED
      BY <1>1, <2>1, QuietSafe DEF ChainIInv
  <1>4. NoFilters' /\ QueuesOwn'
    BY <1>1 DEF ChainIInv, NoFilters, QueuesOwn, MsgsOf, filterVars
  <1> QED
    BY <1>3, <1>4

LEMMA ServesKeepsReceivers ==
    ASSUME ChainIInv, NEW m \in Msgs, Serves(m)
    PROVE  NoFilters' /\ ParticipantIInv' /\ QueuesOwn'
  <1>1. TypedBy(MsgPCs)
    BY ChainTyped DEF ChainIInv, RowsInv
  <1>2. ParticipantIInv'
    <2>1. CASE ReleaseUncounted(m)
      <3>1. /\ UNCHANGED dbVars
            /\ pc'[m] = "advanced" /\ \A o \in Msgs : o # m => pc'[o] = pc[o]
            /\ \A o \in Msgs : answer'[o] = "ok" => answer[o] = "ok"
        BY <2>1 DEF ReleaseUncounted, Goto, ChainIInv, RowsInv, ChainTypeOK
      <3> QED
        BY <3>1, QuietSafe DEF ChainIInv
    <2>2. CASE Acquire(m) \/ Release(m)
      BY <1>1, <2>2, OrderingSafe DEF ChainIInv
    <2>3. CASE \/ BeforeHook(m) \/ AfterHook(m) \/ StatementFails(m)
               \/ Commit(m) \/ CommitFails(m)
      BY <1>1, <2>3, HandlerSafe DEF ChainIInv
    <2> QED
      BY <2>1, <2>2, <2>3 DEF Serves
  <1>3. NoFilters'
    BY ServesOne DEF ChainIInv, RowsInv, NoFilters, filterVars
  <1>4. QueuesOwn'
    BY ServesKeepsQueues DEF ChainIInv, RowsInv
  <1> QED
    BY <1>2, <1>3, <1>4

LEMMA RestartKeepsReceivers ==
    ASSUME ChainIInv, NEW q \in Queues, RestartReceiver(q)
    PROVE  NoFilters' /\ ParticipantIInv' /\ QueuesOwn'
  <1> DEFINE cut == {m \in MsgsOf(q) : ~AtRest(m) /\ pc[m] # "idle"}
  <1>1. /\ queue' = [queue EXCEPT ![q] = {}]
        /\ pc' = [m \in Msgs |-> IF m \in cut THEN "gone" ELSE pc[m]]
        /\ answer' = [m \in Msgs |-> IF m \in cut THEN "aborted" ELSE answer[m]]
        /\ UNCHANGED <<reqFilter, respFilter, dropResp, txResult, applied>>
    BY DEF RestartReceiver, filterVars, dbVars
  <1>2. /\ \A m \in Msgs : pc'[m] = pc[m] \/ pc'[m] = "gone"
        /\ \A m \in Msgs : answer'[m] = "ok" => answer[m] = "ok"
    BY <1>1
  <1>3. AppliedOnce' /\ RecordedIffApplied' /\ AnswerMeansApplied'
    BY <1>1, <1>2 DEF ChainIInv, ParticipantIInv, AppliedOnce, RecordedIffApplied,
                      AnswerMeansApplied
  <1>4. InsertAlone' /\ DryRunStops'
    BY <1>1, <1>2, Messages DEF ChainIInv, ParticipantIInv, InsertAlone, DryRunStops, Key
  <1>5. NoFilters' /\ QueuesOwn'
    BY <1>1 DEF ChainIInv, NoFilters, QueuesOwn, MsgsOf, RowsInv, ChainTypeOK
  <1> QED
    BY <1>3, <1>4, <1>5 DEF ParticipantIInv

LEMMA ChainInvKept ==
    ASSUME ChainIInv, ChainNext
    PROVE  ChainIInv'
  <1>1. CASE ExecutorMoves
    <2>1. PICK n \in Txs : \E x \in Contexts : \E y \in {row[n], mem[n]} :
             \E label \in ExecutorPCs \ {"new", "gone"} : MovesOn(n, x, y, label)
      BY <1>1 DEF ExecutorMoves
    <2>2. RowsInv'
      BY <2>1, MoveKeepsRows DEF ChainIInv
    <2>3. UNCHANGED <<participantVars, disturbed>>
      BY <2>1 DEF MovesOn
    <2> QED
      BY <2>2, <2>3, ReceiversUntouched DEF ChainIInv
  <1>2. CASE \E n \in Txs : Ask(n)
    <2>1. PICK n \in Txs : Ask(n)
      BY <1>2
    <2>2. \A k \in Stages \ disturbed' : TurnsKept(k)'
      <3>1. disturbed \subseteq disturbed'
        BY <2>1, AskSends DEF ChainIInv, RowsInv
      <3> QED
        BY <2>1, <3>1, AskKeepsTurns DEF ChainIInv
    <2> QED
      BY <2>1, <2>2, AskKeepsRows, AskKeepsReceivers DEF ChainIInv
  <1>3. CASE \/ \E n \in Txs : RecoveryRequest(n)
             \/ Recover \/ Crash
    <2>1. RowsInv'
      <3>1. CASE Crash
        BY <3>1, CrashKeepsTx, CrashKeepsTypes DEF ChainIInv, RowsInv
      <3> QED
        BY <1>3, <3>1, RecoveryKeepsRows, RecoverKeepsRows DEF ChainIInv
    <2>2. UNCHANGED <<participantVars, disturbed>>
      BY <1>3 DEF RecoveryRequest, Recover, Crash
    <2> QED
      BY <2>1, <2>2, ReceiversUntouched DEF ChainIInv
  <1>4. ASSUME NEW m \in Msgs, Progress(m) \/ DatabaseFails(m)
        PROVE  ChainIInv'
    <2>1. RowsInv'
      BY <1>4, ServesKeepsRows DEF ChainIInv
    <2>2. Serves(m) /\ UNCHANGED disturbed
      BY <1>4, ReceiverServes DEF ChainIInv, RowsInv
    <2>3. \A k \in Stages \ disturbed' : TurnsKept(k)'
      BY <2>2, ServesKeepsTurns DEF ChainIInv, RowsInv
    <2> QED
      BY <2>1, <2>2, <2>3, ServesKeepsReceivers DEF ChainIInv
  <1>5. ASSUME NEW q \in Queues, RestartReceiver(q)
        PROVE  ChainIInv'
    <2>1. disturbed \subseteq disturbed'
      BY <1>5 DEF RestartReceiver
    <2>2. \A k \in Stages \ disturbed' : TurnsKept(k)'
      BY <1>5, <2>1, RestartKeepsTurns DEF ChainIInv, RowsInv
    <2> QED
      BY <1>5, <2>2, RestartKeepsRows, RestartKeepsReceivers DEF ChainIInv
  <1> QED
    BY <1>1, <1>2, <1>3, <1>4, <1>5, StepKinds

LEMMA ChainStutters ==
    ASSUME ChainIInv, UNCHANGED chainVars
    PROVE  ChainIInv'
  <1>1. UNCHANGED <<participantVars, disturbed, row, mem, epc, call, lost, recovered,
                    recovery, crashes, faults>>
    BY DEF chainVars, executorVars, rowVars
  <1>2. UNCHANGED <<clock, queue, reply, pc, txResult, applied, answer>>
    BY <1>1 DEF participantVars, originVars, dbVars
  <1>3. ChainTypeOK'
    BY <1>1, <1>2 DEF ChainIInv, RowsInv, ChainTypeOK
  <1>4. \A n \in Txs : TxInv(n)'
    BY <1>1, <1>2, UntouchedTx DEF ChainIInv, RowsInv
  <1> QED
    BY <1>1, <1>3, <1>4, ReceiversUntouched DEF ChainIInv, RowsInv

LEMMA ChainStarts ==
    ASSUME ChainInit
    PROVE  ChainIInv
  <1>1. ASSUME NEW n \in Txs
        PROVE  /\ row[n] = Exec(n)!NewContext /\ mem[n] = row[n]
               /\ row[n] \in Contexts /\ row[n].status = "Pending"
               /\ row[n].curr = 0 /\ row[n].input = 0
               /\ epc[n] = "new" /\ call[n] = NoCall /\ lost[n] = {} /\ crashes[n] = 0
               /\ recovery[n] \in Recoveries /\ recovery[n].phase = "none"
               /\ recovery[n].ctx = row[n]
    <2>1. /\ row[n] = Exec(n)!NewContext /\ mem[n] = row[n]
          /\ recovery[n] = RecoveryAt("none", Exec(n)!NewContext)
          /\ epc[n] = "new" /\ call[n] = NoCall /\ lost[n] = {} /\ crashes[n] = 0
      BY DEF ChainInit
    <2> QED
      BY <2>1, NewMade, RecoveryMade
  <1>2. ASSUME NEW k \in Stages
        PROVE  /\ clock[k] = 0 /\ queue[k] = {} /\ applied[k] = << >>
               /\ Visitors(k) = {}
    BY Messages DEF ChainInit, Visitors
  <1>3. ChainTypeOK
    <2>1. /\ row \in [Txs -> Contexts] /\ mem \in [Txs -> Contexts]
          /\ recovery \in [Txs -> Recoveries]
      BY <1>1 DEF ChainInit
    <2>2. faults \in 0 .. MaxFaults /\ crashes \in [Txs -> 0 .. MaxFaults]
      BY Messages DEF ChainInit
    <2>3. epc \in [Txs -> ExecutorPCs] /\ call \in [Txs -> Msgs \cup {NoCall}]
      BY ExecutorValues DEF ChainInit
    <2>4. /\ clock \in [Queues -> Nat] /\ queue \in [Queues -> SUBSET Msgs]
          /\ reply \subseteq Msgs
          /\ pc \in [Msgs -> RequestPCs \cup {"unsent", "gone"}]
          /\ txResult \subseteq Queues \X Nat
          /\ applied \in [Queues -> Seq(Nat)]
          /\ answer \in [Msgs -> {"none", "ok", "unavailable", "aborted"}]
          /\ recovered \subseteq Txs /\ lost \in [Txs -> SUBSET Stages]
          /\ disturbed \subseteq Stages
      BY DEF ChainInit
    <2> QED
      BY <2>1, <2>2, <2>3, <2>4 DEF ChainTypeOK
  <1>4. ASSUME NEW n \in Txs
        PROVE  TxInv(n)
    <2>1. Visited(n) = {}
      BY <1>2 DEF Visited
    <2>2. Backing(n)
      BY <1>1, <1>4, <2>1 DEF Backing, Honest
    <2>3. LifeKept(n)
      BY <1>1, <1>4 DEF LifeKept, ChainInit
    <2>4. CallNeeded(n) /\ Underway(n)
      BY <1>1, <1>4 DEF CallNeeded, Underway, AtRest, ChainInit
    <2> QED
      BY <2>2, <2>3, <2>4 DEF TxInv
  <1>5. NoFilters /\ QueuesOwn
    BY DEF ChainInit, NoFilters, QueuesOwn
  <1>6. ParticipantIInv
    BY Messages DEF ChainInit, ParticipantIInv, AppliedOnce, RecordedIffApplied,
                    AnswerMeansApplied, InsertAlone, DryRunStops
  <1>7. ASSUME NEW k \in Stages
        PROVE  TurnsKept(k)
    <2>1. \A m \in MsgsOf(k) : pc[m] = "unsent"
      BY DEF ChainInit, MsgsOf
    <2>2. reply = {}
      BY DEF ChainInit
    <2>3. 1 .. clock[k] = {}
      BY <1>2
    <2> QED
      BY <1>2, <2>1, <2>2, <2>3
         DEF TurnsKept, SentOnce, QueueAhead, TurnsRespected, TurnsTaken, VisitsTurned,
             InTurn, Served
  <1> QED
    BY <1>3, <1>4, <1>5, <1>6, <1>7 DEF ChainIInv, RowsInv

LEMMA ChainInvAlways == ChainSpec => []ChainIInv
  <1>1. ChainIInv /\ [ChainNext]_chainVars => ChainIInv'
    BY ChainInvKept, ChainStutters
  <1> QED
    BY <1>1, ChainStarts, PTL DEF ChainSpec

\* The composition keeps its types: no executor or request leaves its control states,
\* and no counter its bound.
THEOREM ChainTypeCorrect == ChainSpec => []ChainTypeOK
  <1>1. ChainIInv => ChainTypeOK
    BY DEF ChainIInv, RowsInv
  <1> QED
    BY <1>1, ChainInvAlways, PTL

\* The invariants of executors, participants and origin manager hold of them together:
\* nothing an executor holds for done has not been done, whatever is lost, repeated,
\* delayed or cut off.
THEOREM ChainInvariance == ChainSpec => []ChainIInv
  BY ChainInvAlways, PTL

\* TxExecutor's inductive invariant, which was proved there of an executor with
\* arbitrary participants, holds of every executor in front of the real ones.
THEOREM ExecutorsBacked == ChainSpec => [](\A n \in Txs : Exec(n)!IInv)
  <1>1. ChainIInv => \A n \in Txs : Exec(n)!IInv
    BY BackingMeans DEF ChainIInv, RowsInv, TxInv
  <1> QED
    BY <1>1, ChainInvAlways, PTL

\* Among executors that retry and restart, a transaction commits at most once at the
\* receiver of a stage, the result table tells the truth, and so do successful answers.
THEOREM ChainAppliesOnce ==
    ChainSpec => [](AppliedOnce /\ RecordedIffApplied /\ AnswerMeansApplied)
  <1>1. ChainIInv => AppliedOnce /\ RecordedIffApplied /\ AnswerMeansApplied
    BY DEF ChainIInv, ParticipantIInv
  <1> QED
    BY <1>1, ChainInvAlways, PTL

-----------------------------------------------------------------------------
(* Serial chains                                                           *)

\* At an undisturbed receiver, whoever commits comes after all who have been there.
LEMMA CommitInTurn ==
    ASSUME ChainIInv, NEW m \in Msgs, pc[m] = "inserted", m[2] \notin disturbed,
           NEW o \in Visitors(m[2])
    PROVE  o < m[1]
  <1> DEFINE k == m[2]
  <1>1. k \in Stages /\ k \in Queues /\ QueueOf[m] = k /\ Ts[m] = m[1] /\ m \in MsgsOf(k)
    BY Messages DEF MsgsOf
  <1>2. TurnsKept(k)
    BY <1>1 DEF ChainIInv
  <1>3. clock[k] \in Nat /\ Ts[m] \in Nat
    BY <1>1, MsgAssumption DEF ChainIInv, RowsInv, ChainTypeOK
  <1>4. Ts[m] = clock[k] + 1
    BY <1>1, <1>2 DEF TurnsKept, TurnsRespected, InTurn
  <1>5. PICK p \in MsgsOf(k) : Ts[p] = o /\ (pc[p] \in {"served", "failed"} \/ Served(p))
    BY <1>2 DEF TurnsKept, VisitsTurned
  <1>6. Ts[p] \in Nat
    BY MsgAssumption DEF MsgsOf
  <1>7. CASE pc[p] \in {"served", "failed"}
    <2>1. Ts[p] = clock[k] + 1
      BY <1>2, <1>7 DEF TurnsKept, TurnsRespected, InTurn
    <2>2. p = m
      BY <1>1, <1>2, <1>4, <1>7, <2>1 DEF TurnsKept, SentOnce
    <2> QED
      BY <1>7, <2>2
  <1>8. CASE Served(p)
    <2>1. Ts[p] <= clock[k]
      BY <1>2, <1>8 DEF TurnsKept, TurnsRespected
    <2> QED
      BY <1>1, <1>3, <1>4, <1>5, <1>6, <2>1
  <1> QED
    BY <1>5, <1>7, <1>8

LEMMA CommitIsVisit ==
    ASSUME ChainIInv, NEW m \in Msgs, pc[m] = "inserted", CommitDb(m), UNCHANGED disturbed
    PROVE  Chains!Visit(m[1], m[2])
  <1> DEFINE n == m[1]
             k == m[2]
  <1>1. /\ n \in Txs /\ k \in Stages /\ k \notin Visited(n)
        /\ applied' = [applied EXCEPT ![k] = Append(@, n)]
    BY CommitVisits DEF ChainIInv, RowsInv
  <1>2. k \in Needed(n) \cup lost[n]
    BY <1>1 DEF ChainIInv, RowsInv, TxInv, Underway, AtRest
  <1>3. \A j \in 0 .. (k - 1) : j \in Visited(n)
    BY <1>1, <1>2, NeededNext DEF ChainIInv, RowsInv, TxInv, Backing
  <1>4. \A j \in Stages : j < k => n \in Visitors(j)
    <2> SUFFICES ASSUME NEW j \in Stages, j < k
                 PROVE  n \in Visitors(j)
      OBVIOUS
    <2>1. j \in 0 .. (k - 1)
      BY <1>1, Messages DEF Stages
    <2> QED
      BY <1>3, <2>1 DEF Visited
  <1>5. \A j : Chains!Visitors(j) = Visitors(j)
    BY DEF Visitors, Chains!Visitors
  <1>6. n \notin Visitors(k)
    BY <1>1 DEF Visited
  <1>7. k \notin disturbed => \A o \in Visitors(k) : o < n
    BY CommitInTurn
  <1> QED
    BY <1>1, <1>4, <1>5, <1>6, <1>7 DEF Chains!Visit

LEMMA ChainsNext ==
    ASSUME ChainIInv, ChainNext
    PROVE  Chains!Next \/ UNCHANGED Chains!vars
  <1>1. CASE ExecutorMoves
    <2>1. UNCHANGED <<participantVars, disturbed>>
      BY <1>1 DEF ExecutorMoves, MovesOn
    <2> QED
      BY <2>1 DEF participantVars, dbVars, Chains!vars
  <1>2. CASE \/ \E n \in Txs : RecoveryRequest(n)
             \/ Recover \/ Crash
    <2>1. UNCHANGED <<participantVars, disturbed>>
      BY <1>2 DEF RecoveryRequest, Recover, Crash
    <2> QED
      BY <2>1 DEF participantVars, dbVars, Chains!vars
  <1>3. ASSUME NEW n \in Txs, Ask(n)
        PROVE  Chains!Next \/ UNCHANGED Chains!vars
    <2>1. PICK k \in Needed(n) :
             (disturbed' = disturbed \cup {k} \/ disturbed' = disturbed) /\ UNCHANGED dbVars
      BY <1>3, AskSends DEF ChainIInv, RowsInv
    <2>2. k \in Stages
      BY NeededNext DEF ChainIInv, RowsInv, TxInv
    <2> QED
      BY <2>1, <2>2 DEF dbVars, Chains!Next, Chains!Disturb, Chains!vars
  <1>4. ASSUME NEW m \in Msgs, Progress(m) \/ DatabaseFails(m)
        PROVE  Chains!Next \/ UNCHANGED Chains!vars
    <2>1. Serves(m) /\ UNCHANGED disturbed
      BY <1>4, ReceiverServes DEF ChainIInv, RowsInv
    <2>2. CASE UNCHANGED dbVars
      BY <2>1, <2>2 DEF dbVars, Chains!vars
    <2>3. CASE pc[m] = "inserted" /\ CommitDb(m)
      BY <2>1, <2>3, CommitIsVisit, Messages DEF Chains!Next
    <2> QED
      BY <2>1, <2>2, <2>3, ServesOne DEF ChainIInv, RowsInv
  <1>5. ASSUME NEW q \in Queues, RestartReceiver(q)
        PROVE  Chains!Next
    BY <1>5, Messages DEF RestartReceiver, dbVars, Chains!Next, Chains!Disturb
  <1> QED
    BY <1>1, <1>2, <1>3, <1>4, <1>5, StepKinds

\* Coordinator, executors and participants together keep the promise of module
\* SerialChains, for any number of transactions and stages: every transaction visits
\* its receivers in order and once each, and undisturbed receivers all see the
\* transactions in one order.
THEOREM ChainsSerial == ChainSpec => ChainsSpec
  <1>1. ChainInit => Chains!Init
    BY Messages DEF ChainInit, Chains!Init
  <1>2. ChainIInv /\ [ChainNext]_chainVars => [Chains!Next]_(Chains!vars)
    <2>1. UNCHANGED chainVars => UNCHANGED Chains!vars
      BY DEF chainVars, participantVars, dbVars, Chains!vars
    <2> QED
      BY <2>1, ChainsNext
  <1> QED
    BY <1>1, <1>2, ChainInvAlways, PTL DEF ChainSpec, ChainsSpec, Chains!Spec

-----------------------------------------------------------------------------
(* Executors as module TxExecutor describes them                           *)

\* The control state, effects and open requests of n as TxExecutor sees them.
PcOf(n) == IF epc[n] = "new" THEN "running" ELSE epc[n]
EffectsOf(n) == {<<k, k>> : k \in Visited(n)}
InFlightOf(n) == {<<k, k>> : k \in lost[n] \ Visited(n)}

LEMMA OneCopy ==
    ASSUME NEW n, NEW v, NEW w
    PROVE  /\ [[c \in {n} |-> v] EXCEPT ![n] = w] = [c \in {n} |-> w]
           /\ [c \in {n} |-> v][n] = v
  OBVIOUS

\* What TxExecutor sees of a step, variable by variable.
LEMMA ExecStutters ==
    ASSUME NEW n \in Txs, row'[n] = row[n], mem'[n] = mem[n], PcOf(n)' = PcOf(n),
           EffectsOf(n)' = EffectsOf(n), InFlightOf(n)' = InFlightOf(n),
           n \in recovered' <=> n \in recovered,
           recovery'[n] = recovery[n], crashes'[n] = crashes[n]
    PROVE  UNCHANGED Exec(n)!vars
  BY DEF Exec!vars, PcOf, EffectsOf, InFlightOf

\* The request TxExecutor sees is that for the needed stage.
LEMMA RequestedNeeded ==
    ASSUME ChainTypeOK, NEW n \in Txs, TxInv(n), Created(n)
    PROVE  Exec(n)!Requested(n) = {<<k, k>> : k \in Needed(n)}
  <1>1. mem[n].curr \in 0 .. K /\ K \in Nat
    BY Messages, ExecutorValues DEF ChainTypeOK
  <1>2. CASE epc[n] = "normal"
    <2>1. mem[n].status \notin {"Pending", "ForceComplete"} /\ mem[n].input = mem[n].curr + 1
      BY <1>2 DEF TxInv, Backing, Honest, LifeKept
    <2>2. CASE mem[n].curr < K
      BY <1>2, <2>1, <2>2, OneCopy DEF Needed, Exec!Requested, Exec!Executing, Exec!HasNext
    <2>3. CASE ~(mem[n].curr < K)
      BY <1>2, <2>1, <2>3, OneCopy DEF Needed, Exec!Requested, Exec!Executing, Exec!HasNext
    <2> QED
      BY <2>2, <2>3
  <1>3. CASE epc[n] # "normal"
    <2>1. epc[n] = "running" /\ mem[n].status = "Pending" =>
             mem[n].input = 0 /\ n \notin recovered
      BY DEF TxInv, Backing, Honest, LifeKept
    <2> QED
      BY <1>3, <2>1, OneCopy DEF Needed, Created, Exec!Requested, Exec!Executing
  <1> QED
    BY <1>2, <1>3

LEMMA RunOkRefines ==
    ASSUME ChainIInv, NEW n \in Txs, RunOk(n)
    PROVE  Exec(n)!RunOk(n)
  <1>1. TxInv(n) /\ ChainTypeOK /\ AnswerMeansApplied
    BY DEF ChainIInv, RowsInv, ParticipantIInv
  <1>2. epc[n] = "running" /\ mem[n].status = "Pending" /\ mem[n].input = 0 /\ 0 \in Visited(n)
    <2>1. PICK k \in Needed(n) : k \in Visited(n)
      BY <1>1, YesMeansVisited DEF RunOk
    <2> QED
      BY <1>1, <2>1, NeededNext DEF RunOk, TxInv, Stages
  <1>3. /\ UNCHANGED <<participantVars, row, recovered, recovery, crashes, lost>>
        /\ mem'[n] = Exec(n)!CommittedContext(mem[n])
        /\ epc'[n] = "saving"
    BY <1>1 DEF RunOk, Returns, ExecGoto, ChainTypeOK
  <1>4. Visited(n)' = Visited(n)
    BY <1>3 DEF Visited, Visitors, participantVars, dbVars
  <1>5. /\ EffectsOf(n)' = EffectsOf(n) \cup {<<0, 0>>}
        /\ InFlightOf(n)' = InFlightOf(n) \ {<<0, 0>>}
        /\ <<0, 0>> \in EffectsOf(n)
    BY <1>2, <1>3, <1>4 DEF EffectsOf, InFlightOf
  <1> QED
    BY <1>2, <1>3, <1>5, OneCopy
       DEF EffectsOf, InFlightOf, Exec!RunOk, Exec!Serve, Exec!Goto, Exec!CommittedContext

\* A request that is given up stays in flight unless it has been served.
LEMMA GivenUp ==
    ASSUME ChainTypeOK, NEW n \in Txs, TxInv(n), Created(n),
           UNCHANGED applied, lost'[n] = lost[n] \cup Needed(n)
    PROVE  /\ EffectsOf(n)' = EffectsOf(n)
           /\ InFlightOf(n)' = InFlightOf(n) \cup (Exec(n)!Requested(n) \ EffectsOf(n))
  <1>1. Visited(n)' = Visited(n)
    BY DEF Visited, Visitors
  <1> QED
    BY <1>1, RequestedNeeded DEF EffectsOf, InFlightOf

LEMMA FailsRefines ==
    ASSUME ChainIInv, NEW n \in Txs, NEW why, RunFails(n, why) \/ ExecuteFails(n, why)
    PROVE  Exec(n)!RunFails(n) \/ Exec(n)!ExecuteFails(n)
  <1>1. TxInv(n) /\ ChainTypeOK
    BY DEF ChainIInv, RowsInv
  <1>2. /\ epc[n] \in {"running", "normal"} /\ Created(n)
        /\ UNCHANGED <<row, recovered, recovery, crashes, applied>>
        /\ lost'[n] = lost[n] \cup Needed(n)
        /\ Needed(n) # {}
    <2>1. Fails(n, why) /\ epc[n] \in {"running", "normal"}
      BY DEF RunFails, ExecuteFails
    <2>2. call[n] # NoCall
      BY <1>1, <2>1, FailsMarks
    <2>3. Needed(n) # {}
      BY <1>1, <2>2 DEF TxInv, CallNeeded
    <2> QED
      BY <1>1, <2>1, <2>3, FailsMarks DEF Created, ChainTypeOK, participantVars, dbVars
  <1>3. /\ EffectsOf(n)' = EffectsOf(n)
        /\ InFlightOf(n)' = InFlightOf(n) \cup (Exec(n)!Requested(n) \ EffectsOf(n))
    BY <1>1, <1>2, GivenUp
  <1>4. CASE RunFails(n, why)
    <2>1. epc[n] = "running" /\ mem[n].status = "Pending"
      BY <1>2, <1>4 DEF RunFails, Needed
    <2>2. mem'[n] = Exec(n)!WithStatus(mem[n], "Aborted") /\ epc'[n] = "failed"
      BY <1>1, <1>4 DEF RunFails, ExecGoto, ChainTypeOK
    <2> QED
      BY <1>2, <1>3, <2>1, <2>2, OneCopy
         DEF EffectsOf, InFlightOf, Exec!RunFails, Exec!Abandon, Exec!Goto, Exec!WithStatus
  <1>5. CASE ExecuteFails(n, why)
    <2>1. epc[n] = "normal" /\ mem[n].curr < K /\ mem[n].status # "ForceComplete"
      BY <1>1, <1>2, <1>5 DEF ExecuteFails, Needed, TxInv, LifeKept
    <2>2. UNCHANGED mem /\ epc'[n] = "retrying"
      BY <1>1, <1>5 DEF ExecuteFails, ExecGoto, ChainTypeOK
    <2> QED
      BY <1>2, <1>3, <2>1, <2>2, OneCopy
         DEF EffectsOf, InFlightOf, Exec!ExecuteFails, Exec!Executing, Exec!HasNext,
             Exec!Abandon, Exec!Goto
  <1> QED
    BY <1>4, <1>5

LEMMA ExecuteOkRefines ==
    ASSUME ChainIInv, NEW n \in Txs, ExecuteOk(n)
    PROVE  Exec(n)!ExecuteOk(n)
  <1>1. TxInv(n) /\ ChainTypeOK /\ AnswerMeansApplied
    BY DEF ChainIInv, RowsInv, ParticipantIInv
  <1>2. /\ epc[n] = "normal" /\ Created(n) /\ mem[n].curr < K
        /\ mem[n].status # "ForceComplete" /\ Needed(n) \subseteq Visited(n)
    <2>1. Needed(n) # {} /\ Needed(n) \subseteq Visited(n) /\ epc[n] = "normal"
      BY <1>1, YesMeansVisited DEF ExecuteOk
    <2> QED
      BY <1>1, <2>1 DEF Needed, Created, TxInv, LifeKept
  <1>3. /\ UNCHANGED <<participantVars, row, recovered, recovery, crashes, lost>>
        /\ mem'[n] = Exec(n)!Passed(mem[n])
        /\ epc'[n] = "normalSave"
    BY <1>1 DEF ExecuteOk, Returns, ExecGoto, ChainTypeOK
  <1>4. Visited(n)' = Visited(n)
    BY <1>3 DEF Visited, Visitors, participantVars, dbVars
  <1>5. /\ EffectsOf(n)' = EffectsOf(n) \cup Exec(n)!Requested(n)
        /\ InFlightOf(n)' = InFlightOf(n) \ Exec(n)!Requested(n)
    BY <1>1, <1>2, <1>3, <1>4, RequestedNeeded DEF EffectsOf, InFlightOf
  <1> QED
    BY <1>2, <1>3, <1>5, OneCopy
       DEF EffectsOf, InFlightOf, Exec!ExecuteOk, Exec!Executing, Exec!HasNext,
           Exec!Serve, Exec!Goto, Exec!Passed

\* The steps without a request.
LEMMA QuietStepRefines ==
    ASSUME ChainIInv, NEW n \in Txs,
           RunCommitted(n) \/ Take(n) \/ Finish(n) \/ Checkpoint(n)
    PROVE  \/ Exec(n)!RunCommitted(n) \/ Exec(n)!Take(n) \/ Exec(n)!Finish(n)
           \/ Exec(n)!HandlerSave(n) \/ Exec(n)!CheckpointOk(n)
  <1>1. TxInv(n) /\ ChainTypeOK
    BY DEF ChainIInv, RowsInv
  <1>2. /\ UNCHANGED <<participantVars, recovered, recovery, crashes, lost>>
        /\ epc[n] \notin {"new", "gone", "failed"}
    BY DEF RunCommitted, Take, Finish, Checkpoint, rowVars
  <1>3. EffectsOf(n)' = EffectsOf(n) /\ InFlightOf(n)' = InFlightOf(n)
    <2>1. Visited(n)' = Visited(n)
      BY <1>2 DEF Visited, Visitors, participantVars, dbVars
    <2> QED
      BY <1>2, <2>1 DEF EffectsOf, InFlightOf
  <1>4. mem[n].status \in {"Pending", "Committed", "Completed"}
    <2>1. mem[n] \in Contexts
      BY <1>1 DEF ChainTypeOK
    <2>2. mem[n].status \in {"Pending", "Committed", "Aborted", "ForceComplete", "Completed"}
      BY <2>1, ExecutorValues
    <2> QED
      BY <1>1, <1>2, <2>2 DEF TxInv, Backing, Honest, LifeKept
  <1>5. CASE RunCommitted(n)
    <2>1. epc[n] = "running" /\ mem[n].status # "Pending" /\ epc'[n] = "saving" /\ UNCHANGED <<row, mem>>
      BY <1>1, <1>5 DEF RunCommitted, ExecGoto, ChainTypeOK, rowVars
    <2> QED
      BY <1>2, <1>3, <1>4, <2>1, OneCopy
         DEF EffectsOf, InFlightOf, Exec!RunCommitted, Exec!Goto
  <1>6. CASE Take(n)
    <2>1. epc[n] \in {"sending", "retrying"} /\ epc'[n] = "normal" /\ UNCHANGED <<row, mem>>
      BY <1>1, <1>6 DEF Take, ExecGoto, ChainTypeOK, rowVars
    <2> QED
      BY <1>2, <1>3, <1>4, <2>1, OneCopy DEF EffectsOf, InFlightOf, Exec!Take, Exec!Goto
  <1>7. CASE Finish(n)
    <2>1. /\ epc[n] = "normal" /\ ~(mem[n].curr < K) /\ UNCHANGED row
          /\ mem'[n] = Exec(n)!WithStatus(mem[n], "Completed") /\ epc'[n] = "completing"
      BY <1>1, <1>7, OneCopy DEF Finish, ExecGoto, ChainTypeOK, Exec!HasNext
    <2> QED
      BY <1>2, <1>3, <2>1, OneCopy
         DEF EffectsOf, InFlightOf, Exec!Finish, Exec!HasNext, Exec!Goto, Exec!WithStatus
  <1>8. CASE Checkpoint(n)
    <2>1. /\ epc[n] \in {"saving", "normalSave", "completing"} /\ UNCHANGED mem
          /\ row'[n] = mem[n]
      BY <1>1, <1>8 DEF Checkpoint, ChainTypeOK
    <2>2. epc'[n] = CASE epc[n] = "saving"     -> "sending"
                      [] epc[n] = "normalSave" -> "normal"
                      [] OTHER                 -> "ended"
      BY <1>1, <1>8 DEF Checkpoint, ExecGoto, ChainTypeOK
    <2>3. CASE epc[n] = "saving"
      BY <1>2, <1>3, <2>1, <2>2, <2>3, OneCopy
         DEF EffectsOf, InFlightOf, Exec!HandlerSave, Exec!Goto
    <2>4. CASE epc[n] \in {"normalSave", "completing"}
      BY <1>2, <1>3, <2>1, <2>2, <2>4, OneCopy
         DEF EffectsOf, InFlightOf, Exec!CheckpointOk, Exec!Goto
    <2> QED
      BY <2>1, <2>3, <2>4
  <1> QED
    BY <1>5, <1>6, <1>7, <1>8

LEMMA CrashRefines ==
    ASSUME ChainIInv, Crash, NEW n \in Txs
    PROVE  UNCHANGED Exec(n)!vars \/ Exec(n)!Crash
  <1> DEFINE new == Exec(n)!NewContext
  <1>1. TxInv(n) /\ ChainTypeOK
    BY DEF ChainIInv, RowsInv
  <1>2. /\ epc'[n] = IF Created(n) THEN "gone" ELSE "new"
        /\ mem'[n] = new
        /\ lost'[n] = lost[n] \cup Needed(n)
        /\ crashes'[n] = IF Created(n) THEN crashes[n] + 1 ELSE crashes[n]
        /\ recovered' = {}
        /\ recovery'[n] = IF Created(n) THEN RecoveryAt("unread", new) ELSE recovery[n]
        /\ row'[n] = row[n] /\ UNCHANGED applied
    BY DEF Crash, participantVars, dbVars
  <1>3. CASE Created(n)
    <2>1. /\ EffectsOf(n)' = EffectsOf(n)
          /\ InFlightOf(n)' = InFlightOf(n) \cup (Exec(n)!Requested(n) \ EffectsOf(n))
      BY <1>1, <1>2, <1>3, GivenUp
    <2>2. Exec(n)!Requests = Exec(n)!Requested(n)
      BY DEF Exec!Requests
    <2>3. crashes[n] < MaxFaults
      <3>1. crashes[n] <= faults /\ faults < MaxFaults
        BY <1>1 DEF TxInv, LifeKept, Crash, Fault
      <3>2. crashes[n] \in Nat /\ faults \in Nat /\ MaxFaults \in Nat
        BY <1>1, ChainAssumption DEF ChainTypeOK
      <3> QED
        BY <3>1, <3>2
    <2> QED
      BY <1>2, <1>3, <2>1, <2>2, <2>3
         DEF EffectsOf, InFlightOf, RecoveryAt, Created, Exec!Crash, Exec!Abandon,
             Exec!NewContext
  <1>4. CASE ~Created(n)
    <2>1. epc[n] = "new" /\ mem[n] = new /\ n \notin recovered /\ Needed(n) = {}
      BY <1>1, <1>4 DEF Created, TxInv, LifeKept, Needed
    <2>2. Visited(n)' = Visited(n)
      BY <1>2 DEF Visited, Visitors
    <2> QED
      BY <1>2, <1>4, <2>1, <2>2, ExecStutters DEF PcOf, EffectsOf, InFlightOf
  <1> QED
    BY <1>3, <1>4

LEMMA RecoverRefines ==
    ASSUME ChainIInv, Recover, NEW n \in Txs
    PROVE  UNCHANGED Exec(n)!vars \/ Exec(n)!Recover
  <1>1. /\ UNCHANGED <<row, mem, epc, lost, recovered, crashes, applied>>
        /\ recovery'[n] = IF recovery[n].phase # "unread" THEN recovery[n]
                          ELSE IF row[n].status = "Completed" THEN RecoveryAt("none", row[n])
                          ELSE RecoveryAt("requesting", row[n])
    BY DEF Recover, participantVars, dbVars
  <1>2. /\ PcOf(n)' = PcOf(n) /\ EffectsOf(n)' = EffectsOf(n)
        /\ InFlightOf(n)' = InFlightOf(n)
    BY <1>1 DEF PcOf, EffectsOf, InFlightOf, Visited, Visitors
  <1>3. CASE recovery[n].phase # "unread"
    BY <1>1, <1>2, <1>3, ExecStutters
  <1>4. CASE recovery[n].phase = "unread"
    <2>1. row[n].status # "Aborted"
      BY DEF ChainIInv, RowsInv, TxInv, Backing, Honest
    <2> QED
      BY <1>1, <1>2, <1>4, <2>1 DEF PcOf, EffectsOf, InFlightOf, RecoveryAt, Exec!Recover
  <1> QED
    BY <1>3, <1>4

LEMMA RecoveryRefines ==
    ASSUME ChainIInv, NEW n \in Txs, RecoveryRequest(n)
    PROVE  Exec(n)!RecoveryRequest(n)
  <1>1. TxInv(n) /\ ChainTypeOK
    BY DEF ChainIInv, RowsInv
  <1>2. UNCHANGED <<row, crashes, lost, applied>>
    BY DEF RecoveryRequest, participantVars, dbVars
  <1>3. EffectsOf(n)' = EffectsOf(n) /\ InFlightOf(n)' = InFlightOf(n)
    BY <1>2 DEF EffectsOf, InFlightOf, Visited, Visitors
  <1>4. /\ recovery[n].phase = "requesting" /\ recovery[n].tries = 0
        /\ recovery'[n] = [recovery[n] EXCEPT !.tries = 1]
        /\ mem'[n] = recovery[n].ctx
        /\ recovered' = recovered \cup {n}
        /\ epc'[n] = "running"
    BY <1>1 DEF RecoveryRequest, ExecGoto, ChainTypeOK
  <1>5. epc[n] = "gone"
    BY <1>1, <1>4 DEF TxInv, LifeKept
  <1>6. n = Exec(n)!AnyCopy({n})
    <2>1. Exec(n)!AnyCopy({n}) \in {n}
      <3>1. \E c : c \in {n}
        OBVIOUS
      <3> QED
        BY <3>1, Zenon DEF Exec!AnyCopy
    <2> QED
      BY <2>1
  <1> DEFINE pcs == [c \in {n} |-> IF epc[n] = "new" THEN "running" ELSE epc[n]]
  <1>7. pcs[n] = "gone" /\ {d \in {n} : pcs[d] = "gone"} = {n}
    BY <1>5
  <1>8. n = Exec(n)!AnyCopy({d \in {n} : pcs[d] = "gone"})
    BY <1>6, <1>7
  <1>9. /\ recovery'[n] = [recovery[n] EXCEPT !.tries = recovery[n].tries + 1]
        /\ recovery[n].tries < 1
    BY <1>4
  <1>10. /\ [c \in {n} |-> mem'[n]] = [[c \in {n} |-> mem[n]] EXCEPT ![n] = recovery[n].ctx]
         /\ [c \in {n} |-> IF epc'[n] = "new" THEN "running" ELSE epc'[n]]
               = [pcs EXCEPT ![n] = "running"]
         /\ recovered' \cap {n} = (recovered \cap {n}) \cup {n}
    BY <1>4
  <1> QED
    BY <1>2, <1>3, <1>4, <1>7, <1>8, <1>9, <1>10
       DEF EffectsOf, InFlightOf, Exec!RecoveryRequest, Exec!PartitionFree, Exec!Goto, Exec!HandlerPCs

\* A commit is the effect of a request that somebody waits for or has given up.
LEMMA CommitTakesEffect ==
    ASSUME ChainIInv, NEW m \in Msgs, pc[m] = "inserted", CommitDb(m),
           UNCHANGED executorVars, NEW n \in Txs
    PROVE  UNCHANGED Exec(n)!vars \/ Exec(n)!TakeEffect
  <1> DEFINE k == m[2]
  <1>1. TxInv(n) /\ ChainTypeOK
    BY DEF ChainIInv, RowsInv
  <1>2. UNCHANGED <<row, mem, epc, lost, recovered, recovery, crashes>>
    BY DEF executorVars, rowVars
  <1>3. /\ m[1] \in Txs /\ k \in Stages /\ k \notin Visited(m[1])
        /\ Visitors(k)' = Visitors(k) \cup {m[1]}
        /\ \A j \in Stages : j # k => Visitors(j)' = Visitors(j)
    BY <1>1, CommitVisits DEF ChainIInv
  <1>4. CASE m[1] # n
    <2>1. Visited(n)' = Visited(n)
      BY <1>3, <1>4 DEF Visited
    <2> QED
      BY <1>2, <2>1, ExecStutters DEF PcOf, EffectsOf, InFlightOf
  <1>5. CASE m[1] = n
    <2>1. Visited(n)' = Visited(n) \cup {k}
      BY <1>3, <1>5 DEF Visited
    <2>2. k \in Needed(n) \cup lost[n] /\ k \notin Visited(n)
      BY <1>1, <1>3, <1>5 DEF TxInv, Underway, AtRest
    <2>3. Created(n)
      BY <1>1, <2>2 DEF Created, TxInv, LifeKept, Needed
    <2>4. <<k, k>> \in InFlightOf(n) \cup Exec(n)!Requested(n)
      BY <1>1, <2>2, <2>3, RequestedNeeded DEF InFlightOf
    <2>5. /\ EffectsOf(n)' = EffectsOf(n) \cup {<<k, k>>}
          /\ InFlightOf(n)' = InFlightOf(n) \ {<<k, k>>}
      BY <1>2, <2>1 DEF EffectsOf, InFlightOf
    <2>6. Exec(n)!Requests = Exec(n)!Requested(n)
      BY DEF Exec!Requests
    <2> QED
      BY <1>2, <2>4, <2>5, <2>6 DEF EffectsOf, InFlightOf, Exec!TakeEffect, Exec!Serve
  <1> QED
    BY <1>4, <1>5

\* A step of another executor is none of this one's.
LEMMA OthersStutter ==
    ASSUME ChainIInv, NEW d \in Txs, NEW n \in Txs, n # d,
           NEW x \in Contexts, NEW y \in {row[d], mem[d]},
           NEW label \in ExecutorPCs \ {"new", "gone"}, MovesOn(d, x, y, label)
    PROVE  UNCHANGED Exec(n)!vars
  <1>1. /\ row'[n] = row[n] /\ mem'[n] = mem[n] /\ epc'[n] = epc[n] /\ lost'[n] = lost[n]
        /\ UNCHANGED <<applied, recovered, recovery, crashes>>
    BY DEF MovesOn, ChainIInv, RowsInv, ChainTypeOK, participantVars, dbVars
  <1> QED
    BY <1>1, ExecStutters DEF PcOf, EffectsOf, InFlightOf, Visited, Visitors

LEMMA ExecutorsNext ==
    ASSUME ChainIInv, ChainNext, NEW n \in Txs
    PROVE  UNCHANGED Exec(n)!vars \/ Exec(n)!Next
  <1>1. ChainTypeOK /\ AnswerMeansApplied /\ \A d \in Txs : TxInv(d)
    BY DEF ChainIInv, RowsInv, ParticipantIInv
  <1>2. ASSUME NEW d \in Txs, \/ Create(d) \/ RunOk(d) \/ RunCommitted(d)
                              \/ \E why : RunFails(d, why)
        PROVE  UNCHANGED Exec(n)!vars \/ Exec(n)!Next
    <2>1. CASE d # n
      BY <1>1, <1>2, <2>1, HandlerMoves, OthersStutter
    <2>2. CASE d = n
      <3>1. CASE Create(n)
        <4>1. /\ epc[n] = "new" /\ epc'[n] = "running"
              /\ UNCHANGED <<row, mem, lost, applied, recovered, recovery, crashes>>
          BY <1>1, <3>1
             DEF Create, ExecGoto, ChainTypeOK, rowVars, participantVars, dbVars
        <4> QED
          BY <4>1, ExecStutters DEF PcOf, EffectsOf, InFlightOf, Visited, Visitors
      <3>2. CASE RunOk(n) \/ RunCommitted(n) \/ \E why : RunFails(n, why)
        BY <3>2, RunOkRefines, QuietStepRefines, FailsRefines DEF Exec!Next, Exec!Step
      <3> QED
        BY <1>2, <2>2, <3>1, <3>2
    <2> QED
      BY <2>1, <2>2
  <1>3. ASSUME NEW d \in Txs, \/ Take(d) \/ ExecuteOk(d) \/ \E why : ExecuteFails(d, why)
                              \/ Finish(d) \/ Checkpoint(d)
        PROVE  UNCHANGED Exec(n)!vars \/ Exec(n)!Next
    <2>1. CASE d # n
      BY <1>1, <1>3, <2>1, ManagerMoves, OthersStutter
    <2>2. CASE d = n
      BY <1>3, <2>2, ExecuteOkRefines, QuietStepRefines, FailsRefines
         DEF Exec!Next, Exec!Step
    <2> QED
      BY <2>1, <2>2
  <1>4. ASSUME NEW d \in Txs, Ask(d)
        PROVE  UNCHANGED Exec(n)!vars
    <2>1. UNCHANGED <<row, mem, epc, lost, applied, recovered, recovery, crashes>>
      BY <1>4 DEF Ask, rowVars, dbVars
    <2> QED
      BY <2>1, ExecStutters DEF PcOf, EffectsOf, InFlightOf, Visited, Visitors
  <1>5. ASSUME NEW d \in Txs, RecoveryRequest(d)
        PROVE  UNCHANGED Exec(n)!vars \/ Exec(n)!Next
    <2>1. CASE d = n
      BY <1>5, <2>1, RecoveryRefines DEF Exec!Next
    <2>2. CASE d # n
      <3>1. /\ mem'[n] = mem[n] /\ epc'[n] = epc[n] /\ recovery'[n] = recovery[n]
            /\ n \in recovered' <=> n \in recovered
            /\ UNCHANGED <<row, lost, applied, crashes>>
        BY <1>1, <1>5, <2>2
           DEF RecoveryRequest, ExecGoto, ChainTypeOK, participantVars,
               dbVars
      <3> QED
        BY <3>1, ExecStutters DEF PcOf, EffectsOf, InFlightOf, Visited, Visitors
    <2> QED
      BY <2>1, <2>2
  <1>6. CASE Recover \/ Crash
    BY <1>6, RecoverRefines, CrashRefines DEF Exec!Next
  <1>7. ASSUME NEW m \in Msgs, Progress(m) \/ DatabaseFails(m)
        PROVE  UNCHANGED Exec(n)!vars \/ Exec(n)!Next
    <2>1. Serves(m) /\ UNCHANGED executorVars
      BY <1>1, <1>7, ReceiverServes
    <2>2. CASE UNCHANGED dbVars
      <3>1. UNCHANGED <<row, mem, epc, lost, applied, recovered, recovery, crashes>>
        BY <2>1, <2>2 DEF dbVars, executorVars, rowVars
      <3> QED
        BY <3>1, ExecStutters DEF PcOf, EffectsOf, InFlightOf, Visited, Visitors
    <2>3. CASE pc[m] = "inserted" /\ CommitDb(m)
      BY <2>1, <2>3, CommitTakesEffect DEF Exec!Next
    <2> QED
      BY <1>1, <2>1, <2>2, <2>3, ServesOne
  <1>8. ASSUME NEW q \in Queues, RestartReceiver(q)
        PROVE  UNCHANGED Exec(n)!vars
    <2>1. UNCHANGED <<row, mem, epc, lost, applied, recovered, recovery, crashes>>
      BY <1>8 DEF RestartReceiver, dbVars, executorVars, rowVars
    <2> QED
      BY <2>1, ExecStutters DEF PcOf, EffectsOf, InFlightOf, Visited, Visitors
  <1>9. CASE \E d \in Txs : Create(d) \/ ExecutorStep(d) \/ TimesOut(d)
    BY <1>2, <1>3, <1>4, <1>9 DEF ExecutorStep, TimesOut
  <1> QED
    BY <1>5, <1>6, <1>7, <1>8, <1>9 DEF ChainNext, FaultFree, Faulty

\* Served by real participants, every executor implements TxExecutor, so what is proved
\* there of an executor with arbitrary participants is true of it.
THEOREM ExecutorsRefined == ChainSpec => ExecutorsSpec
  <1> DEFINE Steps == \A n \in Txs : UNCHANGED Exec(n)!vars \/ Exec(n)!Next
  <1>1. ChainInit => \A n \in Txs : Exec(n)!Init
    <2> SUFFICES ASSUME ChainInit, NEW n \in Txs
                 PROVE  Exec(n)!Init
      OBVIOUS
    <2>1. /\ row[n] = Exec(n)!NewContext /\ mem[n] = Exec(n)!NewContext
          /\ epc[n] = "new" /\ lost[n] = {} /\ recovered = {} /\ crashes[n] = 0
          /\ recovery[n] = RecoveryAt("none", Exec(n)!NewContext)
      BY DEF ChainInit
    <2>2. Visited(n) = {}
      BY Messages DEF ChainInit, Visited, Visitors
    <2>3. n = Exec(n)!AnyCopy({n})
      <3>1. \E c : c \in {n}
        OBVIOUS
      <3>2. Exec(n)!AnyCopy({n}) \in {n}
        BY <3>1, Zenon DEF Exec!AnyCopy
      <3> QED
        BY <3>2
    <2> QED
      BY <2>1, <2>2, <2>3 DEF RecoveryAt, Exec!Init, Exec!NewContext
  <1>2. ChainIInv /\ [ChainNext]_chainVars => [Steps]_chainVars
    BY ExecutorsNext
  <1> QED
    BY <1>1, <1>2, ChainInvAlways, PTL DEF ChainSpec, ExecutorsSpec

-----------------------------------------------------------------------------
(* What a client and a reader of the receivers' logs may rely on           *)

\* A transaction recorded as completed has had its effect at the receiver of every
\* stage: neither a lost answer nor a crash makes executor or recovery skip one.
THEOREM CompletedTruly == ChainSpec => []CompletedEverywhere
  <1>1. ChainIInv => CompletedEverywhere
    <2> SUFFICES ASSUME ChainIInv, NEW n \in Txs, Completed(n)
                 PROVE  Visited(n) = Stages
      BY DEF CompletedEverywhere
    <2>1. row[n].curr = K /\ \A k \in 0 .. row[n].curr : k \in Visited(n)
      BY DEF ChainIInv, RowsInv, TxInv, Backing, Honest, Completed
    <2> QED
      BY <2>1 DEF Stages, Visited
  <1> QED
    BY <1>1, ChainInvAlways, PTL

\* At an undisturbed receiver the transactions come in the order of their numbers.
NumberOrder ==
    \A k \in Stages \ disturbed : \A i, j \in DOMAIN applied[k] :
        i < j => applied[k][i] < applied[k][j]

LEMMA NumberOrderKept ==
    ASSUME ChainIInv, NumberOrder, [ChainNext]_chainVars
    PROVE  NumberOrder'
  <1>1. disturbed \subseteq disturbed'
    <2>1. \A n \in Txs : Ask(n) => disturbed \subseteq disturbed'
      BY AskSends DEF ChainIInv, RowsInv
    <2>2. \A m \in Msgs : Progress(m) \/ DatabaseFails(m) => disturbed \subseteq disturbed'
      BY ReceiverServes DEF ChainIInv, RowsInv
    <2> QED
      BY <2>1, <2>2, StepKinds
         DEF ExecutorMoves, MovesOn, RecoveryRequest, Recover, Crash,
             RestartReceiver, chainVars
  <1>2. CASE UNCHANGED applied
    BY <1>1, <1>2 DEF NumberOrder
  <1>3. ASSUME NEW m \in Msgs, pc[m] = "inserted", CommitDb(m)
        PROVE  NumberOrder'
    <2> DEFINE k == m[2]
               s == applied[k]
    <2>1. /\ k \in Stages /\ m[1] \in Nat /\ s \in Seq(Nat)
          /\ applied'[k] = Append(s, m[1])
          /\ \A j \in Stages : j # k => applied'[j] = applied[j]
      <3>1. /\ k \in Stages /\ k \in Queues /\ m[1] \in Txs
            /\ applied' = [applied EXCEPT ![k] = Append(@, m[1])]
            /\ applied \in [Stages -> Seq(Nat)]
        BY <1>3, CommitVisits, Messages DEF ChainIInv, RowsInv, ChainTypeOK
      <3> QED
        BY <3>1 DEF Txs
    <2>2. k \notin disturbed => \A i \in DOMAIN s : s[i] < m[1]
      BY <1>3, CommitInTurn DEF Visitors
    <2>3. Len(s) \in Nat /\ DOMAIN s = 1 .. Len(s)
      BY <2>1
    <2>4. /\ \A i \in DOMAIN s : applied'[k][i] = s[i]
          /\ applied'[k][Len(s) + 1] = m[1]
          /\ DOMAIN applied'[k] = 1 .. Len(s) + 1
      BY <2>1, <2>3
    <2> SUFFICES ASSUME NEW d \in Stages, d \notin disturbed',
                        NEW i \in DOMAIN applied'[d], NEW j \in DOMAIN applied'[d], i < j
                 PROVE  applied'[d][i] < applied'[d][j]
      BY DEF NumberOrder
    <2>5. d \notin disturbed
      BY <1>1
    <2>6. CASE d # k
      BY <2>1, <2>5, <2>6 DEF NumberOrder
    <2>7. CASE d = k
      <3>1. i \in DOMAIN s
        BY <2>3, <2>4, <2>7
      <3>2. CASE j \in DOMAIN s
        BY <2>4, <2>5, <2>7, <3>1, <3>2 DEF NumberOrder
      <3>3. CASE j = Len(s) + 1
        BY <2>2, <2>4, <2>5, <2>7, <3>1, <3>3
      <3> QED
        BY <2>3, <2>4, <2>7, <3>2, <3>3
    <2> QED
      BY <2>6, <2>7
  <1>4. UNCHANGED applied \/ \E m \in Msgs : pc[m] = "inserted" /\ CommitDb(m)
    <2>1. ASSUME NEW m \in Msgs, Progress(m) \/ DatabaseFails(m)
          PROVE  UNCHANGED applied \/ (pc[m] = "inserted" /\ CommitDb(m))
      BY <2>1, ReceiverServes, ServesOne DEF ChainIInv, RowsInv, dbVars
    <2> QED
      BY <2>1, StepKinds
         DEF ExecutorMoves, MovesOn, Ask, RecoveryRequest, Recover,
             Crash, RestartReceiver, chainVars, participantVars, dbVars
  <1> QED
    BY <1>2, <1>3, <1>4

\* No two undisturbed receivers disagree on the order of two transactions, for any
\* number of transactions and stages and in whatever order their requests arrive.
THEOREM OrdersAgree == ChainSpec => []ReceiversAgree
  <1>1. ChainInit => NumberOrder
    BY Messages DEF ChainInit, NumberOrder
  <1>2. NumberOrder => ReceiversAgree
    <2> SUFFICES ASSUME NumberOrder, NEW j \in Stages \ disturbed, NEW k \in Stages \ disturbed,
                        NEW m \in Txs, NEW n \in Txs, Precedes(j, m, n), Precedes(k, n, m)
                 PROVE  FALSE
      BY DEF ReceiversAgree
    <2>1. m < n /\ n < m
      BY DEF NumberOrder, Precedes
    <2> QED
      BY <2>1 DEF Txs
  <1> QED
    BY <1>1, <1>2, NumberOrderKept, ChainInvAlways, PTL DEF ChainSpec

=============================================================================
