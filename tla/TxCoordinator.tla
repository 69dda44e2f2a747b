--------------------------- MODULE TxCoordinator ---------------------------
(***************************************************************************)
(* How a coordinating service hands out timestamps: createTxExecutor and   *)
(* the new-request path of TxCoordinator (pkg/middleware/tx.go), the       *)
(* sender clocks in memory (pkg/cc/clock.go) and in the database, crashes, *)
(* and the recovery of the sender clocks (pkg/cc/recovery.go).             *)
(*                                                                         *)
(* A request locks its sender partition, takes the next timestamp of every *)
(* receiver from the clocks in memory, writes its executor row and the new *)
(* clocks in one database transaction, and only after the commit sets the  *)
(* clocks in memory and unlocks.  Recover writes the clocks in memory      *)
(* without the lock.                                                       *)
(***************************************************************************)
EXTENDS Naturals, Sequences, FiniteSets

CONSTANTS
    Reqs,               \* client requests
    Partitions,         \* sender partitions
    Services,           \* receiving services
    Receivers,          \* Seq(Services): one entry per stage, may repeat
    ServeFirst,         \* Recover is called after the server is running
    MaxCrashes          \* bound on crashes of the service

ASSUME CoordinatorAssumption ==
    /\ Receivers \in Seq(Services)
    /\ ServeFirst \in BOOLEAN
    /\ MaxCrashes \in Nat

VARIABLES
    clock,      \* [Partitions -> [Services -> Nat]]: the sender clocks
    dbClock,    \* the same, in TxSenderClocks; 0 stands for no row
    rows,       \* the TxExecutor rows: [req, prt, ts]
    lock,       \* [Partitions -> SUBSET Reqs]: the mutex's holder
    pc,         \* [Reqs -> control state]
    prt,        \* [Reqs -> Partitions]: ctrlCtx.Partition
    base,       \* [Reqs -> [Services -> Nat]]: the clocks a request has read
    recovery,   \* "start", "setting" or "done"
    toSet,      \* the <<partition, service, ts>> Recover has still to set
    crashes

vars == <<clock, dbClock, rows, lock, pc, prt, base, recovery, toSet, crashes>>

recoveryVars == <<recovery, toSet, crashes>>

\* "creating": locked, the transaction is open; "committed": COMMIT has taken
\* effect; "running": unlocked, the handler runs; "rejected": answered with an
\* error; "gone": cut off by a crash.
PCs == {"new", "creating", "committed", "running", "rejected", "gone"}

ZeroClocks == [p \in Partitions |-> [s \in Services |-> 0]]

\* The occurrences of the i-th receiver up to i, and of s among all.
Occurrence(i) == Cardinality({j \in 1 .. i : Receivers[j] = Receivers[i]})
Occurrences(s) == Cardinality({j \in DOMAIN Receivers : Receivers[j] = s})

\* Faulty variant: the clocks of the other services are lost.
MovedReceiversOnly(clocks, b) ==
    [s \in {Receivers[i] : i \in DOMAIN Receivers} |-> b[s] + Occurrences(s)]

\* Faulty variant: only the first receiver's clock is moved.
MovedFirstOnly(clocks, b) ==
    [s \in Services |-> IF s # Receivers[1] THEN clocks[s]
                                            ELSE b[s] + Occurrences(s)]

\* execCtx.Timestamps, from the clocks b that were read.
Timestamps(b) == [i \in DOMAIN Receivers |-> b[Receivers[i]] + Occurrence(i)]

\* The clocks after those of the receivers were set to tsMap's values.
Moved(clocks, b) ==
    [s \in Services |-> IF Occurrences(s) = 0 THEN clocks[s]
                                              ELSE b[s] + Occurrences(s)]

Goto(r, label) == pc' = [pc EXCEPT ![r] = label]

Unlock(p) == lock' = [lock EXCEPT ![p] = {}]

-----------------------------------------------------------------------------
Init ==
    /\ clock = ZeroClocks
    /\ dbClock = ZeroClocks
    /\ rows = {}
    /\ lock = [p \in Partitions |-> {}]
    /\ pc = [r \in Reqs |-> "new"]
    /\ prt \in [Reqs -> Partitions]
    /\ base = [r \in Reqs |-> [s \in Services |-> 0]]
    /\ recovery = "start"
    /\ toSet = {}
    /\ crashes = 0

(* createTxExecutor *)

\* Faulty variant: the clocks are read without waiting for the lock.
BeginUnlocked(r) ==
    /\ pc[r] = "new"
    /\ ServeFirst \/ recovery = "done"
    /\ lock' = [lock EXCEPT ![prt[r]] = @ \cup {r}]
    /\ base' = [base EXCEPT ![r] = clock[prt[r]]]
    /\ Goto(r, "creating")
    /\ UNCHANGED <<clock, dbClock, rows, prt, recoveryVars>>

\* prtMgr.Lock and the computation of the timestamps.
Begin(r) ==
    /\ pc[r] = "new"
    /\ ServeFirst \/ recovery = "done"
    /\ lock[prt[r]] = {}
    /\ lock' = [lock EXCEPT ![prt[r]] = {r}]
    /\ base' = [base EXCEPT ![r] = clock[prt[r]]]
    /\ Goto(r, "creating")
    /\ UNCHANGED <<clock, dbClock, rows, prt, recoveryVars>>

\* Faulty variant: the clocks in memory are moved also when the transaction
\* has failed.
CreateFailsSettingClock(r) ==
    /\ pc[r] = "creating"
    /\ clock' = [clock EXCEPT ![prt[r]] = Moved(@, base[r])]
    /\ Unlock(prt[r])
    /\ Goto(r, "rejected")
    /\ UNCHANGED <<dbClock, rows, prt, base, recoveryVars>>

\* BEGIN, INSERT, an upsert or COMMIT fails: rolled back, unlocked, answered
\* with an error.
CreateFails(r) ==
    /\ pc[r] = "creating"
    /\ Unlock(prt[r])
    /\ Goto(r, "rejected")
    /\ UNCHANGED <<clock, dbClock, rows, prt, base, recoveryVars>>

\* Faulty variant: the sender clocks are left out of the transaction.
CreateCommitRowOnly(r) ==
    /\ pc[r] = "creating"
    /\ rows' = rows \cup {[req |-> r, prt |-> prt[r], ts |-> Timestamps(base[r])]}
    /\ Goto(r, "committed")
    /\ UNCHANGED <<clock, dbClock, lock, prt, base, recoveryVars>>

\* The executor row and the sender clocks are committed together.
CreateCommit(r) ==
    /\ pc[r] = "creating"
    /\ rows' = rows \cup {[req |-> r, prt |-> prt[r], ts |-> Timestamps(base[r])]}
    /\ dbClock' = [dbClock EXCEPT ![prt[r]] = Moved(@, base[r])]
    /\ Goto(r, "committed")
    /\ UNCHANGED <<clock, lock, prt, base, recoveryVars>>

\* The commit is confirmed: clockMgr.Set for every receiver, unlock.
SetClocks(r) ==
    /\ pc[r] = "committed"
    /\ clock' = [clock EXCEPT ![prt[r]] = Moved(@, base[r])]
    /\ Unlock(prt[r])
    /\ Goto(r, "running")
    /\ UNCHANGED <<dbClock, rows, prt, base, recoveryVars>>

\* The commit took effect but reports an error: the clocks stay as they are.
Unconfirmed(r) ==
    /\ pc[r] = "committed"
    /\ Unlock(prt[r])
    /\ Goto(r, "rejected")
    /\ UNCHANGED <<clock, dbClock, rows, prt, base, recoveryVars>>

(* Crash and recovery *)

Crash ==
    /\ crashes < MaxCrashes
    /\ crashes' = crashes + 1
    /\ clock' = ZeroClocks
    /\ lock' = [p \in Partitions |-> {}]
    /\ pc' = [r \in Reqs |-> IF pc[r] \in {"creating", "committed", "running"}
                             THEN "gone" ELSE pc[r]]
    /\ recovery' = "start"
    /\ toSet' = {}
    /\ UNCHANGED <<dbClock, rows, prt, base>>

DbValues == {dbClock[p][s] : p \in Partitions, s \in Services}

\* recoverSendClocks reads the rows of TxSenderClocks, ...
RecoverRead ==
    /\ recovery = "start"
    /\ toSet' = {x \in Partitions \X Services \X DbValues :
                    x[3] = dbClock[x[1]][x[2]] /\ x[3] > 0}
    /\ recovery' = "setting"
    /\ UNCHANGED <<clock, dbClock, rows, lock, pc, prt, base, crashes>>

\* ... sets the clocks one by one, ...
RecoverSet ==
    /\ recovery = "setting"
    /\ \E x \in toSet :
          /\ clock' = [clock EXCEPT ![x[1]][x[2]] = x[3]]
          /\ toSet' = toSet \ {x}
    /\ UNCHANGED <<dbClock, rows, lock, pc, prt, base, recovery, crashes>>

\* ... and is done.
RecoverEnd ==
    /\ recovery = "setting"
    /\ toSet = {}
    /\ recovery' = "done"
    /\ UNCHANGED <<clock, dbClock, rows, lock, pc, prt, base, toSet, crashes>>

-----------------------------------------------------------------------------
Step(r) ==
    \/ Begin(r)
    \/ CreateFails(r)
    \/ CreateCommit(r)
    \/ SetClocks(r)
    \/ Unconfirmed(r)

Next ==
    \/ \E r \in Reqs : Step(r)
    \/ Crash
    \/ RecoverRead
    \/ RecoverSet
    \/ RecoverEnd

Spec == Init /\ [][Next]_vars

-----------------------------------------------------------------------------
(* Properties                                                              *)

TypeOK ==
    /\ clock \in [Partitions -> [Services -> Nat]]
    /\ dbClock \in [Partitions -> [Services -> Nat]]
    /\ rows \subseteq [req : Reqs, prt : Partitions, ts : [DOMAIN Receivers -> Nat]]
    /\ lock \in [Partitions -> SUBSET Reqs]
    /\ pc \in [Reqs -> PCs]
    /\ prt \in [Reqs -> Partitions]
    /\ base \in [Reqs -> [Services -> Nat]]
    /\ recovery \in {"start", "setting", "done"}
    /\ toSet \subseteq Partitions \X Services \X Nat
    /\ crashes \in 0 .. MaxCrashes

Rejected(x) == pc[x.req] = "rejected"

\* No timestamp of a receiver's queue is handed out twice, across stages,
\* requests, failures and restarts, but to a request that was answered with an
\* error because the confirmation of its commit was lost.
TimestampsUnique ==
    \A x, y \in rows : \A i, j \in DOMAIN Receivers :
        x.prt = y.prt /\ Receivers[i] = Receivers[j] /\ x.ts[i] = y.ts[j]
            => (x = y /\ i = j) \/ (x # y /\ (Rejected(x) \/ Rejected(y)))

\* All visits of x come before all visits of y to the same receiver.
Before(x, y) ==
    \A i, j \in DOMAIN Receivers : Receivers[i] = Receivers[j] => x.ts[i] < y.ts[j]

\* The receivers agree on one order of a partition's transactions (tx_test.go
\* 314-316 compares them): of two that do not share their timestamps, one comes
\* first at every receiver and at every visit, so they never wait for each other.
OneOrder ==
    \A x, y \in rows :
        x.prt = y.prt => x.ts = y.ts \/ Before(x, y) \/ Before(y, x)

\* No timestamp is left out: up to the clock in the database each one belongs
\* to an executor.  A receiver would wait for a missing one for ever.
NoTimestampSkipped ==
    \A p \in Partitions : \A s \in Services : \A t \in 1 .. dbClock[p][s] :
        \E x \in rows : \E i \in DOMAIN Receivers :
            x.prt = p /\ Receivers[i] = s /\ x.ts[i] = t

\* What a restart will find covers every executor that was created.
DbCoversRows ==
    \A x \in rows : \A i \in DOMAIN Receivers :
        x.ts[i] <= dbClock[x.prt][Receivers[i]]

\* The database is ahead of the clocks b by one request's timestamps.
Ahead(p, b) == dbClock[p] = Moved(b, b)

\* Whenever the next request may read the clocks of a partition, memory and
\* database agree, or memory lacks just the timestamps of requests answered
\* with an error.
MemoryMatchesDb ==
    \A p \in Partitions :
        recovery = "done" /\ lock[p] = {} =>
            \/ clock[p] = dbClock[p]
            \/ /\ Ahead(p, clock[p])
               /\ \E x \in rows :
                     x.prt = p /\ x.ts = Timestamps(clock[p]) /\ Rejected(x)

-----------------------------------------------------------------------------
(* The inductive invariant behind the safety properties, for a service     *)
(* that recovers first (~ServeFirst)                                       *)

\* A request's executor row is written once, when it commits.
OwnRow ==
    /\ \A x \in rows : x.prt = prt[x.req] /\ pc[x.req] \notin {"new", "creating"}
    /\ \A x, y \in rows : x.req = y.req => x = y

\* The requests between the reading of the clocks and their unlock.
Inside(r) == pc[r] \in {"creating", "committed"}

\* They have the partition to themselves, and recovery behind them.
InsideAlone == \A r \in Reqs : Inside(r) => lock[prt[r]] = {r} /\ recovery = "done"

\* What a request has read stands in memory until SetClocks; once it has
\* committed, the database is ahead by its timestamps.
ReadIsCurrent ==
    \A r \in Reqs :
        /\ Inside(r) => base[r] = clock[prt[r]]
        /\ pc[r] = "committed" => Ahead(prt[r], base[r])

\* Memory lags behind the database by at most one request's timestamps, and
\* only for a request that has just committed or was answered with an error.
MemoryLags ==
    recovery = "done" =>
        \A p \in Partitions :
            \/ clock[p] = dbClock[p]
            \/ /\ Ahead(p, clock[p])
               /\ \E x \in rows :
                     /\ x.prt = p /\ x.ts = Timestamps(clock[p])
                     /\ pc[x.req] \in {"committed", "rejected"}

\* Every timestamp handed out is below the clocks in memory, or is the next one
\* once more.
RowsBelow ==
    recovery = "done" =>
        \A x \in rows :
            \/ \A i \in DOMAIN Receivers : x.ts[i] <= clock[x.prt][Receivers[i]]
            \/ /\ x.ts = Timestamps(clock[x.prt])
               /\ pc[x.req] \in {"committed", "rejected"}

\* Recovery sets every clock that is not zero to what the database says.
RecoverySets ==
    /\ recovery = "start" => clock = ZeroClocks
    /\ \A p \in Partitions : \A s \in Services :
          recovery = "setting" =>
              clock[p][s] = dbClock[p][s] \/ <<p, s, dbClock[p][s]>> \in toSet
    /\ \A x \in toSet : recovery = "setting" /\ x[3] = dbClock[x[1]][x[2]]

IInv ==
    /\ TypeOK
    /\ OwnRow
    /\ InsideAlone
    /\ ReadIsCurrent
    /\ MemoryLags
    /\ RowsBelow
    /\ RecoverySets
    /\ DbCoversRows
    /\ TimestampsUnique
    /\ OneOrder
    /\ NoTimestampSkipped

=============================================================================
