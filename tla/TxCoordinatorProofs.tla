------------------------ MODULE TxCoordinatorProofs ------------------------
(***************************************************************************)
(* Theorems about the timestamps a coordinating service hands out, for     *)
(* every set of requests and partitions and every list of receivers, when  *)
(* it recovers before it serves.                                           *)
(*                                                                         *)
(* The argument: whoever is between the reading of the clocks and the      *)
(* commit holds the partition's lock, so what it has read is what memory   *)
(* says; and every timestamp handed out before is below that, but for the  *)
(* next ones themselves, which a request that was answered with an error   *)
(* may already have.                                                       *)
(***************************************************************************)
EXTENDS TxCoordinator, FiniteSetTheorems, TLAPS

\* The occurrences of a receiver are numbered 1, 2, ... without a gap.
LEMMA Numbering ==
    /\ \A s \in Services : Occurrences(s) \in Nat
    /\ \A i \in DOMAIN Receivers : Occurrence(i) \in 1 .. Occurrences(Receivers[i])
    /\ \A i, j \in DOMAIN Receivers :
          Receivers[i] = Receivers[j] /\ Occurrence(i) = Occurrence(j) => i = j
    /\ \A s \in Services : \A k \in 1 .. Occurrences(s) :
          \E i \in DOMAIN Receivers : Receivers[i] = s /\ Occurrence(i) = k
  <1> DEFINE At(s) == {j \in DOMAIN Receivers : Receivers[j] = s}
             UpTo(i) == {j \in 1 .. i : Receivers[j] = Receivers[i]}
  <1>1. PICK n \in Nat : DOMAIN Receivers = 1 .. n
    BY CoordinatorAssumption
  <1>2. \A S \in SUBSET (1 .. n) : IsFiniteSet(S) /\ Cardinality(S) \in Nat
    <2>1. IsFiniteSet(1 .. n)
      BY FS_Interval
    <2> QED
      BY <2>1, FS_Subset, FS_CardinalityType
  <1>3. \A s : Occurrences(s) \in Nat
    BY <1>1, <1>2 DEF Occurrences
  <1>4. \A i \in 1 .. n : Occurrence(i) \in 1 .. Occurrences(Receivers[i])
    <2> SUFFICES ASSUME NEW i \in 1 .. n
                 PROVE  Occurrence(i) \in 1 .. Occurrences(Receivers[i])
      OBVIOUS
    <2>1. UpTo(i) \in SUBSET At(Receivers[i]) /\ At(Receivers[i]) \in SUBSET (1 .. n)
      BY <1>1
    <2>2. Cardinality(UpTo(i)) <= Cardinality(At(Receivers[i]))
      BY <1>2, <2>1, FS_Subset
    <2>3. IsFiniteSet(UpTo(i)) /\ Cardinality(UpTo(i)) \in Nat
      BY <1>1, <1>2, <2>1
    <2>4. Cardinality(UpTo(i)) # 0
      <3>1. i \in UpTo(i)
        OBVIOUS
      <3> QED
        BY <2>3, <3>1, FS_EmptySet
    <2> QED
      BY <1>3, <2>2, <2>3, <2>4 DEF Occurrence, Occurrences
  <1>5. ASSUME NEW i \in 1 .. n, NEW j \in 1 .. n,
               Receivers[i] = Receivers[j], Occurrence(i) = Occurrence(j)
        PROVE  i = j
    <2>1. ASSUME NEW a \in 1 .. n, NEW b \in 1 .. n,
                 Receivers[a] = Receivers[b], Occurrence(a) = Occurrence(b), a < b
          PROVE  FALSE
      <3>1. UpTo(a) \in SUBSET UpTo(b) /\ UpTo(b) \in SUBSET (1 .. n)
        BY <2>1
      <3>2. Cardinality(UpTo(a)) = Cardinality(UpTo(b))
        BY <2>1 DEF Occurrence
      <3>3. UpTo(a) = UpTo(b)
        BY <1>2, <3>1, <3>2, FS_Subset
      <3>4. b \in UpTo(b) /\ b \notin UpTo(a)
        BY <2>1
      <3> QED
        BY <3>3, <3>4
    <2>2. i < j \/ j < i \/ i = j
      OBVIOUS
    <2> QED
      BY <1>5, <2>1, <2>2
  <1>6. ASSUME NEW s \in Services, NEW k \in 1 .. Occurrences(s)
        PROVE  \E i \in DOMAIN Receivers : Receivers[i] = s /\ Occurrence(i) = k
    <2> DEFINE K == 1 .. Occurrences(s)
               f == [i \in At(s) |-> Occurrence(i)]
    <2>1. f \in Injection(At(s), K)
      <3>1. f \in [At(s) -> K]
        BY <1>1, <1>4
      <3>2. \A a, b \in DOMAIN f : f[a] = f[b] => a = b
        BY <1>1, <1>5
      <3> QED
        BY <3>1, <3>2 DEF Injection, IsInjective
    <2>2. IsFiniteSet(K) /\ Cardinality(K) = Occurrences(s)
      BY <1>3, FS_Interval
    <2>3. Cardinality(At(s)) = Cardinality(K)
      BY <2>2 DEF Occurrences
    <2>4. f \in Surjection(At(s), K)
      BY <2>1, <2>2, <2>3, FS_Injection
    <2>5. PICK i \in At(s) : f[i] = k
      BY <2>4 DEF Surjection
    <2> QED
      BY <2>5
  <1> QED
    BY <1>1, <1>3, <1>4, <1>5, <1>6

\* What a request computes from the clocks b it has read.
LEMMA Computed ==
    ASSUME NEW b \in [Services -> Nat]
    PROVE  /\ Moved(b, b) \in [Services -> Nat]
           /\ Timestamps(b) \in [DOMAIN Receivers -> Nat]
           /\ \A i \in DOMAIN Receivers :
                 /\ Receivers[i] \in Services
                 /\ Timestamps(b)[i] = b[Receivers[i]] + Occurrence(i)
                 /\ b[Receivers[i]] < Timestamps(b)[i]
                 /\ Timestamps(b)[i] <= Moved(b, b)[Receivers[i]]
           /\ \A s \in Services : Moved(b, b)[s] = b[s] + Occurrences(s)
           /\ \A c \in {b, Moved(b, b)} : Moved(c, b) = Moved(b, b)
  <1>1. \A i \in DOMAIN Receivers : Receivers[i] \in Services
    BY CoordinatorAssumption
  <1>2. \A i \in DOMAIN Receivers :
           /\ Occurrence(i) \in Nat /\ 1 <= Occurrence(i)
           /\ Occurrence(i) <= Occurrences(Receivers[i])
           /\ Occurrences(Receivers[i]) \in Nat
    BY <1>1, Numbering
  <1>3. \A s \in Services : Occurrences(s) \in Nat
    BY Numbering
  <1>4. \A s \in Services : Moved(b, b)[s] = b[s] + Occurrences(s)
    BY <1>3 DEF Moved
  <1>5. Moved(b, b) \in [Services -> Nat]
    BY <1>3 DEF Moved
  <1>6. \A i \in DOMAIN Receivers : Timestamps(b)[i] = b[Receivers[i]] + Occurrence(i)
    BY DEF Timestamps
  <1>7. Timestamps(b) \in [DOMAIN Receivers -> Nat]
    BY <1>1, <1>2 DEF Timestamps
  <1>8. ASSUME NEW i \in DOMAIN Receivers
        PROVE  /\ b[Receivers[i]] < Timestamps(b)[i]
               /\ Timestamps(b)[i] <= Moved(b, b)[Receivers[i]]
    <2>1. b[Receivers[i]] \in Nat
      BY <1>1
    <2> QED
      BY <1>1, <1>2, <1>4, <1>6, <2>1
  <1>9. ASSUME NEW c \in {b, Moved(b, b)} PROVE Moved(c, b) = Moved(b, b)
    <2>1. \A s \in Services : Occurrences(s) = 0 => c[s] = b[s]
      BY <1>4
    <2> QED
      BY <2>1 DEF Moved
  <1> QED
    BY <1>1, <1>4, <1>5, <1>6, <1>7, <1>8, <1>9

\* Before the commit of request r: what it has read, and what the rows of its
\* partition have.
LEMMA CommitReads ==
    ASSUME IInv, NEW r \in Reqs, CreateCommit(r)
    PROVE  /\ prt[r] \in Partitions /\ base[r] \in [Services -> Nat]
           /\ base[r] = clock[prt[r]]
           /\ dbClock[prt[r]] \in {base[r], Moved(base[r], base[r])}
           /\ dbClock' = [dbClock EXCEPT ![prt[r]] = Moved(base[r], base[r])]
           /\ \A x \in rows : x.req # r /\ pc'[x.req] = pc[x.req]
           /\ \A x \in rows : x.prt = prt[r] =>
                 \/ \A i \in DOMAIN Receivers : x.ts[i] <= base[r][Receivers[i]]
                 \/ x.ts = Timestamps(base[r]) /\ Rejected(x)
  <1>1. /\ prt[r] \in Partitions /\ base[r] \in [Services -> Nat]
        /\ dbClock \in [Partitions -> [Services -> Nat]]
        /\ pc[r] = "creating" /\ base[r] = clock[prt[r]]
    BY DEF CreateCommit, IInv, TypeOK, ReadIsCurrent, Inside
  <1>2. /\ recovery = "done"
        /\ \A q \in Reqs : pc[q] = "committed" => prt[q] # prt[r]
    <2>1. Inside(r)
      BY <1>1 DEF Inside
    <2>2. lock[prt[r]] = {r} /\ recovery = "done"
      BY <2>1 DEF IInv, InsideAlone
    <2>3. ASSUME NEW q \in Reqs, pc[q] = "committed", prt[q] = prt[r] PROVE FALSE
      <3>1. lock[prt[q]] = {q}
        BY <2>3 DEF IInv, InsideAlone, Inside
      <3> QED
        BY <1>1, <2>2, <2>3, <3>1
    <2> QED
      BY <2>2, <2>3
  <1>3. \A x \in rows : /\ x.req \in Reqs /\ x.req # r /\ x.prt = prt[x.req]
                        /\ pc'[x.req] = pc[x.req]
    BY <1>1 DEF CreateCommit, Goto, IInv, TypeOK, OwnRow
  <1>4. dbClock[prt[r]] \in {base[r], Moved(base[r], base[r])}
    BY <1>1, <1>2 DEF IInv, MemoryLags, Ahead
  <1>5. dbClock' = [dbClock EXCEPT ![prt[r]] = Moved(base[r], base[r])]
    BY <1>1, <1>4, Computed DEF CreateCommit
  <1>6. \A x \in rows : x.prt = prt[r] =>
                 \/ \A i \in DOMAIN Receivers : x.ts[i] <= base[r][Receivers[i]]
                 \/ x.ts = Timestamps(base[r]) /\ Rejected(x)
    BY <1>1, <1>2, <1>3 DEF IInv, RowsBelow, Rejected
  <1> QED
    BY <1>1, <1>3, <1>4, <1>5, <1>6

\* The new row of a request: its timestamps are the ones that follow what it has
\* read, each of them once.
LEMMA CommitKeeps ==
    ASSUME IInv, NEW r \in Reqs, CreateCommit(r)
    PROVE  TimestampsUnique' /\ OneOrder' /\ DbCoversRows' /\ NoTimestampSkipped'
  <1> DEFINE p == prt[r]
             b == base[r]
             row == [req |-> r, prt |-> p, ts |-> Timestamps(b)]
             Below(x) == \A i \in DOMAIN Receivers : x.ts[i] <= b[Receivers[i]]
             Twin(x) == x.ts = Timestamps(b) /\ Rejected(x)
  <1>1. /\ p \in Partitions /\ b \in [Services -> Nat]
        /\ dbClock \in [Partitions -> [Services -> Nat]]
        /\ dbClock[p] \in {b, Moved(b, b)}
        /\ \A x \in rows : /\ x.prt \in Partitions /\ x.ts \in [DOMAIN Receivers -> Nat]
                           /\ x.req # r /\ pc'[x.req] = pc[x.req]
    BY CommitReads DEF IInv, TypeOK
  <1>2. /\ rows' = rows \cup {row}
        /\ dbClock' = [dbClock EXCEPT ![p] = Moved(b, b)]
        /\ row.prt = p /\ row.ts = Timestamps(b) /\ row.req = r
    BY <1>1, CommitReads DEF CreateCommit
  <1>3. /\ \A i \in DOMAIN Receivers :
              /\ Receivers[i] \in Services
              /\ Timestamps(b)[i] \in Nat
              /\ b[Receivers[i]] \in Nat
              /\ Timestamps(b)[i] = b[Receivers[i]] + Occurrence(i)
              /\ b[Receivers[i]] < Timestamps(b)[i]
              /\ Timestamps(b)[i] <= Moved(b, b)[Receivers[i]]
              /\ Moved(b, b)[Receivers[i]] \in Nat
        /\ Moved(b, b) \in [Services -> Nat]
        /\ \A s \in Services : Moved(b, b)[s] = b[s] + Occurrences(s)
    BY <1>1, Computed
  <1>4. \A x \in rows : x.prt = p => Below(x) \/ Twin(x)
    BY CommitReads
  <1>5. \A x \in rows : (Rejected(x) => Rejected(x)') /\ x # row
    BY <1>1, <1>2 DEF Rejected
  <1> HIDE DEF p, b, row
  <1>6. DbCoversRows'
    <2>1. ASSUME NEW x \in rows, NEW i \in DOMAIN Receivers
          PROVE  x.ts[i] <= dbClock'[x.prt][Receivers[i]]
      <3>1. CASE x.prt = p
        <4>1. /\ x.ts[i] \in Nat /\ x.ts[i] <= dbClock[p][Receivers[i]]
              /\ dbClock'[x.prt] = Moved(b, b)
          BY <1>1, <1>2, <2>1, <3>1 DEF IInv, DbCoversRows
        <4>2. /\ dbClock[p][Receivers[i]] \in Nat /\ Moved(b, b)[Receivers[i]] \in Nat
              /\ dbClock[p][Receivers[i]] <= Moved(b, b)[Receivers[i]]
          BY <1>1, <1>3
        <4> QED
          BY <4>1, <4>2
      <3>2. CASE x.prt # p
        BY <1>1, <1>2, <2>1, <3>2 DEF IInv, DbCoversRows
      <3> QED
        BY <3>1, <3>2
    <2>2. \A i \in DOMAIN Receivers : row.ts[i] <= dbClock'[row.prt][Receivers[i]]
      BY <1>1, <1>2, <1>3
    <2> QED
      BY <1>2, <2>1, <2>2 DEF DbCoversRows
  \* A row below the clocks read lies wholly before the new one.
  <1>7. ASSUME NEW x \in rows, x.prt = p, Below(x),
               NEW i \in DOMAIN Receivers, NEW j \in DOMAIN Receivers,
               Receivers[i] = Receivers[j]
        PROVE  x.ts[i] < row.ts[j]
    <2>1. x.ts[i] \in Nat /\ x.ts[i] <= b[Receivers[j]]
      BY <1>1, <1>7
    <2>2. row.ts[j] \in Nat /\ b[Receivers[j]] \in Nat /\ b[Receivers[j]] < row.ts[j]
      BY <1>2, <1>3
    <2> QED
      BY <2>1, <2>2
  <1>8. \A i, j \in DOMAIN Receivers :
           Receivers[i] = Receivers[j] /\ row.ts[i] = row.ts[j] => i = j
    <2> SUFFICES ASSUME NEW i \in DOMAIN Receivers, NEW j \in DOMAIN Receivers,
                        Receivers[i] = Receivers[j], row.ts[i] = row.ts[j]
                 PROVE  i = j
      OBVIOUS
    <2>1. Occurrence(i) \in Nat /\ Occurrence(j) \in Nat
      BY <1>3, Numbering
    <2>2. Occurrence(i) = Occurrence(j)
      BY <1>2, <1>3, <2>1
    <2> QED
      BY <2>2, Numbering
  <1>9. TimestampsUnique'
    <2> DEFINE Clash(x, y, i, j) ==
                  x.prt = y.prt /\ Receivers[i] = Receivers[j] /\ x.ts[i] = y.ts[j]
    <2>1. ASSUME NEW x \in rows, NEW y \in rows, NEW i \in DOMAIN Receivers,
                 NEW j \in DOMAIN Receivers, Clash(x, y, i, j)
          PROVE  (x = y /\ i = j) \/ (x # y /\ (Rejected(x)' \/ Rejected(y)'))
      BY <1>5, <2>1 DEF IInv, TimestampsUnique
    <2>2. ASSUME NEW x \in rows, NEW i \in DOMAIN Receivers, NEW j \in DOMAIN Receivers,
                 Clash(x, row, i, j) \/ Clash(row, x, i, j)
          PROVE  Rejected(x)'
      <3>1. x.prt = p /\ Receivers[i] = Receivers[j]
        BY <1>2, <2>2
      <3>2. CASE Below(x)
        <4>1. x.ts[i] < row.ts[j] /\ x.ts[j] < row.ts[i]
          BY <1>7, <3>1, <3>2
        <4>2. /\ x.ts[i] \in Nat /\ x.ts[j] \in Nat
              /\ row.ts[i] \in Nat /\ row.ts[j] \in Nat
          BY <1>1, <1>2, <1>3
        <4> QED
          BY <2>2, <4>1, <4>2
      <3>3. CASE Twin(x)
        BY <1>5, <3>3
      <3> QED
        BY <1>4, <3>1, <3>2, <3>3
    <2> QED
      BY <1>2, <1>5, <1>8, <2>1, <2>2 DEF TimestampsUnique
  <1>10. OneOrder'
    <2>1. ASSUME NEW x \in rows, x.prt = p PROVE x.ts = row.ts \/ Before(x, row)
      BY <1>2, <1>4, <1>7, <2>1 DEF Before
    <2> QED
      BY <1>2, <2>1 DEF IInv, OneOrder, Before
  <1>11. NoTimestampSkipped'
    <2> SUFFICES ASSUME NEW q \in Partitions, NEW s \in Services,
                        NEW t \in 1 .. dbClock'[q][s]
                 PROVE  \E x \in rows' : \E i \in DOMAIN Receivers :
                           x.prt = q /\ Receivers[i] = s /\ x.ts[i] = t
      BY DEF NoTimestampSkipped
    <2>1. CASE q # p
      BY <1>1, <1>2, <2>1 DEF IInv, NoTimestampSkipped
    <2>2. CASE q = p /\ t <= dbClock[p][s]
      BY <1>1, <1>2, <2>2 DEF IInv, NoTimestampSkipped
    <2>3. CASE q = p /\ dbClock[p][s] < t
      <3>1. /\ b[s] \in Nat /\ Occurrences(s) \in Nat
            /\ t - b[s] \in 1 .. Occurrences(s)
        <4>1. b[s] \in Nat /\ Occurrences(s) \in Nat
          BY <1>1, Numbering
        <4>2. t \in Nat /\ t <= b[s] + Occurrences(s)
          BY <1>1, <1>2, <1>3, <2>3, <4>1
        <4>3. b[s] <= dbClock[p][s] /\ dbClock[p][s] \in Nat
          BY <1>1, <1>3, <4>1
        <4> QED
          BY <2>3, <4>1, <4>2, <4>3
      <3>2. PICK i \in DOMAIN Receivers : Receivers[i] = s /\ Occurrence(i) = t - b[s]
        BY <3>1, Numbering
      <3>3. Timestamps(b)[i] = t
        BY <1>3, <3>1, <3>2
      <3> QED
        BY <1>2, <2>3, <3>2, <3>3
    <2>4. (q = p /\ t <= dbClock[p][s]) \/ (q = p /\ dbClock[p][s] < t) \/ q # p
      BY <1>1
    <2> QED
      BY <2>1, <2>2, <2>3, <2>4
  <1> QED
    BY <1>6, <1>9, <1>10, <1>11

\* Steps that touch neither the rows nor the clocks in the database.
LEMMA RowsKept ==
    ASSUME IInv, UNCHANGED <<rows, dbClock>>, \A x \in rows : Rejected(x) => Rejected(x)'
    PROVE  TimestampsUnique' /\ OneOrder' /\ DbCoversRows' /\ NoTimestampSkipped'
  <1>1. TimestampsUnique'
    BY DEF IInv, TimestampsUnique
  <1>2. OneOrder' /\ DbCoversRows' /\ NoTimestampSkipped'
    BY DEF IInv, OneOrder, Before, DbCoversRows, NoTimestampSkipped
  <1> QED
    BY <1>1, <1>2

\* A request enters createTxExecutor: it is alone, and recovery is done.
LEMMA BeginKeeps ==
    ASSUME IInv, ~ServeFirst, NEW r \in Reqs, Begin(r)
    PROVE  IInv'
  <1> USE DEF Begin, Goto, recoveryVars
  <1>1. TypeOK'
    BY DEF IInv, TypeOK, PCs
  <1>2. recovery = "done" /\ \A q \in Reqs : Inside(q) => prt[q] # prt[r]
    BY DEF IInv, InsideAlone
  <1>3. \A x \in rows : x.req \in Reqs /\ x.req # r /\ pc'[x.req] = pc[x.req]
    BY DEF IInv, TypeOK, OwnRow
  <1>4. OwnRow'
    BY <1>3 DEF IInv, OwnRow
  <1>5. InsideAlone'
    BY <1>2 DEF IInv, TypeOK, InsideAlone, Inside
  <1>6. ReadIsCurrent'
    BY DEF IInv, TypeOK, ReadIsCurrent, Inside, Ahead
  <1>7. MemoryLags' /\ RowsBelow'
    BY <1>3 DEF IInv, MemoryLags, RowsBelow, Ahead
  <1>8. RecoverySets'
    BY DEF IInv, RecoverySets
  <1> QED
    BY <1>1, <1>3, <1>4, <1>5, <1>6, <1>7, <1>8, RowsKept DEF IInv, Rejected

\* The transaction fails, or its commit is not confirmed: only the lock changes.
LEMMA FailKeeps ==
    ASSUME IInv, NEW r \in Reqs, CreateFails(r) \/ Unconfirmed(r)
    PROVE  IInv'
  <1> USE DEF CreateFails, Unconfirmed, Goto, Unlock, recoveryVars
  <1>1. TypeOK'
    BY DEF IInv, TypeOK, PCs
  <1>2. \A q \in Reqs : Inside(q) /\ q # r => prt[q] # prt[r]
    BY DEF IInv, InsideAlone, Inside
  <1>3. \A x \in rows : /\ x.req \in Reqs
                        /\ pc'[x.req] = pc[x.req] \/
                           (pc[x.req] = "committed" /\ pc'[x.req] = "rejected")
    BY DEF IInv, TypeOK, OwnRow
  <1>4. OwnRow'
    BY <1>3 DEF IInv, OwnRow
  <1>5. InsideAlone'
    BY <1>2 DEF IInv, TypeOK, InsideAlone, Inside
  <1>6. ReadIsCurrent'
    BY DEF IInv, TypeOK, ReadIsCurrent, Inside, Ahead
  <1>7. MemoryLags' /\ RowsBelow' /\ RecoverySets'
    BY <1>3 DEF IInv, MemoryLags, RowsBelow, Ahead, RecoverySets
  <1> QED
    BY <1>1, <1>3, <1>4, <1>5, <1>6, <1>7, RowsKept DEF IInv, Rejected

\* The transaction commits.
LEMMA CreateKeeps ==
    ASSUME IInv, NEW r \in Reqs, CreateCommit(r)
    PROVE  IInv'
  <1> DEFINE row == [req |-> r, prt |-> prt[r], ts |-> Timestamps(base[r])]
  <1> USE DEF CreateCommit, Goto, recoveryVars
  <1>1. /\ prt[r] \in Partitions /\ base[r] \in [Services -> Nat]
        /\ base[r] = clock[prt[r]]
        /\ Moved(base[r], base[r]) \in [Services -> Nat]
        /\ Timestamps(base[r]) \in [DOMAIN Receivers -> Nat]
        /\ dbClock' = [dbClock EXCEPT ![prt[r]] = Moved(base[r], base[r])]
        /\ \A x \in rows : x.req # r /\ pc'[x.req] = pc[x.req]
    BY CommitReads, Computed
  <1>2. TypeOK'
    BY <1>1 DEF IInv, TypeOK, PCs
  <1>3. /\ lock[prt[r]] = {r} /\ recovery = "done"
        /\ \A q \in Reqs : Inside(q) /\ q # r => prt[q] # prt[r]
    BY DEF IInv, InsideAlone, Inside
  <1>4. rows' = rows \cup {row} /\ pc'[r] = "committed"
    BY DEF IInv, TypeOK
  <1>5. OwnRow'
    <2>1. \A x \in rows' : x.prt = prt'[x.req] /\ pc'[x.req] \notin {"new", "creating"}
      BY <1>1, <1>4 DEF IInv, OwnRow
    <2>2. \A x, y \in rows' : x.req = y.req => x = y
      BY <1>1, <1>4 DEF IInv, OwnRow
    <2> QED
      BY <2>1, <2>2 DEF OwnRow
  <1>6. InsideAlone'
    BY <1>3 DEF IInv, TypeOK, InsideAlone, Inside
  <1>7. ReadIsCurrent'
    BY <1>1, <1>3 DEF IInv, TypeOK, ReadIsCurrent, Inside, Ahead
  <1>8. MemoryLags'
    <2> SUFFICES ASSUME NEW p \in Partitions, clock[p] # dbClock'[p]
                 PROVE  /\ dbClock'[p] = Moved(clock[p], clock[p])
                        /\ \E x \in rows' :
                              /\ x.prt = p /\ x.ts = Timestamps(clock[p])
                              /\ pc'[x.req] \in {"committed", "rejected"}
      BY <1>1 DEF MemoryLags, Ahead
    <2>1. CASE p = prt[r]
      <3>1. dbClock'[p] = Moved(clock[p], clock[p])
        BY <1>1, <2>1 DEF IInv, TypeOK
      <3>2. row \in rows' /\ row.prt = p /\ row.ts = Timestamps(clock[p]) /\ row.req = r
        BY <1>1, <1>4, <2>1
      <3> HIDE DEF row
      <3> QED
        BY <1>4, <3>1, <3>2
    <2>2. CASE p # prt[r]
      BY <1>1, <1>3, <1>4, <2>2 DEF IInv, TypeOK, MemoryLags, Ahead
    <2> QED
      BY <2>1, <2>2
  <1>9. RowsBelow'
    BY <1>1, <1>3, <1>4 DEF IInv, RowsBelow
  <1>10. RecoverySets'
    BY <1>3 DEF IInv, RecoverySets
  <1> QED
    BY <1>2, <1>5, <1>6, <1>7, <1>8, <1>9, <1>10, CommitKeeps DEF IInv

\* The clocks in memory catch up.
LEMMA SetKeeps ==
    ASSUME IInv, NEW r \in Reqs, SetClocks(r)
    PROVE  IInv'
  <1> USE DEF SetClocks, Goto, Unlock, recoveryVars
  <1>1. /\ prt[r] \in Partitions /\ base[r] \in [Services -> Nat]
        /\ Moved(base[r], base[r]) \in [Services -> Nat]
        /\ base[r] = clock[prt[r]]
        /\ Moved(base[r], base[r]) = dbClock[prt[r]]
        /\ clock' = [clock EXCEPT ![prt[r]] = Moved(base[r], base[r])]
    BY Computed DEF IInv, TypeOK, ReadIsCurrent, Inside, Ahead
  <1>2. TypeOK'
    BY <1>1 DEF IInv, TypeOK, PCs
  <1>3. /\ recovery = "done"
        /\ \A q \in Reqs : Inside(q) /\ q # r => prt[q] # prt[r]
    BY DEF IInv, InsideAlone, Inside
  <1>4. \A x \in rows : /\ x.req \in Reqs /\ x.prt = prt[x.req]
                        /\ x.ts \in [DOMAIN Receivers -> Nat]
                        /\ pc'[x.req] = pc[x.req] \/ (x.req = r /\ pc'[r] = "running")
                        /\ pc[x.req] = "rejected" => pc'[x.req] = "rejected"
    BY DEF IInv, TypeOK, OwnRow
  <1>5. OwnRow'
    BY <1>4 DEF IInv, OwnRow
  <1>6. InsideAlone'
    BY <1>3 DEF IInv, TypeOK, InsideAlone, Inside
  <1>7. ReadIsCurrent'
    BY <1>1, <1>3 DEF IInv, TypeOK, ReadIsCurrent, Inside, Ahead
  <1>8. MemoryLags'
    <2> SUFFICES ASSUME NEW p \in Partitions, p # prt[r], clock[p] # dbClock[p]
                 PROVE  /\ dbClock[p] = Moved(clock[p], clock[p])
                        /\ \E x \in rows :
                              /\ x.prt = p /\ x.ts = Timestamps(clock[p])
                              /\ pc'[x.req] \in {"committed", "rejected"}
      BY <1>1 DEF IInv, TypeOK, MemoryLags, Ahead
    <2> QED
      BY <1>3, <1>4 DEF IInv, MemoryLags, Ahead
  <1>9. RowsBelow'
    <2> SUFFICES ASSUME NEW x \in rows
                 PROVE  \/ \A i \in DOMAIN Receivers :
                              x.ts[i] <= clock'[x.prt][Receivers[i]]
                        \/ /\ x.ts = Timestamps(clock'[x.prt])
                           /\ pc'[x.req] \in {"committed", "rejected"}
      BY DEF RowsBelow
    <2>1. CASE x.prt = prt[r]
      <3>1. ASSUME NEW i \in DOMAIN Receivers
            PROVE  x.ts[i] <= Moved(base[r], base[r])[Receivers[i]]
        <4>1. /\ Receivers[i] \in Services /\ base[r][Receivers[i]] \in Nat
              /\ base[r][Receivers[i]] < Timestamps(base[r])[i]
              /\ Timestamps(base[r])[i] \in Nat
              /\ Timestamps(base[r])[i] <= Moved(base[r], base[r])[Receivers[i]]
              /\ Moved(base[r], base[r])[Receivers[i]] \in Nat
          BY <1>1, Computed
        <4>2. x.ts[i] \in Nat
          BY <1>4
        <4>3. x.ts[i] <= base[r][Receivers[i]] \/ x.ts[i] = Timestamps(base[r])[i]
          BY <1>1, <1>3, <2>1 DEF IInv, RowsBelow
        <4> QED
          BY <4>1, <4>2, <4>3
      <3> QED
        BY <1>1, <2>1, <3>1 DEF IInv, TypeOK
    <2>2. CASE x.prt # prt[r]
      <3>1. clock'[x.prt] = clock[x.prt] /\ pc'[x.req] = pc[x.req]
        BY <1>1, <1>4, <2>2 DEF IInv, TypeOK
      <3> QED
        BY <1>3, <3>1 DEF IInv, RowsBelow
    <2> QED
      BY <2>1, <2>2
  <1>10. RecoverySets'
    BY <1>3 DEF IInv, RecoverySets
  <1> QED
    BY <1>2, <1>4, <1>5, <1>6, <1>7, <1>8, <1>9, <1>10, RowsKept DEF IInv, Rejected

\* A crash empties the critical sections and sends recovery back to its start.
LEMMA CrashKeeps ==
    ASSUME IInv, Crash
    PROVE  IInv'
  <1> USE CoordinatorAssumption DEF Crash
  <1>1. TypeOK'
    BY DEF IInv, TypeOK, PCs, ZeroClocks
  <1>2. \A r \in Reqs : /\ pc'[r] \notin {"creating", "committed"}
                        /\ pc'[r] = "new" => pc[r] = "new"
                        /\ pc[r] = "rejected" => pc'[r] = "rejected"
    OBVIOUS
  <1>3. \A x \in rows : x.req \in Reqs
    BY DEF IInv, TypeOK
  <1>4. OwnRow' /\ InsideAlone' /\ ReadIsCurrent'
    BY <1>2, <1>3 DEF IInv, OwnRow, InsideAlone, Inside, ReadIsCurrent
  <1>5. MemoryLags' /\ RowsBelow' /\ RecoverySets'
    BY DEF MemoryLags, RowsBelow, RecoverySets
  <1> QED
    BY <1>1, <1>2, <1>3, <1>4, <1>5, RowsKept DEF IInv, Rejected

\* Recovery reads, sets and ends while nobody is in createTxExecutor.
LEMMA RecoveryKeeps ==
    ASSUME IInv, RecoverRead \/ RecoverSet \/ RecoverEnd
    PROVE  IInv'
  <1>1. UNCHANGED <<dbClock, rows, lock, pc, prt, base, crashes>>
    BY DEF RecoverRead, RecoverSet, RecoverEnd
  <1>2. recovery # "done"
    BY DEF RecoverRead, RecoverSet, RecoverEnd, IInv, RecoverySets
  <1>3. OwnRow' /\ InsideAlone' /\ ReadIsCurrent'
    BY <1>1, <1>2 DEF IInv, OwnRow, InsideAlone, Inside, ReadIsCurrent
  <1>4. /\ dbClock \in [Partitions -> [Services -> Nat]]
        /\ \A p \in Partitions, s \in Services : dbClock[p][s] \in DbValues
    BY DEF IInv, TypeOK, DbValues
  <1>5. CASE RecoverRead
    <2>1. /\ recovery' = "setting" /\ clock' = clock /\ clock = ZeroClocks
          /\ toSet' = {x \in Partitions \X Services \X DbValues :
                          x[3] = dbClock[x[1]][x[2]] /\ x[3] > 0}
      BY <1>5 DEF RecoverRead, IInv, RecoverySets
    <2>2. \A x \in toSet' : /\ x \in Partitions \X Services \X Nat
                            /\ x[3] = dbClock[x[1]][x[2]]
      BY <1>4, <2>1 DEF DbValues
    <2>3. \A p \in Partitions, s \in Services :
             clock[p][s] = dbClock[p][s] \/ <<p, s, dbClock[p][s]>> \in toSet'
      <3> SUFFICES ASSUME NEW p \in Partitions, NEW s \in Services, dbClock[p][s] # 0
                   PROVE  <<p, s, dbClock[p][s]>> \in toSet'
        BY <2>1 DEF ZeroClocks
      <3>1. dbClock[p][s] \in Nat /\ dbClock[p][s] > 0
        BY <1>4
      <3> QED
        BY <1>4, <2>1, <3>1
    <2>4. TypeOK'
      BY <1>1, <2>1, <2>2 DEF IInv, TypeOK
    <2>5. MemoryLags' /\ RowsBelow' /\ RecoverySets'
      BY <1>1, <2>1, <2>2, <2>3 DEF MemoryLags, RowsBelow, RecoverySets
    <2> QED
      BY <1>1, <1>3, <2>4, <2>5, RowsKept DEF IInv, Rejected
  <1>6. CASE RecoverSet
    <2>1. PICK x \in toSet : /\ clock' = [clock EXCEPT ![x[1]][x[2]] = x[3]]
                             /\ toSet' = toSet \ {x}
                             /\ recovery = "setting" /\ recovery' = "setting"
      BY <1>6 DEF RecoverSet
    <2>2. PICK p \in Partitions, s \in Services : x = <<p, s, dbClock[p][s]>>
      BY <2>1 DEF IInv, TypeOK, RecoverySets
    <2>3. clock' = [clock EXCEPT ![p][s] = dbClock[p][s]]
      BY <2>1, <2>2
    <2>4. TypeOK'
      <3>1. dbClock[p][s] \in Nat /\ clock \in [Partitions -> [Services -> Nat]]
        BY <1>4 DEF IInv, TypeOK
      <3>2. [clock[p] EXCEPT ![s] = dbClock[p][s]] \in [Services -> Nat]
        BY <3>1
      <3>3. clock' \in [Partitions -> [Services -> Nat]]
        BY <2>3, <3>1, <3>2
      <3> QED
        BY <1>1, <2>1, <3>3 DEF IInv, TypeOK
    <2>5. MemoryLags' /\ RowsBelow'
      BY <2>1 DEF MemoryLags, RowsBelow
    <2>6. RecoverySets'
      <3>1. ASSUME NEW q \in Partitions, NEW t \in Services
            PROVE  clock'[q][t] = dbClock[q][t] \/ <<q, t, dbClock[q][t]>> \in toSet'
        <4>1. CASE q = p /\ t = s
          BY <2>3, <4>1 DEF IInv, TypeOK
        <4>2. CASE ~(q = p /\ t = s)
          <5>1. clock'[q][t] = clock[q][t]
            BY <2>3, <4>2 DEF IInv, TypeOK
          <5>2. <<q, t, dbClock[q][t]>> # x
            BY <2>2, <4>2
          <5> QED
            BY <2>1, <5>1, <5>2 DEF IInv, RecoverySets
        <4> QED
          BY <4>1, <4>2
      <3>2. \A y \in toSet' : y[3] = dbClock[y[1]][y[2]]
        BY <2>1 DEF IInv, RecoverySets
      <3> QED
        BY <1>1, <2>1, <3>1, <3>2 DEF RecoverySets
    <2> QED
      BY <1>1, <1>3, <2>4, <2>5, <2>6, RowsKept DEF IInv, Rejected
  <1>7. CASE RecoverEnd
    <2>1. /\ toSet = {} /\ toSet' = {} /\ recovery = "setting"
          /\ recovery' = "done" /\ clock' = clock
      BY <1>7 DEF RecoverEnd
    <2>2. TypeOK'
      BY <1>1, <2>1 DEF IInv, TypeOK
    <2>3. \A p \in Partitions : clock[p] = dbClock[p]
      <3> SUFFICES ASSUME NEW p \in Partitions PROVE clock[p] = dbClock[p]
        OBVIOUS
      <3>1. clock[p] \in [Services -> Nat] /\ dbClock[p] \in [Services -> Nat]
        BY DEF IInv, TypeOK
      <3>2. \A s \in Services : clock[p][s] = dbClock[p][s]
        BY <2>1 DEF IInv, RecoverySets
      <3> QED
        BY <3>1, <3>2
    <2>4. MemoryLags' /\ RecoverySets'
      BY <1>1, <2>1, <2>3 DEF MemoryLags, RecoverySets
    <2>5. RowsBelow'
      <3>1. \A x \in rows : x.prt \in Partitions
        BY DEF IInv, TypeOK
      <3> QED
        BY <1>1, <2>1, <2>3, <3>1 DEF IInv, DbCoversRows, RowsBelow
    <2> QED
      BY <1>1, <1>3, <2>2, <2>4, <2>5, RowsKept DEF IInv, Rejected
  <1> QED
    BY <1>5, <1>6, <1>7

\* Before the first request nothing is handed out and nothing is to restore.
LEMMA InitIInv ==
    ASSUME Init
    PROVE  IInv
  <1> USE CoordinatorAssumption DEF Init
  <1>1. TypeOK
    BY DEF TypeOK, PCs, ZeroClocks
  <1>2. InsideAlone /\ ReadIsCurrent /\ MemoryLags /\ RowsBelow /\ RecoverySets
    BY DEF InsideAlone, Inside, ReadIsCurrent, MemoryLags, RowsBelow, RecoverySets
  <1>3. OwnRow /\ DbCoversRows /\ TimestampsUnique /\ OneOrder
    BY DEF OwnRow, DbCoversRows, TimestampsUnique, OneOrder
  <1>4. NoTimestampSkipped
    BY DEF NoTimestampSkipped, ZeroClocks
  <1> QED
    BY <1>1, <1>2, <1>3, <1>4 DEF IInv

\* The inductive invariant, through failures, crashes and restarts.
THEOREM Invariance ==
    ASSUME ~ServeFirst
    PROVE  Spec => []IInv
  <1>1. IInv /\ [Next]_vars => IInv'
    <2> SUFFICES ASSUME IInv, [Next]_vars PROVE IInv'
      OBVIOUS
    <2>1. ASSUME NEW r \in Reqs, Step(r) PROVE IInv'
      BY <2>1, BeginKeeps, FailKeeps, CreateKeeps, SetKeeps DEF Step
    <2>2. CASE Crash
      BY <2>2, CrashKeeps
    <2>3. CASE RecoverRead \/ RecoverSet \/ RecoverEnd
      BY <2>3, RecoveryKeeps
    <2>4. CASE UNCHANGED vars
      BY <2>4 DEF vars, recoveryVars, IInv, TypeOK, InsideAlone, Inside, ReadIsCurrent,
                  MemoryLags, RecoverySets, DbCoversRows, TimestampsUnique, Rejected,
                  OneOrder, Before, OwnRow, RowsBelow, Ahead, NoTimestampSkipped
    <2> QED
      BY <2>1, <2>2, <2>3, <2>4 DEF Next
  <1> QED
    BY <1>1, InitIInv, PTL DEF Spec

\* Clocks, rows and control states keep their types.
THEOREM TypeCorrect ==
    ASSUME ~ServeFirst
    PROVE  Spec => []TypeOK
  <1>1. IInv => TypeOK
    BY DEF IInv
  <1> QED
    BY <1>1, Invariance, PTL

\* No timestamp of a receiver is handed out twice: what the origin manager's
\* theorems assume of its callers.
THEOREM Unique ==
    ASSUME ~ServeFirst
    PROVE  Spec => []TimestampsUnique
  <1>1. IInv => TimestampsUnique
    BY DEF IInv
  <1> QED
    BY <1>1, Invariance, PTL

\* The receivers agree on one order of a partition's transactions.
THEOREM Ordered ==
    ASSUME ~ServeFirst
    PROVE  Spec => []OneOrder
  <1>1. IInv => OneOrder
    BY DEF IInv
  <1> QED
    BY <1>1, Invariance, PTL

\* What a restart will find covers every executor.
THEOREM RestartCovers ==
    ASSUME ~ServeFirst
    PROVE  Spec => []DbCoversRows
  <1>1. IInv => DbCoversRows
    BY DEF IInv
  <1> QED
    BY <1>1, Invariance, PTL

\* No timestamp is left out: a receiver never waits for one that no executor has.
THEOREM Gapless ==
    ASSUME ~ServeFirst
    PROVE  Spec => []NoTimestampSkipped
  <1>1. IInv => NoTimestampSkipped
    BY DEF IInv
  <1> QED
    BY <1>1, Invariance, PTL

\* Whenever the next request may read a partition's clocks, memory and database
\* agree, or differ by a request answered with an error.
THEOREM MemoryCurrent ==
    ASSUME ~ServeFirst
    PROVE  Spec => []MemoryMatchesDb
  <1>1. IInv => MemoryMatchesDb
    <2> SUFFICES ASSUME IInv, NEW p \in Partitions, recovery = "done", lock[p] = {},
                        clock[p] # dbClock[p]
                 PROVE  /\ Ahead(p, clock[p])
                        /\ \E x \in rows : /\ x.prt = p /\ x.ts = Timestamps(clock[p])
                                           /\ Rejected(x)
      BY DEF MemoryMatchesDb
    <2>1. PICK x \in rows : /\ Ahead(p, clock[p]) /\ x.prt = p
                           /\ x.ts = Timestamps(clock[p])
                           /\ pc[x.req] \in {"committed", "rejected"}
      BY DEF IInv, MemoryLags
    <2>2. x.req \in Reqs /\ x.prt = prt[x.req]
      BY DEF IInv, TypeOK, OwnRow
    <2>3. pc[x.req] # "committed"
      BY <2>1, <2>2 DEF IInv, InsideAlone, Inside
    <2> QED
      BY <2>1, <2>3 DEF Rejected
  <1> QED
    BY <1>1, Invariance, PTL

=============================================================================
