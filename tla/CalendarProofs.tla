--------------------------- MODULE CalendarProofs ---------------------------
(***************************************************************************)
(* Theorems about the calendar's stores, for every set of requests and     *)
(* every initial database.                                                 *)
(*                                                                         *)
(* The argument: a transaction that nobody has written behind its back     *)
(* since its SELECT still holds the current value (ReadsAreCurrent), so    *)
(* what it writes is what a single atomic update would have written.       *)
(***************************************************************************)
EXTENDS Calendar, TLAPS

\* Every request makes at least one call, and finitely many.
LEMMA Lengths ==
    \A s \in Sagas : /\ Len(Calls(s)) \in Nat /\ 1 <= Len(Calls(s))
                     /\ DOMAIN Calls(s) = 1 .. Len(Calls(s))
  <1> SUFFICES ASSUME NEW s \in Sagas
               PROVE  /\ Len(Calls(s)) \in Nat /\ 1 <= Len(Calls(s))
                      /\ DOMAIN Calls(s) = 1 .. Len(Calls(s))
    OBVIOUS
  <1> USE DEF Calls, Handlers
  <1>1. CASE Op(s) = "create"
    BY <1>1 DEF HandleTxCreateEvent
  <1>2. CASE Op(s) \in {"update", "join", "leave"}
    BY <1>2 DEF HandleTxUpdateEvent, HandleTxJoinEvent, HandleTxLeaveEvent
  <1>3. CASE Op(s) = "delete"
    BY <1>3 DEF HandleTxDeleteEvent
  <1>4. CASE Op(s) \notin DOMAIN Handlers
    BY <1>4
  <1> QED
    BY <1>1, <1>2, <1>3, <1>4

\* The control state of sagas: what a step does to the saga that takes it and
\* that it leaves the others alone.
LEMMA Control ==
  ASSUME NEW s \in Sagas, TypeOK, Applied(s)
  PROVE  /\ at' \in [Sagas -> Nat \ {0}]
         /\ \A t \in Sagas : at'[t] <= Len(Calls(t))
         /\ phase' \in [Sagas -> {"sent", "selected", "over"}]
         /\ answer' \in [Sagas -> {"pending", "ok", "error"}]
         /\ phase'[s] # "selected"
         /\ \A t \in Sagas \ {s} : at'[t] = at[t] /\ phase'[t] = phase[t]
  <1>1. CASE NextCall(s)
    BY <1>1, Lengths DEF NextCall, TypeOK
  <1>2. CASE LastCall(s)
    BY <1>2 DEF LastCall, TypeOK
  <1> QED
    BY <1>1, <1>2 DEF Applied

\* The column a saga is at is named by its place and its event.
LEMMA SameCell ==
  ASSUME requests' = requests,
         NEW t \in Sagas, at'[t] = at[t], made'[t] = made[t]
  PROVE  Cell(t)' = Cell(t)
  BY DEF Cell, CellOf, Call, Calls, Op, User, Event

\* A request keeps its calls.
LEMMA SameCalls ==
  ASSUME requests' = requests
  PROVE  \A t \in Sagas : Calls(t)' = Calls(t)
  BY DEF Calls, Op

\* A row once known stays known.
LEMMA KnownGrows ==
  ASSUME TypeOK, next' \in [user : Nat \ {0}, event : Nat \ {0}],
         next.user <= next'.user, next.event <= next'.event,
         NEW c, Known(c)
  PROVE  Known(c)'
  BY DEF Known, Table, TypeOK

LEMMA Initial == Init => IInv
  <1> SUFFICES ASSUME Init PROVE IInv
    OBVIOUS
  <1>1. TypeOK
    BY CalendarAssumption, Lengths DEF Init, TypeOK, Known
  <1>2. ReadsAreCurrent
    BY DEF Init, ReadsAreCurrent
  <1>3. LostOnlyIfOverlapping
    BY DEF Init, LostOnlyIfOverlapping
  <1> QED
    BY <1>1, <1>2, <1>3 DEF IInv

\* An INSERT: the new columns are new, so nobody has read them, and both
\* databases get the same values.
LEMMA Inserting ==
  ASSUME IInv, requests' = requests, NEW s \in Sagas, NEW table \in {"user", "event"}, NEW row,
         InsertRow(s, table, row),
         \A c \in DOMAIN row : c[2] = next[table] /\ Table(c[1]) = table
  PROVE  /\ IInv'
         /\ \A c \in DOMAIN db' : Known(c) => c \in DOMAIN db
  <1> USE DEF IInv
  <1>1. /\ next' \in [user : Nat \ {0}, event : Nat \ {0}]
        /\ next.user <= next'.user /\ next.event <= next'.event
        /\ next'[table] = next[table] + 1
        /\ next[table] \in Nat \ {0}
    <2>1. PICK u \in Nat \ {0}, e \in Nat \ {0} : next = [user |-> u, event |-> e]
      BY DEF TypeOK
    <2>2. next' = [next EXCEPT ![table] = next[table] + 1]
      BY DEF InsertRow
    <2>3. CASE table = "user"
      <3>1. next' = [user |-> u + 1, event |-> e]
        BY <2>1, <2>2, <2>3
      <3> QED
        BY <2>1, <2>3, <3>1
    <2>4. CASE table = "event"
      <3>1. next' = [user |-> u, event |-> e + 1]
        BY <2>1, <2>2, <2>4
      <3> QED
        BY <2>1, <2>4, <3>1
    <2> QED
      BY <2>3, <2>4
  <1>2. \A c \in DOMAIN row : Known(c)' /\ ~Known(c)
    BY <1>1 DEF Known
  <1>3. /\ DOMAIN db' = DOMAIN db \cup DOMAIN row
        /\ DOMAIN ideal' = DOMAIN db \cup DOMAIN row
        /\ \A c \in DOMAIN db : db'[c] = db[c] /\ ideal'[c] = ideal[c]
        /\ \A c \in DOMAIN row \ DOMAIN db : db'[c] = row[c] /\ ideal'[c] = row[c]
    BY DEF InsertRow, Insert, TypeOK
  <1>4. \A c \in DOMAIN db' : Known(c) => c \in DOMAIN db
    BY <1>2, <1>3
  <1>5. TypeOK'
    <2>1. \A c \in DOMAIN db' : Known(c)'
      BY <1>1, <1>2, <1>3, KnownGrows DEF TypeOK
    <2>2. made' \in [Sagas -> Nat]
      BY <1>1 DEF InsertRow, TypeOK
    <2>3. Applied(s) /\ got' = got
      BY DEF InsertRow
    <2> QED
      BY <1>1, <1>3, <2>1, <2>2, <2>3, Control, SameCalls DEF TypeOK
  <1>6. ReadsAreCurrent'
    <2> SUFFICES ASSUME NEW t \in Sagas, phase'[t] = "selected"
                 PROVE  /\ Known(Cell(t))'
                        /\ t \notin stale' /\ Cell(t)' \in DOMAIN db' =>
                              got'[t] = db'[Cell(t)']
      BY DEF ReadsAreCurrent
    <2>1. t # s /\ at'[t] = at[t] /\ phase[t] = "selected"
      BY Control DEF InsertRow
    <2>2. Cell(t)' = Cell(t) /\ got'[t] = got[t] /\ stale' = stale
      BY <2>1, SameCell DEF InsertRow, race, TypeOK
    <2>3. Known(Cell(t))
      BY <2>1 DEF ReadsAreCurrent
    <2>4. Known(Cell(t))'
      BY <1>1, <2>2, <2>3, KnownGrows DEF Known
    <2>5. Cell(t) \in DOMAIN db' => Cell(t) \in DOMAIN db
      BY <1>4, <2>3
    <2> QED
      BY <1>3, <2>1, <2>2, <2>4, <2>5 DEF ReadsAreCurrent
  <1>7. LostOnlyIfOverlapping'
    BY <1>3 DEF LostOnlyIfOverlapping, InsertRow, race
  <1> QED
    BY <1>4, <1>5, <1>6, <1>7

\* A DELETE: both databases lose the same columns, and nothing else changes.
LEMMA Deleting ==
  ASSUME IInv, requests' = requests, NEW s \in Sagas, NEW columns, DeleteRow(s, columns)
  PROVE  IInv' /\ DOMAIN db' \subseteq DOMAIN db
  <1> USE DEF IInv
  <1>1. /\ DOMAIN db' = DOMAIN db \ columns
        /\ DOMAIN ideal' = DOMAIN db \ columns
        /\ \A c \in DOMAIN db' : db'[c] = db[c] /\ ideal'[c] = ideal[c]
    BY DEF DeleteRow, Delete, TypeOK
  <1>2. Applied(s) /\ next' = next /\ made' = made /\ got' = got
        /\ stale' = stale /\ raced' = raced
    BY DEF DeleteRow, race
  <1>3. TypeOK'
    BY <1>1, <1>2, Control, SameCalls DEF TypeOK, Known
  <1>4. ReadsAreCurrent'
    <2> SUFFICES ASSUME NEW t \in Sagas, phase'[t] = "selected"
                 PROVE  /\ Known(Cell(t))'
                        /\ t \notin stale' /\ Cell(t)' \in DOMAIN db' =>
                              got'[t] = db'[Cell(t)']
      BY DEF ReadsAreCurrent
    <2>1. at'[t] = at[t] /\ phase[t] = "selected"
      BY <1>2, Control
    <2>2. Cell(t)' = Cell(t)
      BY <1>2, <2>1, SameCell
    <2> QED
      BY <1>1, <1>2, <2>1, <2>2 DEF ReadsAreCurrent, Known
  <1>5. LostOnlyIfOverlapping'
    BY <1>1, <1>2 DEF LostOnlyIfOverlapping
  <1> QED
    BY <1>1, <1>3, <1>4, <1>5

\* An UPDATE from a current read writes what the atomic update writes; one
\* from an outdated read marks the column.
LEMMA Writing ==
  ASSUME IInv, requests' = requests, NEW s \in Sagas, WriteBack(s)
  PROVE  IInv' /\ DOMAIN db' = DOMAIN db
  <1> USE DEF IInv
  <1>1. /\ DOMAIN db' = DOMAIN db
        /\ DOMAIN ideal' = DOMAIN db
        /\ \A c \in DOMAIN db :
              /\ db'[c] = IF c = Cell(s) THEN Changed(s, got[s]) ELSE db[c]
              /\ ideal'[c] =
                    IF c = Cell(s) THEN Changed(s, ideal[c]) ELSE ideal[c]
    BY DEF WriteBack, Put, TypeOK
  <1>2. Applied(s) /\ next' = next /\ made' = made /\ phase[s] = "selected"
    BY DEF WriteBack
  <1>3. TypeOK'
    <2>1. \A c \in DOMAIN db' : Known(c)'
      BY <1>1, <1>2 DEF TypeOK, Known
    <2>2. DOMAIN got' = Sagas
      BY DEF WriteBack, TypeOK
    <2> QED
      BY <1>1, <1>2, <2>1, <2>2, Control, SameCalls DEF TypeOK
  <1>4. ReadsAreCurrent'
    <2> SUFFICES ASSUME NEW t \in Sagas, phase'[t] = "selected"
                 PROVE  /\ Known(Cell(t))'
                        /\ t \notin stale' /\ Cell(t)' \in DOMAIN db' =>
                              got'[t] = db'[Cell(t)']
      BY DEF ReadsAreCurrent
    <2>1. t # s /\ at'[t] = at[t] /\ phase[t] = "selected"
      BY <1>2, Control
    <2>2. Cell(t)' = Cell(t)
      BY <1>2, <2>1, SameCell
    <2>3. got'[t] = got[t]
      BY <2>1 DEF WriteBack, TypeOK
    <2>4. Known(Cell(t))'
      BY <1>2, <2>1, <2>2 DEF ReadsAreCurrent, Known
    <2>5. CASE Cell(t) = Cell(s)
      <3>1. t \in stale'
        BY <2>1, <2>5 DEF WriteBack
      <3> QED
        BY <2>4, <3>1
    <2>6. CASE Cell(t) # Cell(s)
      <3>1. t \notin stale' => t \notin stale
        BY <2>1 DEF WriteBack
      <3> QED
        BY <1>1, <2>1, <2>2, <2>3, <2>4, <2>6, <3>1 DEF ReadsAreCurrent
    <2> QED
      BY <2>5, <2>6
  <1>5. LostOnlyIfOverlapping'
    <2> SUFFICES ASSUME NEW c \in DOMAIN db, c \notin raced'
                 PROVE  db'[c] = ideal'[c]
      BY <1>1 DEF LostOnlyIfOverlapping
    <2>1. c \notin raced
      BY DEF WriteBack
    <2>2. db[c] = ideal[c]
      BY <2>1 DEF LostOnlyIfOverlapping
    <2>3. CASE c # Cell(s)
      BY <1>1, <2>2, <2>3
    <2>4. CASE c = Cell(s)
      <3>1. s \notin stale
        BY <2>4 DEF WriteBack
      <3>2. got[s] = db[c]
        BY <1>2, <2>4, <3>1 DEF ReadsAreCurrent
      <3> QED
        BY <1>1, <2>2, <2>4, <3>2
    <2> QED
      BY <2>3, <2>4
  <1> QED
    BY <1>1, <1>3, <1>4, <1>5

\* A SELECT reads the current value.
LEMMA Selecting ==
  ASSUME IInv, requests' = requests, NEW s \in Sagas, Select(s)
  PROVE  IInv' /\ db' = db
  <1> USE DEF IInv
  <1>1. /\ db' = db /\ ideal' = ideal /\ next' = next /\ made' = made
        /\ at' = at /\ raced' = raced /\ stale' = stale /\ answer' = answer
        /\ phase' = [phase EXCEPT ![s] = "selected"]
        /\ got' = [got EXCEPT ![s] = db[Cell(s)]]
        /\ Cell(s) \in DOMAIN db
    BY DEF Select, tables, race
  <1>2. TypeOK'
    BY <1>1, SameCalls DEF TypeOK, Known
  <1>3. \A t \in Sagas : Cell(t)' = Cell(t)
    BY <1>1, SameCell
  <1>4. ReadsAreCurrent'
    <2> SUFFICES ASSUME NEW t \in Sagas, phase'[t] = "selected"
                 PROVE  /\ Known(Cell(t))'
                        /\ t \notin stale' /\ Cell(t)' \in DOMAIN db' =>
                              got'[t] = db'[Cell(t)']
      BY DEF ReadsAreCurrent
    <2>1. CASE t = s
      <3>1. Known(Cell(t)) /\ got'[t] = db[Cell(t)]
        BY <1>1, <2>1 DEF TypeOK
      <3> QED
        BY <1>1, <1>3, <3>1 DEF Known
    <2>2. CASE t # s
      <3>1. phase[t] = "selected" /\ got'[t] = got[t]
        BY <1>1, <2>2 DEF TypeOK
      <3> QED
        BY <1>1, <1>3, <3>1 DEF ReadsAreCurrent, Known
    <2> QED
      BY <2>1, <2>2
  <1>5. LostOnlyIfOverlapping'
    BY <1>1 DEF LostOnlyIfOverlapping
  <1> QED
    BY <1>1, <1>2, <1>4, <1>5

\* A step that leaves the tables alone and opens no transaction.
LEMMA Elsewhere ==
  ASSUME IInv, requests' = requests,
         db' = db, ideal' = ideal, next' = next, made' = made, raced' = raced,
         at' \in [Sagas -> Nat \ {0}],
         \A t \in Sagas : at'[t] <= Len(Calls(t)),
         phase' \in [Sagas -> {"sent", "selected", "over"}],
         answer' \in [Sagas -> {"pending", "ok", "error"}],
         DOMAIN got' = Sagas,
         \A t \in Sagas : phase'[t] = "selected" =>
            /\ phase[t] = "selected" /\ at'[t] = at[t] /\ got'[t] = got[t]
            /\ t \notin stale' => t \notin stale
  PROVE  IInv'
  <1> USE DEF IInv
  <1>1. TypeOK'
    BY SameCalls DEF TypeOK, Known
  <1>2. ReadsAreCurrent'
    <2> SUFFICES ASSUME NEW t \in Sagas, phase'[t] = "selected"
                 PROVE  /\ Known(Cell(t))'
                        /\ t \notin stale' /\ Cell(t)' \in DOMAIN db' =>
                              got'[t] = db'[Cell(t)']
      BY DEF ReadsAreCurrent
    <2>1. Cell(t)' = Cell(t)
      BY SameCell
    <2> QED
      BY <2>1 DEF ReadsAreCurrent, Known
  <1>3. LostOnlyIfOverlapping'
    BY DEF LostOnlyIfOverlapping
  <1> QED
    BY <1>1, <1>2, <1>3

\* Every step preserves the invariant and brings back no row.
LEMMA Step ==
  ASSUME IInv, [Next]_vars
  PROVE  IInv' /\ \A c \in DOMAIN db' : Known(c) => c \in DOMAIN db
  <1> DEFINE Goal == IInv' /\ \A c \in DOMAIN db' : Known(c) => c \in DOMAIN db
  <1> USE DEF IInv
  <1>1. ASSUME NEW s \in Sagas, Select(s), requests' = requests
        PROVE  Goal
    BY <1>1, Selecting
  <1>2. ASSUME NEW s \in Sagas, WriteBack(s), requests' = requests
        PROVE  Goal
    BY <1>2, Writing
  <1>3. ASSUME NEW s \in Sagas, CreateEvent(s), requests' = requests
        PROVE  Goal
    <2> DEFINE row == NewEvent(s)
    <2>1. InsertRow(s, "event", row)
      BY <1>3 DEF CreateEvent
    <2>2. \A c \in DOMAIN row : c[2] = next["event"] /\ Table(c[1]) = "event"
      BY DEF NewEvent, EventColumns, Table
    <2> HIDE DEF row
    <2> QED
      BY <1>3, <2>1, <2>2, Inserting
  <1>4. ASSUME NEW s \in Sagas, CreateUser(s), requests' = requests
        PROVE  Goal
    <2> DEFINE row == [c \in {<<"host_events", next.user>>} |-> requests[s].members]
    <2>1. InsertRow(s, "user", row)
      BY <1>4 DEF CreateUser
    <2>2. \A c \in DOMAIN row : c[2] = next["user"] /\ Table(c[1]) = "user"
      BY DEF Table
    <2> HIDE DEF row
    <2> QED
      BY <1>4, <2>1, <2>2, Inserting
  <1>5. ASSUME NEW s \in Sagas, DeleteEvent(s), requests' = requests
        PROVE  Goal
    BY <1>5, Deleting DEF DeleteEvent
  <1>6. ASSUME NEW s \in Sagas, DeleteUser(s), requests' = requests
        PROVE  Goal
    BY <1>6, Deleting DEF DeleteUser
  <1>7. ASSUME NEW s \in Sagas, GetEvent(s) \/ CreateEventLog(s), requests' = requests
        PROVE  Goal
    <2>1. /\ db' = db /\ ideal' = ideal /\ next' = next /\ made' = made
          /\ got' = got /\ raced' = raced /\ stale' = stale
          /\ Applied(s)
      BY <1>7 DEF GetEvent, CreateEventLog, tables, race
    <2>2. \A t \in Sagas : phase'[t] = "selected" =>
             phase[t] = "selected" /\ at'[t] = at[t]
      BY <2>1, Control
    <2>3. DOMAIN got' = Sagas
      BY <2>1 DEF TypeOK
    <2> QED
      BY <1>7, <2>1, <2>2, <2>3, Control, Elsewhere
  <1>8. ASSUME NEW s \in Sagas, Fail(s), requests' = requests
        PROVE  Goal
    <2>1. /\ db' = db /\ ideal' = ideal /\ next' = next /\ made' = made
          /\ raced' = raced /\ stale' = stale \ {s} /\ at' = at
          /\ got' = [got EXCEPT ![s] = {}]
          /\ phase' = [phase EXCEPT ![s] = "over"]
          /\ answer' = [answer EXCEPT ![s] = "error"]
      BY <1>8 DEF Fail, tables
    <2>2. /\ at' \in [Sagas -> Nat \ {0}]
          /\ \A t \in Sagas : at'[t] <= Len(Calls(t))
          /\ phase' \in [Sagas -> {"sent", "selected", "over"}]
          /\ answer' \in [Sagas -> {"pending", "ok", "error"}]
          /\ DOMAIN got' = Sagas
      BY <2>1 DEF TypeOK
    <2>3. \A t \in Sagas : phase'[t] = "selected" =>
            /\ phase[t] = "selected" /\ at'[t] = at[t] /\ got'[t] = got[t]
            /\ t \notin stale' => t \notin stale
      BY <2>1 DEF TypeOK
    <2> QED
      BY <1>8, <2>1, <2>2, <2>3, Elsewhere
  <1>9. ASSUME NEW s \in Sagas, GiveUp(s), requests' = requests
        PROVE  Goal
    <2>1. /\ db' = db /\ ideal' = ideal /\ next' = next /\ made' = made
          /\ raced' = raced /\ stale' = stale /\ at' = at
          /\ got' = got /\ phase' = phase
          /\ answer' = [answer EXCEPT ![s] = "error"]
      BY <1>9 DEF GiveUp, tables, race
    <2>2. answer' \in [Sagas -> {"pending", "ok", "error"}]
      BY <2>1 DEF TypeOK
    <2>3. /\ at \in [Sagas -> Nat \ {0}]
          /\ \A t \in Sagas : at[t] <= Len(Calls(t))
          /\ phase \in [Sagas -> {"sent", "selected", "over"}]
          /\ DOMAIN got = Sagas
      BY DEF TypeOK
    <2> QED
      BY <1>9, <2>1, <2>2, <2>3, Elsewhere
  <1>10. CASE UNCHANGED vars
    <2>1. /\ requests' = requests
          /\ db' = db /\ ideal' = ideal /\ next' = next /\ made' = made
          /\ raced' = raced /\ stale' = stale /\ at' = at
          /\ got' = got /\ phase' = phase /\ answer' = answer
      BY <1>10 DEF vars
    <2>2. /\ at \in [Sagas -> Nat \ {0}]
          /\ \A t \in Sagas : at[t] <= Len(Calls(t))
          /\ phase \in [Sagas -> {"sent", "selected", "over"}]
          /\ answer \in [Sagas -> {"pending", "ok", "error"}]
          /\ DOMAIN got = Sagas
      BY DEF TypeOK
    <2> QED
      BY <2>1, <2>2, Elsewhere
  <1> QED
    BY <1>1, <1>2, <1>3, <1>4, <1>5, <1>6, <1>7, <1>8, <1>9, <1>10 DEF Next

\* The inductive invariant holds in every reachable state.
THEOREM Invariance == Spec => []IInv
  <1>1. IInv /\ [Next]_vars => IInv'
    BY Step
  <1> QED
    BY Initial, <1>1, PTL DEF Spec

\* Sagas, rows and identities keep their types.
THEOREM TypeCorrect == Spec => []TypeOK
  BY Invariance, PTL DEF IInv

\* Whatever the requests: a column differs from what its updates give one
\* after the other only if two of them overlapped.
THEOREM LossExplained == Spec => []LostOnlyIfOverlapping
  BY Invariance, PTL DEF IInv

\* No update that was read before a DELETE brings the row back.
THEOREM NoReturn == Spec => DeletedStaysDeleted
  <1>1. IInv /\ [Next]_vars =>
           [\A c \in DOMAIN db' : Known(c) => c \in DOMAIN db]_vars
    BY Step
  <1> QED
    BY Invariance, <1>1, PTL DEF Spec, DeletedStaysDeleted

-----------------------------------------------------------------------------
(* The history and the confirmed sagas                                     *)

\* Where in their saga the calls stand.
LEMMA Places ==
  ASSUME requests \in Workloads, NEW s \in Sagas, NEW k \in DOMAIN Calls(s)
  PROVE  /\ Calls(s)[k] = "CreateEvent" => Op(s) = "create" /\ k = 1
         /\ Calls(s)[k] = "CreateUser" => k = 1
         /\ Calls(s)[k] = "CreateEventLog" => Op(s) \in DOMAIN Handlers
         /\ \A call \in DOMAIN Opposite :
               Calls(s)[k] = call =>
                  Op(s) \in {"create", "delete", "join", "leave", call}
         /\ Op(s) = "delete" => (Calls(s)[k] = "DeleteEvent" => k = 3)
         /\ Op(s) = "delete" => Calls(s)[2] = "GetEvent" /\ 2 \in DOMAIN Calls(s)
         /\ \A j \in DOMAIN Calls(s) : Calls(s)[j] = Calls(s)[k] => j = k
  <1>1. Op(s) \in Ops
    BY CalendarAssumption DEF Op
  <1> USE DEF Calls, Handlers, HandleTxCreateEvent, HandleTxUpdateEvent, Opposite,
       HandleTxDeleteEvent, HandleTxJoinEvent, HandleTxLeaveEvent
  <1>2. CASE Op(s) = "create"
    BY <1>2
  <1>3. CASE Op(s) = "update"
    BY <1>3
  <1>4. CASE Op(s) = "delete"
    BY <1>4
  <1>5. CASE Op(s) = "join"
    BY <1>5
  <1>6. CASE Op(s) = "leave"
    BY <1>6
  <1>7. CASE Op(s) \in StoreCalls
    BY <1>7 DEF StoreCalls, Updates, Column
  <1> QED
    BY <1>1, <1>2, <1>3, <1>4, <1>5, <1>6, <1>7 DEF Ops

\* An entry's call comes before the entry.
LEMMA ReportedFirst ==
  ASSUME NEW s \in Sagas, NEW k \in DOMAIN Calls(s), Calls(s)[k] = "CreateEventLog",
         Op(s) \in DOMAIN Handlers
  PROVE  \E j \in DOMAIN Calls(s) : j < k /\ Calls(s)[j] = Reported[Op(s)]
  <1> USE DEF Calls, Handlers, HandleTxCreateEvent, HandleTxUpdateEvent, Reported,
       HandleTxDeleteEvent, HandleTxJoinEvent, HandleTxLeaveEvent
  <1>2. CASE Op(s) = "create"
    <2>1. k = 2 /\ 1 \in DOMAIN Calls(s) /\ Calls(s)[1] = Reported[Op(s)]
      BY <1>2
    <2> QED
      BY <2>1
  <1>3. CASE Op(s) = "update"
    <2>1. k = 2 /\ 1 \in DOMAIN Calls(s) /\ Calls(s)[1] = Reported[Op(s)]
      BY <1>3
    <2> QED
      BY <2>1
  <1>4. CASE Op(s) = "delete"
    <2>1. k = 4 /\ 3 \in DOMAIN Calls(s) /\ Calls(s)[3] = Reported[Op(s)]
      BY <1>4
    <2> QED
      BY <2>1
  <1>5. CASE Op(s) = "join"
    <2>1. k = 2 /\ 1 \in DOMAIN Calls(s) /\ Calls(s)[1] = Reported[Op(s)]
      BY <1>5
    <2> QED
      BY <2>1
  <1>6. CASE Op(s) = "leave"
    <2>1. k = 2 /\ 1 \in DOMAIN Calls(s) /\ Calls(s)[1] = Reported[Op(s)]
      BY <1>6
    <2> QED
      BY <2>1
  <1> QED
    BY <1>2, <1>3, <1>4, <1>5, <1>6

\* The call a saga is at is one of its calls.
LEMMA AtACall ==
  ASSUME TypeOK, NEW s \in Sagas
  PROVE  at[s] \in DOMAIN Calls(s) /\ Calls(s)[at[s]] = Call(s)
  BY Lengths DEF TypeOK, Call

\* What a committed call does to the control state and to what is known to have
\* been carried out.
LEMMA Committing ==
  ASSUME IInv, HistoryInv, requests' = requests, NEW s \in Sagas, Applied(s),
         phase[s] # "over"
  PROVE  /\ CallsMade' /\ AppliedPassed' /\ OpenUpdates'
         /\ applied' = applied \cup {<<s, Call(s)>>}
  <1>1. applied' = applied \cup {<<s, Call(s)>>}
    BY DEF Applied
  <1>2. \A t \in Sagas : Calls(t)' = Calls(t)
    BY SameCalls
  <1>3. at[s] \in Nat /\ at[s] \in DOMAIN Calls(s) /\ Call(s) = Calls(s)[at[s]]
    BY AtACall DEF IInv, TypeOK
  <1>4. DOMAIN Calls(s) = 1 .. Len(Calls(s)) /\ Len(Calls(s)) \in Nat
    BY Lengths
  <1>5. /\ \A t \in Sagas : t # s => at'[t] = at[t] /\ answer'[t] = answer[t]
                                     /\ phase'[t] = phase[t]
        /\ \/ at'[s] = at[s] + 1 /\ answer'[s] = answer[s]
           \/ /\ at'[s] = at[s] /\ phase'[s] = "over"
              /\ answer'[s] = "ok" => answer[s] = "ok" \/ at[s] = Len(Calls(s))
    <2>1. CASE NextCall(s)
      BY <2>1 DEF NextCall, IInv, TypeOK
    <2>2. CASE LastCall(s)
      BY <2>2 DEF LastCall, IInv, TypeOK
    <2> QED
      BY <2>1, <2>2 DEF Applied
  <1>6. CallsMade'
    <2> SUFFICES ASSUME NEW t \in Sagas, NEW k \in DOMAIN Calls(t),
                        k < at'[t] \/ answer'[t] = "ok"
                 PROVE  <<t, Calls(t)[k]>> \in applied'
      BY <1>2 DEF CallsMade
    <2>1. CASE t # s
      BY <1>1, <1>5, <2>1 DEF HistoryInv, CallsMade
    <2>2. CASE t = s
      <3>1. k < at[s] \/ answer[s] = "ok" \/ k = at[s]
        BY <1>3, <1>4, <1>5, <2>2
      <3> QED
        BY <1>1, <1>3, <2>2, <3>1 DEF HistoryInv, CallsMade
    <2> QED
      BY <2>1, <2>2
  <1>7. AppliedPassed'
    <2> SUFFICES ASSUME NEW x \in applied'
                 PROVE  x[1] \in Sagas /\ (at'[x[1]] > 1 \/ phase'[x[1]] = "over")
      BY DEF AppliedPassed
    <2>1. at \in [Sagas -> Nat \ {0}]
      BY DEF IInv, TypeOK
    <2>2. CASE x \in applied /\ x[1] # s
      BY <1>5, <2>2 DEF HistoryInv, AppliedPassed
    <2>3. CASE x[1] = s
      BY <1>5, <2>1, <2>3
    <2> QED
      BY <1>1, <2>2, <2>3
  <1>8. OpenUpdates'
    <2> SUFFICES ASSUME NEW t \in Sagas, phase'[t] = "selected"
                 PROVE  Call(t)' \in Updates
      BY DEF OpenUpdates, Updates, Column
    <2>1. phase[t] = "selected" /\ at'[t] = at[t]
      BY Control DEF IInv
    <2> QED
      BY <1>2, <2>1 DEF HistoryInv, OpenUpdates, Call
  <1> QED
    BY <1>1, <1>6, <1>7, <1>8

\* What a step leaves of the past: requests and identities, what was carried
\* out and the events of those who did it, and no row that was deleted.
Remembers ==
    /\ requests' = requests
    /\ next' \in [user : Nat \ {0}, event : Nat \ {0}]
    /\ next.user <= next'.user /\ next.event <= next'.event
    /\ applied \subseteq applied'
    /\ \A t \in Sagas : \A call : <<t, call>> \in applied => made'[t] = made[t]
    /\ \A c \in DOMAIN db' : Known(c) => c \in DOMAIN db

\* A saga that has carried out a call keeps its event, hence its columns and its
\* entry.
LEMMA SameNames ==
  ASSUME Remembers, NEW s \in Sagas, NEW call, <<s, call>> \in applied
  PROVE  /\ Event(s)' = Event(s) /\ User(s)' = User(s) /\ Op(s)' = Op(s)
         /\ CellOf(s, call)' = CellOf(s, call)
         /\ Item(s, call)' = Item(s, call)
         /\ LogEntry(s)' = LogEntry(s)
  <1>1. Event(s)' = Event(s) /\ User(s)' = User(s) /\ Op(s)' = Op(s)
    BY DEF Remembers, Event, User, Op
  <1> QED
    BY <1>1 DEF CellOf, Item, LogEntry

\* What is known to hold of a call stays true while its column's value does.
LEMMA StillHolds ==
  ASSUME IInv, HistoryInv, Remembers, TypeOK',
         NEW s \in Sagas, NEW call \in DOMAIN Opposite, <<s, call>> \in applied,
         CellOf(s, call) \in DOMAIN ideal' /\ CellOf(s, call) \in DOMAIN ideal =>
            (Item(s, call) \in ideal'[CellOf(s, call)]
                <=> Item(s, call) \in ideal[CellOf(s, call)])
  PROVE  Holds(s, call)'
  <1>1. PICK c : c = CellOf(s, call)
    OBVIOUS
  <1>2. /\ Known(c) /\ Known(c)' /\ CellOf(s, call)' = c
        /\ c \in DOMAIN ideal' => c \in DOMAIN ideal
    <2>1. Known(c)
      BY <1>1 DEF HistoryInv, Kept, Holds
    <2>2. Known(c)'
      BY <2>1, KnownGrows DEF Remembers, IInv
    <2> QED
      BY <1>1, <2>1, <2>2, SameNames DEF Remembers, IInv, TypeOK
  <1>3. Undone(Opposite[call], User(s), Event(s))
        => Undone(Opposite[call], User(s), Event(s))'
    <2> SUFFICES ASSUME NEW t \in Sagas, <<t, Opposite[call]>> \in applied,
                        User(t) = User(s), Event(t) = Event(s)
                 PROVE  /\ <<t, Opposite[call]>> \in applied'
                        /\ User(t)' = User(s)' /\ Event(t)' = Event(s)'
      BY DEF Undone
    <2> QED
      BY SameNames DEF Remembers
  <1> QED
    BY <1>1, <1>2, <1>3, SameNames DEF HistoryInv, Kept, Holds

\* The rest of what is known of the calls that were carried out before.
LEMMA StillKnown ==
  ASSUME IInv, HistoryInv, Remembers
  PROVE  /\ \A s \in Sagas : \A call \in NeedEvent :
               <<s, call>> \in applied => Known(<<"info", Event(s)>>)'
         /\ \A s \in Sagas :
               Op(s) = "delete" /\ <<s, "DeleteEvent">> \in applied =>
                  Known(<<"info", Event(s)>>)' /\ EventExists(Event(s))' = FALSE
                  /\ Event(s)' = Event(s)
         /\ \A i \in DOMAIN logs : \E s \in Sagas :
               /\ logs[i] = LogEntry(s)'
               /\ Op(s)' \in DOMAIN Handlers
               /\ <<s, Reported[Op(s)']>> \in applied'
         /\ \A s \in Sagas :
               <<s, "CreateEventLog">> \in applied =>
                  \E i \in DOMAIN logs : logs[i] = LogEntry(s)'
  <1>1. ASSUME NEW s \in Sagas, NEW call \in NeedEvent, <<s, call>> \in applied
        PROVE  Known(<<"info", Event(s)>>)'
    <2> DEFINE c == <<"info", Event(s)>>
    <2>1. Known(c) /\ Event(s)' = Event(s)
      BY <1>1, SameNames DEF HistoryInv, AboutKnown
    <2>2. Known(c)'
      BY <2>1, KnownGrows DEF Remembers, IInv
    <2> QED
      BY <2>1, <2>2
  <1>2. ASSUME NEW s \in Sagas, Op(s) = "delete", <<s, "DeleteEvent">> \in applied
        PROVE  /\ Known(<<"info", Event(s)>>)' /\ EventExists(Event(s))' = FALSE
               /\ Event(s)' = Event(s)
    <2> DEFINE c == <<"info", Event(s)>>
    <2>1. Known(c) /\ c \notin DOMAIN db
      BY <1>2 DEF HistoryInv, DeletedGone, EventExists
    <2>2. Event(s)' = Event(s)
      BY <1>2, SameNames
    <2>3. Known(c)' /\ c \notin DOMAIN db'
      BY <2>1, <2>2, KnownGrows DEF Remembers, IInv
    <2> QED
      BY <2>2, <2>3 DEF EventExists
  <1>3. ASSUME NEW i \in DOMAIN logs
        PROVE  \E s \in Sagas :
                  /\ logs[i] = LogEntry(s)'
                  /\ Op(s)' \in DOMAIN Handlers
                  /\ <<s, Reported[Op(s)']>> \in applied'
    <2>1. PICK s \in Sagas : /\ logs[i] = LogEntry(s)
                             /\ Op(s) \in DOMAIN Handlers
                             /\ <<s, Reported[Op(s)]>> \in applied
      BY DEF HistoryInv, LogsBacked
    <2> QED
      BY <2>1, SameNames DEF Remembers
  <1>4. ASSUME NEW s \in Sagas, <<s, "CreateEventLog">> \in applied
        PROVE  \E i \in DOMAIN logs : logs[i] = LogEntry(s)'
    BY <1>4, SameNames DEF HistoryInv, LogsComplete
  <1> QED
    BY <1>1, <1>2, <1>3, <1>4

\* A step that changes no array keeps what is known of them.
LEMMA ArraysAlone ==
  ASSUME IInv, HistoryInv, Remembers, TypeOK',
         \A s \in Sagas : \A call \in DOMAIN Opposite :
            <<s, call>> \in applied' => <<s, call>> \in applied,
         \A c \in DOMAIN ideal \cap DOMAIN ideal' :
            Known(c) /\ c[1] # "info" => ideal'[c] = ideal[c]
  PROVE  Kept'
  <1> SUFFICES ASSUME NEW s \in Sagas, NEW call \in DOMAIN Opposite,
                      <<s, call>> \in applied'
               PROVE  Holds(s, call)'
    BY DEF Kept
  <1>1. <<s, call>> \in applied
    OBVIOUS
  <1>2. Known(CellOf(s, call)) /\ CellOf(s, call)[1] # "info"
    BY <1>1 DEF HistoryInv, Kept, Holds, CellOf, Column, Opposite
  <1> QED
    BY <1>1, <1>2, StillHolds

\* A step that writes no entry keeps the invariant when it does for the call it
\* carries out, if any.
LEMMA HistoryKept ==
  ASSUME IInv, HistoryInv, Remembers, TypeOK',
         CallsMade', AppliedPassed', OpenUpdates', Kept',
         NEW s \in Sagas, NEW done, done \subseteq {Call(s)},
         applied' = applied \cup {<<s, call>> : call \in done},
         done \cap NeedEvent # {} => Known(<<"info", Event(s)>>)',
         Op(s) = "delete" /\ "DeleteEvent" \in done =>
            Known(<<"info", Event(s)>>)' /\ EventExists(Event(s))' = FALSE
            /\ Event(s)' = Event(s),
         "CreateEventLog" \notin done,
         logs' = logs
  PROVE  HistoryInv'
  <1>1. \A t \in Sagas : \A call :
            <<t, call>> \in applied' => <<t, call>> \in applied \/ (t = s /\ call \in done)
    OBVIOUS
  <1>2. AboutKnown'
    BY <1>1, StillKnown DEF AboutKnown
  <1>4. DeletedGone'
    <2> SUFFICES ASSUME NEW t \in Sagas, Op(t)' = "delete",
                        <<t, "DeleteEvent">> \in applied'
                 PROVE  Known(<<"info", Event(t)>>)' /\ ~EventExists(Event(t))'
      BY DEF DeletedGone
    <2>1. Op(t) = "delete"
      BY DEF Op, Remembers
    <2> QED
      BY <1>1, <2>1, StillKnown
  <1>5. LogsBacked'
    BY StillKnown DEF LogsBacked
  <1>6. LogsComplete'
    <2>1. \A t \in Sagas :
            <<t, "CreateEventLog">> \in applied' =>
               \E i \in DOMAIN logs' : logs'[i] = LogEntry(t)'
      BY <1>1, StillKnown
    <2> QED
      BY <2>1 DEF LogsComplete, HistoryInv, Remembers, User
  <1> QED
    BY <1>2, <1>4, <1>5, <1>6 DEF HistoryInv, Remembers

\* A step that carries out no call.
LEMMA NothingDone ==
  ASSUME IInv, HistoryInv, TypeOK', NEW s \in Sagas, requests' = requests,
         db' = db, ideal' = ideal, next' = next, made' = made, logs' = logs,
         applied' = applied, at' = at,
         \A t \in Sagas : phase[t] = "over" => phase'[t] = "over",
         \A t \in Sagas :
            phase'[t] = "selected" => phase[t] = "selected" \/ Call(t) \in Updates,
         \A t \in Sagas : answer'[t] = "ok" => answer[t] = "ok"
  PROVE  HistoryInv'
  <1>1. CallsMade'
    BY SameCalls DEF CallsMade, HistoryInv
  <1>2. AppliedPassed'
    BY DEF AppliedPassed, HistoryInv
  <1>3. Remembers
    BY DEF Remembers, IInv, TypeOK
  <1>6. OpenUpdates'
    BY SameCalls DEF OpenUpdates, HistoryInv, Call, Updates
  <1>7. Kept'
    BY <1>3, ArraysAlone
  <1>4. PICK done : done = {}
    OBVIOUS
  <1>5. /\ done \subseteq {Call(s)}
        /\ applied' = applied \cup {<<s, call>> : call \in done}
        /\ \A S : done \cap S = {}
        /\ \A call : call \notin done
    BY <1>4
  <1> QED
    BY <1>1, <1>2, <1>3, <1>5, <1>6, <1>7, HistoryKept

LEMMA SelectHistory ==
  ASSUME IInv, HistoryInv, TypeOK', NEW s \in Sagas, requests' = requests,
         Select(s) \/ Fail(s) \/ GiveUp(s)
  PROVE  HistoryInv'
  <1>1. \A t \in Sagas : phase[t] = "over" => phase'[t] = "over"
    BY DEF Select, Fail, GiveUp, IInv, TypeOK
  <1>2. \A t \in Sagas : answer'[t] = "ok" => answer[t] = "ok"
    BY DEF Select, Fail, GiveUp, IInv, TypeOK
  <1>3. \A t \in Sagas :
            phase'[t] = "selected" => phase[t] = "selected" \/ Call(t) \in Updates
    BY DEF Select, Fail, GiveUp, IInv, TypeOK
  <1> QED
    BY <1>1, <1>2, <1>3, NothingDone DEF Select, Fail, GiveUp, tables

LEMMA ReadHistory ==
  ASSUME IInv, HistoryInv, TypeOK', NEW s \in Sagas, requests' = requests, GetEvent(s)
  PROVE  HistoryInv'
  <1>1. /\ db' = db /\ ideal' = ideal /\ next' = next /\ logs' = logs /\ made' = made
        /\ Applied(s) /\ Call(s) = "GetEvent" /\ phase[s] # "over" /\ EventExists(Event(s))
    BY DEF GetEvent, tables, Sent
  <1>2. CallsMade' /\ AppliedPassed' /\ OpenUpdates' /\ applied' = applied \cup {<<s, Call(s)>>}
    BY <1>1, Committing
  <1>3. Remembers
    BY <1>1, <1>2 DEF Remembers, IInv, TypeOK
  <1>4. Known(<<"info", Event(s)>>)'
    BY <1>1 DEF EventExists, Known, Event, IInv, TypeOK
  <1>5. applied' = applied \cup {<<s, call>> : call \in {"GetEvent"}}
    BY <1>1, <1>2
  <1>6. Kept'
    BY <1>1, <1>2, <1>3, ArraysAlone DEF Opposite
  <1> QED
    BY <1>1, <1>2, <1>3, <1>4, <1>5, <1>6, HistoryKept

LEMMA DeleteHistory ==
  ASSUME IInv, HistoryInv, TypeOK', NEW s \in Sagas, requests' = requests,
         DeleteEvent(s) \/ DeleteUser(s)
  PROVE  HistoryInv'
  <1>1. PICK columns :
           /\ DeleteRow(s, columns)
           /\ Call(s) \in {"DeleteEvent", "DeleteUser"}
           /\ phase[s] # "over"
           /\ Call(s) = "DeleteEvent" => columns = EventColumns(Event(s))
    BY DEF DeleteEvent, DeleteUser, Sent
  <1>2. /\ next' = next /\ logs' = logs /\ made' = made /\ Applied(s)
        /\ DOMAIN db' = DOMAIN db \ columns
        /\ \A c \in DOMAIN ideal' : c \in DOMAIN ideal /\ ideal'[c] = ideal[c]
    BY <1>1 DEF DeleteRow, Delete
  <1>3. CallsMade' /\ AppliedPassed' /\ OpenUpdates' /\ applied' = applied \cup {<<s, Call(s)>>}
    BY <1>1, <1>2, Committing
  <1>4. Remembers
    BY <1>2, <1>3 DEF Remembers, IInv, TypeOK
  <1>5. applied' = applied \cup {<<s, call>> : call \in {Call(s)}}
    BY <1>3
  <1>6. Event(s)' = Event(s)
    BY <1>2 DEF Event
  <1>7. ASSUME Op(s) = "delete", Call(s) = "DeleteEvent"
        PROVE  Known(<<"info", Event(s)>>)' /\ EventExists(Event(s))' = FALSE
    <2>1. at[s] = 3 /\ 2 \in DOMAIN Calls(s) /\ Calls(s)[2] = "GetEvent"
      BY <1>7, AtACall, Places DEF IInv, HistoryInv
    <2>2. Known(<<"info", Event(s)>>)
      <3>1. <<s, "GetEvent">> \in applied
        BY <2>1 DEF HistoryInv, CallsMade
      <3> QED
        BY <3>1 DEF HistoryInv, AboutKnown, NeedEvent
    <2>3. Known(<<"info", Event(s)>>)'
      BY <1>2, <1>6, <2>2 DEF Known
    <2>4. <<"info", Event(s)>> \notin DOMAIN db'
      BY <1>1, <1>2, <1>7 DEF EventColumns
    <2> QED
      BY <1>6, <2>3, <2>4 DEF EventExists
  <1>8. Kept'
    BY <1>1, <1>2, <1>3, <1>4, ArraysAlone DEF Opposite
  <1>9. {Call(s)} \cap NeedEvent = {}
    BY <1>1 DEF NeedEvent
  <1> QED
    BY <1>1, <1>2, <1>3, <1>4, <1>5, <1>6, <1>7, <1>8, <1>9, HistoryKept

LEMMA InsertHistory ==
  ASSUME IInv, HistoryInv, TypeOK', NEW s \in Sagas, requests' = requests,
         CreateEvent(s) \/ CreateUser(s),
         \A c \in DOMAIN db' : Known(c) => c \in DOMAIN db
  PROVE  HistoryInv'
  <1>1. PICK table, row :
           /\ table \in {"user", "event"}
           /\ InsertRow(s, table, row)
           /\ Sent(s, IF table = "event" THEN "CreateEvent" ELSE "CreateUser")
    BY DEF CreateEvent, CreateUser
  <1>2. /\ logs' = logs /\ Applied(s) /\ phase[s] = "sent"
        /\ made' = [made EXCEPT ![s] = next[table]]
        /\ next' = [next EXCEPT ![table] = @ + 1]
        /\ Call(s) = IF table = "event" THEN "CreateEvent" ELSE "CreateUser"
        /\ \A c \in DOMAIN ideal : c \in DOMAIN ideal' /\ ideal'[c] = ideal[c]
    BY <1>1 DEF InsertRow, Insert, Sent
  <1>3. CallsMade' /\ AppliedPassed' /\ OpenUpdates' /\ applied' = applied \cup {<<s, Call(s)>>}
    BY <1>2, Committing
  <1>4. \A call : <<s, call>> \notin applied
    <2>1. at[s] = 1
      BY <1>2, AtACall, Places DEF IInv, HistoryInv
    <2> QED
      BY <1>2, <2>1 DEF HistoryInv, AppliedPassed
  <1>5. PICK u \in Nat \ {0}, e \in Nat \ {0} : next = [user |-> u, event |-> e]
    BY DEF IInv, TypeOK
  <1>6. /\ next' \in [user : Nat \ {0}, event : Nat \ {0}]
        /\ next.user <= next'.user /\ next.event <= next'.event
        /\ table = "event" => made'[s] = e /\ next'.event = e + 1
    <2>1. DOMAIN made = Sagas
      BY DEF IInv, TypeOK
    <2>2. CASE table = "user"
      <3>1. next' = [user |-> u + 1, event |-> e]
        BY <1>2, <1>5, <2>2
      <3> QED
        BY <1>5, <2>2, <3>1
    <2>3. CASE table = "event"
      <3>1. next' = [user |-> u, event |-> e + 1]
        BY <1>2, <1>5, <2>3
      <3> QED
        BY <1>2, <1>5, <2>1, <2>3, <3>1
    <2> QED
      BY <1>1, <2>2, <2>3
  <1>7. Remembers
    BY <1>2, <1>3, <1>4, <1>6 DEF Remembers, IInv, TypeOK
  <1>8. ASSUME table = "event"
        PROVE  Known(<<"info", Event(s)>>)'
    <2>1. Event(s)' = e
      BY <1>5, <1>6, <1>8 DEF Event
    <2> QED
      BY <1>5, <1>6, <1>8, <2>1 DEF Known, Table
  <1>9. applied' = applied \cup {<<s, call>> : call \in {Call(s)}}
    BY <1>3
  <1>10. Kept'
    BY <1>2, <1>3, <1>7, ArraysAlone DEF Opposite
  <1>11. table = "user" => Call(s) \notin NeedEvent
    BY <1>2 DEF NeedEvent
  <1> QED
    BY <1>1, <1>2, <1>3, <1>7, <1>8, <1>9, <1>10, <1>11, HistoryKept

\* An array after an update: the item is in it if it was added, not if it was
\* removed, and all other items are where they were.
LEMMA ArrayAfter ==
  ASSUME NEW s \in Sagas, NEW old, Call(s) \in DOMAIN Opposite
  PROVE  /\ Item(s, Call(s)) \in Changed(s, old) <=> Call(s) \in Additions
         /\ \A i : i # Item(s, Call(s)) => (i \in Changed(s, old) <=> i \in old)
  <1> USE DEF Item, Column, Additions
  <1>1. CASE Call(s) = "AddHostEvent"
    <2>1. Changed(s, old) = old \cup {Event(s)}
      BY <1>1 DEF Changed, AddHostEvent
    <2> QED
      BY <1>1, <2>1
  <1>2. CASE Call(s) = "RemoveHostEvent"
    <2>1. Changed(s, old) = old \ {Event(s)}
      BY <1>2 DEF Changed, RemoveHostEvent
    <2> QED
      BY <1>2, <2>1
  <1>3. CASE Call(s) = "AddParticipant"
    <2>1. Changed(s, old) = old \cup {User(s)}
      BY <1>3 DEF Changed, AddParticipant
    <2> QED
      BY <1>3, <2>1
  <1>4. CASE Call(s) = "RemoveParticipant"
    <2>1. Changed(s, old) = old \ {User(s)}
      BY <1>4 DEF Changed, RemoveParticipant
    <2> QED
      BY <1>4, <2>1
  <1> QED
    BY <1>1, <1>2, <1>3, <1>4 DEF Opposite

\* Two calls on one column about one item are by one user and about one event.
LEMMA SameItem ==
  ASSUME NEW s \in Sagas, NEW t \in Sagas,
         NEW a \in DOMAIN Opposite, NEW b \in DOMAIN Opposite,
         CellOf(s, a) = CellOf(t, b), Item(s, a) = Item(t, b)
  PROVE  /\ User(s) = User(t) /\ Event(s) = Event(t)
         /\ b = a \/ b = Opposite[a]
         /\ a \in Additions <=> (b \in Additions <=> b = a)
  BY DEF CellOf, Item, Column, Opposite, Additions

LEMMA WriteHistory ==
  ASSUME IInv, HistoryInv, TypeOK', NEW s \in Sagas, requests' = requests, WriteBack(s)
  PROVE  HistoryInv'
  <1>1. /\ next' = next /\ logs' = logs /\ made' = made /\ Applied(s)
        /\ phase[s] = "selected"
        /\ DOMAIN db' = DOMAIN db /\ DOMAIN ideal' = DOMAIN ideal
        /\ \A c \in DOMAIN ideal :
              ideal'[c] = IF c = Cell(s) THEN Changed(s, ideal[c]) ELSE ideal[c]
    BY DEF WriteBack, Put
  <1>2. /\ CallsMade' /\ AppliedPassed' /\ OpenUpdates'
        /\ applied' = applied \cup {<<s, Call(s)>>}
    BY <1>1, Committing
  <1>3. Remembers
    BY <1>1, <1>2 DEF Remembers, IInv, TypeOK
  <1>4. Known(Cell(s)) /\ Call(s) \in Updates
    BY <1>1 DEF IInv, ReadsAreCurrent, HistoryInv, OpenUpdates
  <1>5. \A c : Known(c)' = Known(c)
    BY <1>1 DEF Known
  <1>6. \A t \in Sagas :
            Event(t)' = Event(t) /\ User(t)' = User(t) /\ Op(t)' = Op(t)
    BY <1>1 DEF Event, User, Op
  <1>7. Kept'
    <2>1. CASE Call(s) = "UpdateEvent"
      <3>1. Cell(s)[1] = "info"
        BY <2>1 DEF Cell, CellOf, Column
      <3>2. "UpdateEvent" \notin DOMAIN Opposite
        BY DEF Opposite
      <3> QED
        BY <1>1, <1>2, <1>3, <2>1, <3>1, <3>2, ArraysAlone
    <2>2. CASE Call(s) \in DOMAIN Opposite
      <3> SUFFICES ASSUME NEW t \in Sagas, NEW call \in DOMAIN Opposite,
                          <<t, call>> \in applied'
                   PROVE  Holds(t, call)'
        BY DEF Kept
      <3>1. /\ CellOf(t, call)' = CellOf(t, call) /\ Item(t, call)' = Item(t, call)
            /\ <<t, call>> \in applied => Known(CellOf(t, call))
        BY <1>6 DEF CellOf, Item, HistoryInv, Kept, Holds
      <3>2. CASE CellOf(t, call) = Cell(s) /\ Item(t, call) = Item(s, Call(s))
        <4>1. /\ User(s) = User(t) /\ Event(s) = Event(t)
              /\ call = Call(s) \/ call = Opposite[Call(s)]
          BY <2>2, <3>2, SameItem DEF Cell
        <4>2. Known(CellOf(t, call))'
          BY <1>4, <1>5, <3>1, <3>2
        <4>3. CASE call = Call(s)
          <5>1. CellOf(t, call) \in DOMAIN ideal' =>
                   (Item(t, call) \in ideal'[CellOf(t, call)] <=> call \in Additions)
            BY <1>1, <2>2, <3>2, <4>3, ArrayAfter
          <5> QED
            BY <3>1, <4>2, <5>1 DEF Holds
        <4>4. CASE call = Opposite[Call(s)]
          <5>1. Opposite[call] = Call(s)
            BY <2>2, <4>4 DEF Opposite
          <5>2. Undone(Opposite[call], User(t), Event(t))'
            BY <1>2, <1>6, <4>1, <5>1 DEF Undone
          <5> QED
            BY <4>2, <5>2 DEF Holds
        <4> QED
          BY <4>1, <4>3, <4>4
      <3>3. CASE ~(CellOf(t, call) = Cell(s) /\ Item(t, call) = Item(s, Call(s)))
        <4>1. <<t, call>> \in applied
          BY <1>2, <3>3 DEF Cell
        <4>2. CellOf(t, call) \in DOMAIN ideal =>
                 (Item(t, call) \in ideal'[CellOf(t, call)]
                    <=> Item(t, call) \in ideal[CellOf(t, call)])
          BY <1>1, <2>2, <3>3, ArrayAfter
        <4> QED
          BY <1>3, <4>1, <4>2, StillHolds
      <3> QED
        BY <3>2, <3>3
    <2> QED
      BY <1>4, <2>1, <2>2 DEF Updates, Column, Opposite
  <1>8. applied' = applied \cup {<<s, call>> : call \in {Call(s)}}
    BY <1>2
  <1>9. Call(s) \in NeedEvent => Known(<<"info", Event(s)>>)'
    <2> SUFFICES ASSUME Call(s) \in NeedEvent PROVE Known(<<"info", Event(s)>>)'
      OBVIOUS
    <2>1. Cell(s)[2] = Event(s) /\ Table(Cell(s)[1]) = "event"
      BY <1>4 DEF Cell, CellOf, Column, Table, NeedEvent, Updates
    <2>2. Known(<<"info", Event(s)>>)
      BY <1>4, <2>1 DEF Known, Table
    <2> QED
      BY <1>5, <1>6, <2>2
  <1>10. Call(s) \notin {"DeleteEvent", "CreateEventLog"}
    BY <1>4 DEF Updates, Column
  <1> QED
    BY <1>1, <1>2, <1>3, <1>7, <1>8, <1>9, <1>10, HistoryKept

LEMMA LogHistory ==
  ASSUME IInv, HistoryInv, TypeOK', NEW s \in Sagas, requests' = requests,
         CreateEventLog(s)
  PROVE  HistoryInv'
  <1>1. /\ db' = db /\ ideal' = ideal /\ next' = next /\ made' = made
        /\ Applied(s) /\ phase[s] # "over" /\ Call(s) = "CreateEventLog"
        /\ logs' = Append(logs, LogEntry(s))
    BY DEF CreateEventLog, Sent
  <1>2. /\ CallsMade' /\ AppliedPassed' /\ OpenUpdates'
        /\ applied' = applied \cup {<<s, "CreateEventLog">>}
    BY <1>1, Committing
  <1>3. Remembers
    BY <1>1, <1>2 DEF Remembers, IInv, TypeOK
  <1>4. \A t \in Sagas :
            /\ Event(t)' = Event(t) /\ User(t)' = User(t) /\ Op(t)' = Op(t)
            /\ LogEntry(t)' = LogEntry(t)
    BY <1>1 DEF Event, User, Op, LogEntry
  <1>5. Kept'
    BY <1>1, <1>2, <1>3, ArraysAlone DEF Opposite
  <1>6. AboutKnown' /\ DeletedGone'
    BY <1>2, <1>4, <1>3, StillKnown DEF AboutKnown, NeedEvent, DeletedGone
  <1>7. Op(s) \in DOMAIN Handlers /\ <<s, Reported[Op(s)]>> \in applied
    <2>1. at[s] \in DOMAIN Calls(s) /\ Calls(s)[at[s]] = "CreateEventLog"
      BY <1>1, AtACall DEF IInv
    <2>2. Op(s) \in DOMAIN Handlers
      BY <2>1, Places DEF HistoryInv
    <2>3. PICK j \in DOMAIN Calls(s) : j < at[s] /\ Calls(s)[j] = Reported[Op(s)]
      BY <2>1, <2>2, ReportedFirst
    <2> QED
      BY <2>2, <2>3 DEF HistoryInv, CallsMade
  <1> DEFINE Entries == [event : Nat \cup {requests[t].event : t \in Sagas},
                         user : {User(t) : t \in Sagas},
                         type : DOMAIN Handlers]
  <1>8. logs \in Seq(Entries) /\ Entries' = Entries
    <2>1. logs \in Seq(Entries)
      BY DEF HistoryInv, LogsComplete
    <2>2. {requests'[t].event : t \in Sagas} = {requests[t].event : t \in Sagas}
      OBVIOUS
    <2>3. {User(t)' : t \in Sagas} = {User(t) : t \in Sagas}
      BY <1>4
    <2> QED
      BY <2>1, <2>2, <2>3
  <1>9. LogEntry(s) \in Entries
    <2>1. Event(s) \in Nat \cup {requests[t].event : t \in Sagas}
      BY DEF Event, IInv, TypeOK
    <2> QED
      BY <1>7, <2>1 DEF LogEntry
  <1> HIDE DEF Entries
  <1>10. /\ logs' \in Seq(Entries)
         /\ DOMAIN logs' = DOMAIN logs \cup {Len(logs) + 1}
         /\ \A i \in DOMAIN logs : logs'[i] = logs[i]
         /\ logs'[Len(logs) + 1] = LogEntry(s)
    BY <1>1, <1>8, <1>9
  <1>11. LogsBacked'
    <2> SUFFICES ASSUME NEW i \in DOMAIN logs'
                 PROVE  \E t \in Sagas : /\ logs'[i] = LogEntry(t)'
                                         /\ Op(t)' \in DOMAIN Handlers
                                         /\ <<t, Reported[Op(t)']>> \in applied'
      BY DEF LogsBacked
    <2>1. CASE i \in DOMAIN logs
      BY <1>10, <2>1, <1>3, StillKnown
    <2>2. CASE i = Len(logs) + 1
      BY <1>2, <1>4, <1>7, <1>10, <2>2
    <2> QED
      BY <1>10, <2>1, <2>2
  <1>12. LogsComplete'
    <2>1. ASSUME NEW t \in Sagas, <<t, "CreateEventLog">> \in applied'
          PROVE  \E i \in DOMAIN logs' : logs'[i] = LogEntry(t)'
      <3>1. CASE <<t, "CreateEventLog">> \in applied
        <4>1. PICK i \in DOMAIN logs : logs[i] = LogEntry(t)
          BY <3>1 DEF HistoryInv, LogsComplete
        <4> QED
          BY <1>4, <1>10, <4>1
      <3>2. CASE t = s
        BY <1>4, <1>10, <3>2
      <3> QED
        BY <1>2, <2>1, <3>1, <3>2
    <2> QED
      BY <1>8, <1>10, <2>1 DEF LogsComplete, Entries
  <1> QED
    BY <1>2, <1>3, <1>5, <1>6, <1>11, <1>12 DEF HistoryInv, Remembers

LEMMA InitialHistory == Init => HistoryInv
  <1> SUFFICES ASSUME Init PROVE HistoryInv
    OBVIOUS
  <1>1. CallsMade
    <2> SUFFICES ASSUME NEW s \in Sagas, NEW k \in DOMAIN Calls(s),
                        k < at[s] \/ answer[s] = "ok"
                 PROVE  FALSE
      BY DEF CallsMade
    <2>1. k \in Nat /\ k >= 1 /\ at[s] = 1 /\ answer[s] = "pending"
      BY Lengths DEF Init
    <2> QED
      BY <2>1
  <1>2. AppliedPassed /\ AboutKnown /\ Kept /\ DeletedGone /\ OpenUpdates
    BY DEF Init, AppliedPassed, AboutKnown, Kept, DeletedGone, OpenUpdates
  <1>3. LogsBacked /\ LogsComplete
    BY DEF Init, LogsBacked, LogsComplete
  <1> QED
    BY <1>1, <1>2, <1>3 DEF Init, HistoryInv

\* What was carried out, what is in the rows and what is in the history agree.
LEMMA HistoryInvariance == Spec => []HistoryInv
  <1>1. IInv /\ HistoryInv /\ [Next]_vars => HistoryInv'
    <2> SUFFICES ASSUME IInv, HistoryInv, [Next]_vars PROVE HistoryInv'
      OBVIOUS
    <2>1. TypeOK' /\ \A c \in DOMAIN db' : Known(c) => c \in DOMAIN db
      BY Step DEF IInv
    <2>2. ASSUME Next PROVE HistoryInv'
      BY <2>1, <2>2, SelectHistory, WriteHistory, ReadHistory, DeleteHistory,
         InsertHistory, LogHistory
         DEF Next
    <2>3. CASE UNCHANGED vars
      <3>1. /\ requests' = requests /\ db' = db /\ ideal' = ideal /\ next' = next
            /\ logs' = logs /\ at' = at /\ phase' = phase /\ made' = made
            /\ answer' = answer /\ applied' = applied
        BY <2>3 DEF vars
      <3>2. CallsMade' /\ AppliedPassed' /\ OpenUpdates' /\ AboutKnown'
        BY <3>1 DEF HistoryInv, CallsMade, AppliedPassed, OpenUpdates, AboutKnown,
                    Known, Event, User, Op, Call, Calls, CellOf
      <3>3. Kept' /\ DeletedGone'
        <4>1. ASSUME NEW s \in Sagas, NEW call \in DOMAIN Opposite
              PROVE  Holds(s, call)' <=> Holds(s, call)
          <5>1. ASSUME NEW t \in Sagas
                PROVE  /\ Event(t)' = Event(t) /\ User(t)' = User(t)
                       /\ CellOf(t, call)' = CellOf(t, call)
                       /\ Item(t, call)' = Item(t, call)
            BY <3>1 DEF Event, User, CellOf, Item
          <5>2. Undone(Opposite[call], User(s), Event(s))'
                  <=> Undone(Opposite[call], User(s), Event(s))
            BY <3>1, <5>1 DEF Undone
          <5>3. Known(CellOf(s, call))' <=> Known(CellOf(s, call))
            BY <3>1, <5>1 DEF Known
          <5> QED
            BY <3>1, <5>1, <5>2, <5>3 DEF Holds
        <4>2. Kept'
          BY <3>1, <4>1 DEF HistoryInv, Kept
        <4>3. DeletedGone'
          BY <3>1 DEF HistoryInv, DeletedGone, EventExists, Known, Event, Op
        <4> QED
          BY <4>2, <4>3
      <3>4. LogsBacked' /\ LogsComplete'
        BY <3>1 DEF HistoryInv, LogsBacked, LogsComplete, LogEntry, Event, User, Op,
                    Calls
      <3> QED
        BY <3>1, <3>2, <3>3, <3>4 DEF HistoryInv
    <2> QED
      BY <2>2, <2>3
  <1> QED
    BY <1>1, InitialHistory, Invariance, PTL DEF Spec

\* The history is never ahead of the services, for any requests.
THEOREM HistoryTrue == Spec => []LogsTellTheTruth
  <1>1. IInv /\ HistoryInv => LogsTellTheTruth
    <2> SUFFICES ASSUME IInv, HistoryInv, NEW i \in DOMAIN logs
                 PROVE  LET u == logs[i].user
                            e == logs[i].event
                            c == <<"participants", e>>
                            type == logs[i].type
                        IN
                        /\ e < next.event
                        /\ type = "delete" => ~EventExists(e)
                        /\ type = "join" /\ c \in DOMAIN db \ raced =>
                              u \in db[c] \/ Undone("RemoveParticipant", u, e)
                        /\ type = "leave" /\ c \in DOMAIN db \ raced =>
                              u \notin db[c] \/ Undone("AddParticipant", u, e)
      BY DEF LogsTellTheTruth
    <2>1. PICK s \in Sagas : /\ logs[i] = LogEntry(s)
                             /\ Op(s) \in DOMAIN Handlers
                             /\ <<s, Reported[Op(s)]>> \in applied
      BY DEF HistoryInv, LogsBacked
    <2>2. /\ logs[i].user = User(s) /\ logs[i].event = Event(s)
          /\ logs[i].type = Op(s)
      BY <2>1 DEF LogEntry
    <2>3. Event(s) < next.event
      <3>1. Known(<<"info", Event(s)>>)
        <4>1. CASE Op(s) = "delete"
          <5>1. Reported["delete"] = "DeleteEvent"
            BY DEF Reported
          <5> QED
            BY <2>1, <4>1, <5>1 DEF HistoryInv, DeletedGone
        <4>2. CASE Op(s) # "delete"
          <5>1. Reported[Op(s)] \in NeedEvent
            BY <2>1, <4>2 DEF Handlers, Reported, NeedEvent
          <5> QED
            BY <2>1, <5>1 DEF HistoryInv, AboutKnown
        <4> QED
          BY <4>1, <4>2
      <3>2. PICK e \in Nat : next.event = e
        BY DEF IInv, TypeOK
      <3> QED
        BY <3>1, <3>2 DEF Known, Table
    <2>4. Op(s) = "delete" => ~EventExists(Event(s))
      <3>1. Reported["delete"] = "DeleteEvent"
        BY DEF Reported
      <3> QED
        BY <2>1, <3>1 DEF HistoryInv, DeletedGone
    <2> DEFINE c == <<"participants", Event(s)>>
    <2>5. c \in DOMAIN db \ raced => c \in DOMAIN ideal /\ db[c] = ideal[c]
      BY DEF IInv, TypeOK, LostOnlyIfOverlapping
    <2>6. Op(s) = "join" /\ c \in DOMAIN db \ raced =>
             User(s) \in db[c] \/ Undone("RemoveParticipant", User(s), Event(s))
      BY <2>1, <2>5
         DEF HistoryInv, Kept, Holds, Reported, Opposite, Additions, CellOf, Item, Column
    <2>7. Op(s) = "leave" /\ c \in DOMAIN db \ raced =>
             User(s) \notin db[c] \/ Undone("AddParticipant", User(s), Event(s))
      BY <2>1, <2>5
         DEF HistoryInv, Kept, Holds, Reported, Opposite, Additions, CellOf, Item, Column
    <2> QED
      BY <2>2, <2>3, <2>4, <2>6, <2>7
  <1> QED
    BY <1>1, Invariance, HistoryInvariance, PTL

-----------------------------------------------------------------------------
(* The fields of an update                                                 *)

\* An inserting step of a saga is its first: it has carried out nothing before.
LEMMA InsertRemembers ==
  ASSUME IInv, HistoryInv, TypeOK', NEW s \in Sagas, requests' = requests,
         CreateEvent(s) \/ CreateUser(s)
  PROVE  /\ next.user <= next'.user /\ next.event <= next'.event
         /\ applied \subseteq applied'
         /\ \A t \in Sagas : \A call : <<t, call>> \in applied => made'[t] = made[t]
  <1>1. PICK table, row :
           /\ table \in {"user", "event"}
           /\ InsertRow(s, table, row)
           /\ Sent(s, IF table = "event" THEN "CreateEvent" ELSE "CreateUser")
    BY DEF CreateEvent, CreateUser
  <1>2. /\ made' = [made EXCEPT ![s] = next[table]]
        /\ next' = [next EXCEPT ![table] = @ + 1]
        /\ applied \subseteq applied'
        /\ phase[s] = "sent" /\ Call(s) \in {"CreateEvent", "CreateUser"}
    BY <1>1 DEF InsertRow, Applied, Sent
  <1>3. \A call : <<s, call>> \notin applied
    <2>1. at[s] = 1
      BY <1>2, AtACall, Places DEF IInv, HistoryInv
    <2> QED
      BY <1>2, <2>1 DEF HistoryInv, AppliedPassed
  <1>4. next.user <= next'.user /\ next.event <= next'.event
    <2>1. PICK u \in Nat, e \in Nat : next = [user |-> u, event |-> e]
      BY DEF IInv, TypeOK
    <2> QED
      BY <1>1, <1>2, <2>1
  <1>5. \A t \in Sagas : t # s => made'[t] = made[t]
    BY <1>2 DEF IInv, TypeOK
  <1> QED
    BY <1>2, <1>3, <1>4, <1>5

\* Every step leaves the past as it is.
LEMMA StepRemembers ==
  ASSUME IInv, HistoryInv, [Next]_vars
  PROVE  Remembers
  <1>1. TypeOK' /\ \A c \in DOMAIN db' : Known(c) => c \in DOMAIN db
    BY Step DEF IInv
  <1>2. requests' = requests
    BY DEF Next, vars
  <1>3. ASSUME NEW s \in Sagas, CreateEvent(s) \/ CreateUser(s)
        PROVE  Remembers
    BY <1>1, <1>2, <1>3, InsertRemembers DEF Remembers, TypeOK
  <1>4. CASE \/ UNCHANGED vars
             \/ \E s \in Sagas :
                   \/ Select(s) \/ WriteBack(s) \/ DeleteEvent(s) \/ GetEvent(s)
                   \/ DeleteUser(s) \/ CreateEventLog(s) \/ Fail(s) \/ GiveUp(s)
    <2>1. next' = next /\ made' = made /\ applied \subseteq applied'
      BY <1>4 DEF vars, tables, Select, WriteBack, DeleteEvent, GetEvent, DeleteUser,
                  DeleteRow, CreateEventLog, Fail, GiveUp, Applied
    <2> QED
      BY <1>1, <1>2, <2>1 DEF Remembers, IInv, TypeOK
  <1> QED
    BY <1>3, <1>4 DEF Next

\* An update that was overwritten stays so.
LEMMA StaysOverwritten ==
  ASSUME Remembers, NEW s \in Sagas, <<s, "UpdateEvent">> \in applied,
         NEW f, Overwritten(s, f)
  PROVE  Overwritten(s, f)'
  <1>1. PICK t \in Sagas \ {s} : /\ <<t, "UpdateEvent">> \in applied
                                 /\ Event(t) = Event(s)
                                 /\ f \in DOMAIN requests[t].info
    BY DEF Overwritten
  <1>2. Event(t)' = Event(t) /\ Event(s)' = Event(s)
    BY <1>1, SameNames
  <1> QED
    BY <1>1, <1>2 DEF Overwritten, Remembers

\* A saga's fields stay while nobody changes its event's.
LEMMA FieldsStay ==
  ASSUME IInv, HistoryInv, FieldsKept, Remembers, TypeOK',
         NEW s \in Sagas, <<s, "UpdateEvent">> \in applied,
         <<"info", Event(s)>> \in DOMAIN ideal \cap DOMAIN ideal' =>
            ideal'[<<"info", Event(s)>>] = ideal[<<"info", Event(s)>>],
         NEW f \in DOMAIN requests[s].info,
         <<"info", Event(s)>> \in DOMAIN ideal',
         f \in DOMAIN ideal'[<<"info", Event(s)>>]
  PROVE  /\ Event(s)' = Event(s)
         /\ \/ ideal'[<<"info", Event(s)>>][f] = requests[s].info[f]
            \/ Overwritten(s, f)'
  <1> DEFINE c == <<"info", Event(s)>>
  <1>1. Event(s)' = Event(s)
    BY SameNames
  <1>2. c \in DOMAIN ideal
    <2>1. Known(c)
      BY DEF HistoryInv, AboutKnown, NeedEvent
    <2>2. c \in DOMAIN db'
      BY DEF TypeOK
    <2> QED
      BY <2>1, <2>2 DEF Remembers, IInv, TypeOK
  <1>3. ideal[c][f] = requests[s].info[f] \/ Overwritten(s, f)
    BY <1>2 DEF FieldsKept
  <1> QED
    BY <1>1, <1>2, <1>3, StaysOverwritten

\* An update writes its fields and leaves the others alone.
LEMMA FieldsWritten ==
  ASSUME IInv, HistoryInv, FieldsKept, Remembers, TypeOK', NEW s \in Sagas, WriteBack(s)
  PROVE  FieldsKept'
  <1>1. /\ made' = made /\ requests' = requests
        /\ applied' = applied \cup {<<s, Call(s)>>}
        /\ phase[s] = "selected"
        /\ DOMAIN ideal' = DOMAIN ideal
        /\ \A c \in DOMAIN ideal :
              ideal'[c] = IF c = Cell(s) THEN Changed(s, ideal[c]) ELSE ideal[c]
    BY DEF WriteBack, Applied, Remembers
  <1>2. Call(s) \in Updates
    BY <1>1 DEF HistoryInv, OpenUpdates
  <1>3. \A t \in Sagas : Event(t)' = Event(t)
    BY <1>1 DEF Event
  <1>4. \A e : Cell(s) = <<"info", e>> <=> Call(s) = "UpdateEvent" /\ Event(s) = e
    BY <1>2 DEF Cell, CellOf, Column, Updates
  <1> SUFFICES ASSUME NEW t \in Sagas, <<t, "UpdateEvent">> \in applied',
                      <<"info", Event(t)>> \in DOMAIN ideal',
                      NEW f \in DOMAIN requests[t].info,
                      f \in DOMAIN ideal'[<<"info", Event(t)>>]
               PROVE  \/ ideal'[<<"info", Event(t)>>][f] = requests[t].info[f]
                      \/ Overwritten(t, f)'
    BY <1>1, <1>3 DEF FieldsKept
  <1> DEFINE c == <<"info", Event(t)>>
  <1>5. CASE Cell(s) # c
    <2>1. <<t, "UpdateEvent">> \in applied
      BY <1>1, <1>4, <1>5
    <2> QED
      BY <1>1, <1>5, <2>1, FieldsStay
  <1>6. CASE Cell(s) = c
    <2>1. /\ ideal'[c] = UpdateEvent(s, ideal[c])
          /\ Call(s) = "UpdateEvent" /\ Event(s) = Event(t)
      BY <1>1, <1>4, <1>6 DEF Changed
    <2>2. /\ f \in DOMAIN ideal[c]
          /\ ideal'[c][f] = IF f \in DOMAIN requests[s].info THEN requests[s].info[f]
                                                             ELSE ideal[c][f]
      BY <2>1 DEF UpdateEvent
    <2>3. CASE t = s
      BY <2>2, <2>3
    <2>4. CASE t # s /\ f \in DOMAIN requests[s].info
      BY <1>1, <1>3, <2>1, <2>4 DEF Overwritten
    <2>5. CASE t # s /\ f \notin DOMAIN requests[s].info
      <3>1. <<t, "UpdateEvent">> \in applied
        BY <1>1, <2>5
      <3>2. ideal[c][f] = requests[t].info[f] \/ Overwritten(t, f)
        BY <1>1, <2>2, <3>1 DEF FieldsKept
      <3> QED
        BY <2>2, <2>5, <3>1, <3>2, StaysOverwritten
    <2> QED
      BY <2>3, <2>4, <2>5
  <1> QED
    BY <1>5, <1>6

\* An update's fields are in its event until they are updated again.
LEMMA FieldsInvariance == Spec => []FieldsKept
  <1>1. Init => FieldsKept
    BY DEF Init, FieldsKept
  <1>2. IInv /\ HistoryInv /\ FieldsKept /\ [Next]_vars => FieldsKept'
    <2> SUFFICES ASSUME IInv, HistoryInv, FieldsKept, [Next]_vars PROVE FieldsKept'
      OBVIOUS
    <2>1. Remembers /\ TypeOK'
      BY StepRemembers, Step DEF IInv
    <2>2. ASSUME NEW s \in Sagas, WriteBack(s) PROVE FieldsKept'
      BY <2>1, <2>2, FieldsWritten
    <2>3. CASE \/ UNCHANGED vars
               \/ \E s \in Sagas :
                     \/ Select(s) \/ CreateEvent(s) \/ DeleteEvent(s) \/ GetEvent(s)
                     \/ CreateUser(s) \/ DeleteUser(s) \/ CreateEventLog(s)
                     \/ Fail(s) \/ GiveUp(s)
      <3>1. /\ \A t \in Sagas : <<t, "UpdateEvent">> \in applied'
                                  => <<t, "UpdateEvent">> \in applied
            /\ \A c \in DOMAIN ideal \cap DOMAIN ideal' : ideal'[c] = ideal[c]
        <4>1. CASE UNCHANGED vars
          BY <4>1 DEF vars
        <4>2. ASSUME NEW s \in Sagas, Select(s) \/ Fail(s) \/ GiveUp(s)
              PROVE  applied' = applied /\ ideal' = ideal
          BY <4>2 DEF Select, Fail, GiveUp, tables
        <4>3. ASSUME NEW s \in Sagas, GetEvent(s) \/ CreateEventLog(s)
              PROVE  /\ applied' = applied \cup {<<s, Call(s)>>} /\ ideal' = ideal
                     /\ Call(s) # "UpdateEvent"
          BY <4>3 DEF GetEvent, CreateEventLog, Applied, Sent, tables
        <4>4. ASSUME NEW s \in Sagas, DeleteEvent(s) \/ DeleteUser(s)
              PROVE  /\ applied' = applied \cup {<<s, Call(s)>>}
                     /\ Call(s) # "UpdateEvent"
                     /\ \A c \in DOMAIN ideal' : ideal'[c] = ideal[c]
          BY <4>4 DEF DeleteEvent, DeleteUser, DeleteRow, Delete, Applied, Sent
        <4>5. ASSUME NEW s \in Sagas, CreateEvent(s) \/ CreateUser(s)
              PROVE  /\ applied' = applied \cup {<<s, Call(s)>>}
                     /\ Call(s) # "UpdateEvent"
                     /\ \A c \in DOMAIN ideal : ideal'[c] = ideal[c]
          BY <4>5 DEF CreateEvent, CreateUser, InsertRow, Insert, Applied, Sent
        <4> QED
          BY <2>3, <4>1, <4>2, <4>3, <4>4, <4>5
      <3> SUFFICES ASSUME NEW t \in Sagas, <<t, "UpdateEvent">> \in applied'
                   PROVE  LET c == <<"info", Event(t)'>>
                              info == requests[t].info
                          IN
                          c \in DOMAIN ideal' =>
                             \A f \in DOMAIN info \cap DOMAIN ideal'[c] :
                                ideal'[c][f] = info[f] \/ Overwritten(t, f)'
        BY <2>1 DEF FieldsKept, Remembers
      <3>2. Event(t)' = Event(t) /\ <<t, "UpdateEvent">> \in applied
        BY <2>1, <3>1, SameNames
      <3> QED
        BY <2>1, <3>1, <3>2, FieldsStay
    <2> QED
      BY <2>2, <2>3 DEF Next
  <1> QED
    BY <1>1, <1>2, Invariance, HistoryInvariance, PTL DEF Spec

\* Whoever is told that a saga has succeeded can rely on its history entry, its
\* place in the host's list and its update's fields, however sagas overlap or fail.
THEOREM ConfirmedTrue == Spec => []ConfirmedIsDone
  <1>1. IInv /\ HistoryInv /\ FieldsKept => ConfirmedIsDone
    <2> SUFFICES ASSUME IInv, HistoryInv, FieldsKept, NEW s \in Sagas,
                        answer[s] = "ok", Op(s) \in DOMAIN Handlers
                 PROVE  LET hosted == <<"host_events", User(s)>>
                            c == <<"info", Event(s)>>
                            info == requests[s].info
                        IN
                        /\ \E i \in DOMAIN logs : logs[i] = LogEntry(s)
                        /\ Op(s) = "create" /\ hosted \in DOMAIN db \ raced =>
                              \/ Event(s) \in db[hosted]
                              \/ Undone("RemoveHostEvent", User(s), Event(s))
                        /\ Op(s) = "delete" /\ hosted \in DOMAIN db \ raced =>
                              \/ Event(s) \notin db[hosted]
                              \/ Undone("AddHostEvent", User(s), Event(s))
                        /\ Op(s) = "update" /\ c \in DOMAIN db \ raced =>
                              \A f \in DOMAIN info \cap DOMAIN db[c] :
                                 db[c][f] = info[f] \/ Overwritten(s, f)
      BY DEF ConfirmedIsDone
    <2> DEFINE hosted == <<"host_events", User(s)>>
               c == <<"info", Event(s)>>
    <2>1. \A k \in DOMAIN Calls(s) : <<s, Calls(s)[k]>> \in applied
      BY DEF HistoryInv, CallsMade
    <2>2. /\ <<s, "CreateEventLog">> \in applied
          /\ Op(s) = "create" => <<s, "AddHostEvent">> \in applied
          /\ Op(s) = "delete" => <<s, "RemoveHostEvent">> \in applied
          /\ Op(s) = "update" => <<s, "UpdateEvent">> \in applied
      <3> USE DEF Calls, Handlers
      <3>1. CASE Op(s) = "create"
        <4>1. 2 \in DOMAIN Calls(s) /\ 3 \in DOMAIN Calls(s)
              /\ Calls(s)[2] = "CreateEventLog" /\ Calls(s)[3] = "AddHostEvent"
          BY <3>1 DEF HandleTxCreateEvent
        <4> QED
          BY <2>1, <3>1, <4>1
      <3>2. CASE Op(s) = "delete"
        <4>1. 1 \in DOMAIN Calls(s) /\ 4 \in DOMAIN Calls(s)
              /\ Calls(s)[4] = "CreateEventLog" /\ Calls(s)[1] = "RemoveHostEvent"
          BY <3>2 DEF HandleTxDeleteEvent
        <4> QED
          BY <2>1, <3>2, <4>1
      <3>3. CASE Op(s) = "update"
        <4>1. 1 \in DOMAIN Calls(s) /\ 2 \in DOMAIN Calls(s)
              /\ Calls(s)[1] = "UpdateEvent" /\ Calls(s)[2] = "CreateEventLog"
          BY <3>3 DEF HandleTxUpdateEvent
        <4> QED
          BY <2>1, <3>3, <4>1
      <3>4. CASE Op(s) \in {"join", "leave"}
        <4>1. 2 \in DOMAIN Calls(s) /\ Calls(s)[2] = "CreateEventLog"
          BY <3>4 DEF HandleTxJoinEvent, HandleTxLeaveEvent
        <4> QED
          BY <2>1, <3>4, <4>1
      <3> QED
        BY <3>1, <3>2, <3>3, <3>4
    <2>3. \E i \in DOMAIN logs : logs[i] = LogEntry(s)
      BY <2>2 DEF HistoryInv, LogsComplete
    <2>4. \A x \in DOMAIN db \ raced : x \in DOMAIN ideal /\ db[x] = ideal[x]
      BY DEF IInv, TypeOK, LostOnlyIfOverlapping
    <2>5. Op(s) = "create" /\ hosted \in DOMAIN db \ raced =>
             Event(s) \in db[hosted] \/ Undone("RemoveHostEvent", User(s), Event(s))
      BY <2>2, <2>4
         DEF HistoryInv, Kept, Holds, Opposite, Additions, CellOf, Item, Column
    <2>6. Op(s) = "delete" /\ hosted \in DOMAIN db \ raced =>
             Event(s) \notin db[hosted] \/ Undone("AddHostEvent", User(s), Event(s))
      BY <2>2, <2>4
         DEF HistoryInv, Kept, Holds, Opposite, Additions, CellOf, Item, Column
    <2>7. Op(s) = "update" /\ c \in DOMAIN db \ raced =>
             \A f \in DOMAIN requests[s].info \cap DOMAIN db[c] :
                db[c][f] = requests[s].info[f] \/ Overwritten(s, f)
      BY <2>2, <2>4 DEF FieldsKept
    <2> QED
      BY <2>3, <2>5, <2>6, <2>7
  <1> QED
    BY <1>1, Invariance, HistoryInvariance, FieldsInvariance, PTL

=============================================================================
