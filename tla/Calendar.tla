------------------------------ MODULE Calendar ------------------------------
(***************************************************************************)
(* The calendar application: the sagas of pkg/api/v1/tx.go over the        *)
(* services user, event and event_log, whose stores are pkg/database's     *)
(* user.go, event.go and event_log.go.  A saga calls one service after the *)
(* other and answers 500 at the first error; nothing is undone.  Its calls *)
(* carry no stage context, so no participant orders them.                  *)
(*                                                                         *)
(* Every store call is one READ COMMITTED transaction.  The calls that     *)
(* change an array or merge an event read the columns, compute, and write  *)
(* them back: two steps here.  An UPDATE's row lock is held to the commit, *)
(* so UPDATE and COMMIT are one step.  A request an API client sends to a  *)
(* store is a saga of one call.                                            *)
(***************************************************************************)
EXTENDS Naturals, Sequences, FiniteSets

CONSTANTS
    Sagas,      \* names for the requests, also for repeated ones
    Workloads,  \* the requests there may be: a set of functions
                \* [Sagas -> [op, user, event, members, info]]
    InitDb,     \* the columns at the start: see db
    InitNext    \* the identity columns at the start: see next

VARIABLES
    requests,   \* the workload: chosen once
    db,         \* a function from the columns <<name, row id>> that exist
    ideal,      \* history: db, if every update were a single statement
    raced,      \* history: the columns written from an outdated read
    stale,      \* history: sagas whose column was written since they read it
    next,       \* the next identity of each table
    logs,       \* the rows of EventLogs
    at,         \* [Sagas -> Nat]: the call the saga is at
    phase,      \* [Sagas -> the state of that call]
    got,        \* [Sagas -> what the open transaction has read]
    made,       \* [Sagas -> the identity an INSERT has returned, or 0]
    answer,     \* [Sagas -> what the client has been told]
    applied     \* history: the <<saga, call>> pairs that were committed

tables == <<db, ideal, next, logs>>
race == <<raced, stale>>
vars == <<requests, db, ideal, raced, stale, next, logs, at, phase, got, made,
          answer, applied>>

\* The store calls of each saga, in their order.
HandleTxCreateEvent == <<"CreateEvent", "CreateEventLog", "AddHostEvent">>
HandleTxUpdateEvent == <<"UpdateEvent", "CreateEventLog">>
HandleTxDeleteEvent ==
    <<"RemoveHostEvent", "GetEvent", "DeleteEvent", "CreateEventLog">>
HandleTxJoinEvent == <<"AddParticipant", "CreateEventLog">>
HandleTxLeaveEvent == <<"RemoveParticipant", "CreateEventLog">>

\* By the type of their entry in the history.
Handlers ==
    [create |-> HandleTxCreateEvent, update |-> HandleTxUpdateEvent,
     delete |-> HandleTxDeleteEvent, join |-> HandleTxJoinEvent,
     leave |-> HandleTxLeaveEvent]

\* The column a read-modify-write call works on.
Column ==
    [AddHostEvent |-> "host_events", RemoveHostEvent |-> "host_events",
     UpdateEvent |-> "info",
     AddParticipant |-> "participants", RemoveParticipant |-> "participants"]

Updates == DOMAIN Column
StoreCalls == Updates \cup {"CreateUser", "DeleteUser", "DeleteEvent"}
Ops == DOMAIN Handlers \cup StoreCalls

Table(column) == IF column = "host_events" THEN "user" ELSE "event"

\* A row with this identity has been inserted, and may have been deleted.
Known(c) == c[2] \in 1 .. next[Table(c[1])] - 1

ASSUME CalendarAssumption ==
    /\ \A w \in Workloads : \A s \in Sagas : w[s].op \in Ops
    /\ InitNext \in [user : Nat \ {0}, event : Nat \ {0}]
    /\ \A c \in DOMAIN InitDb : c[2] \in 1 .. InitNext[Table(c[1])] - 1

Op(s) == requests[s].op

\* Faulty variant: the join is recorded before it is carried out.
CallsLogFirst(s) ==
    CASE Op(s) = "join" -> <<"CreateEventLog", "AddParticipant">>
      [] Op(s) \in DOMAIN Handlers \ {"join"} -> Handlers[Op(s)]
      [] OTHER -> <<Op(s)>>

Calls(s) == IF Op(s) \in DOMAIN Handlers THEN Handlers[Op(s)] ELSE <<Op(s)>>

Call(s) == Calls(s)[at[s]]

User(s) == requests[s].user

\* The event a request is about: the one it has created or the one it names.
Event(s) == IF made[s] # 0 THEN made[s] ELSE requests[s].event

EventColumns(e) == {<<"participants", e>>, <<"info", e>>}

EventExists(e) == <<"info", e>> \in DOMAIN db

\* The column a read-modify-write call of s is about; Cell: the present one.
CellOf(s, call) ==
    <<Column[call], IF Column[call] = "host_events" THEN User(s) ELSE Event(s)>>

Cell(s) == CellOf(s, Call(s))

\* What the read-modify-write calls make of the value they have read.
AddHostEvent(s, old) == old \cup {Event(s)}
RemoveHostEvent(s, old) == old \ {Event(s)}
AddParticipant(s, old) == old \cup {User(s)}
RemoveParticipant(s, old) == old \ {User(s)}

\* The fields of the request that are not empty replace the old ones.
UpdateEvent(s, old) ==
    LET info == requests[s].info IN
    [f \in DOMAIN old |-> IF f \in DOMAIN info THEN info[f] ELSE old[f]]

Changed(s, old) ==
    CASE Call(s) = "AddHostEvent" -> AddHostEvent(s, old)
      [] Call(s) = "RemoveHostEvent" -> RemoveHostEvent(s, old)
      [] Call(s) = "AddParticipant" -> AddParticipant(s, old)
      [] Call(s) = "RemoveParticipant" -> RemoveParticipant(s, old)
      [] Call(s) = "UpdateEvent" -> UpdateEvent(s, old)

\* Faulty variant: a row that is not there is inserted.
PutUpsert(f, c, v) == [x \in DOMAIN f \cup {c} |-> IF x = c THEN v ELSE f[x]]

\* UPDATE ... WHERE id = $1: without such a row nothing happens.
Put(f, c, v) == [x \in DOMAIN f |-> IF x = c THEN v ELSE f[x]]

\* INSERT and DELETE of whole rows.
Insert(f, new) ==
    [x \in DOMAIN f \cup DOMAIN new |-> IF x \in DOMAIN f THEN f[x] ELSE new[x]]
Delete(f, columns) == [x \in DOMAIN f \ columns |-> f[x]]
-----------------------------------------------------------------------------
Init ==
    /\ requests \in Workloads
    /\ db = InitDb
    /\ ideal = InitDb
    /\ raced = {}
    /\ stale = {}
    /\ next = InitNext
    /\ logs = <<>>
    /\ at = [s \in Sagas |-> 1]
    /\ phase = [s \in Sagas |-> "sent"]
    /\ got = [s \in Sagas |-> {}]
    /\ made = [s \in Sagas |-> 0]
    /\ answer = [s \in Sagas |-> "pending"]
    /\ applied = {}

Sent(s, call) == phase[s] = "sent" /\ Call(s) = call

\* The call's transaction has committed: on to the next call.
NextCall(s) ==
    /\ answer[s] = "pending"
    /\ at[s] < Len(Calls(s))
    /\ at' = [at EXCEPT ![s] = @ + 1]
    /\ phase' = [phase EXCEPT ![s] = "sent"]
    /\ UNCHANGED answer

\* It was the last call, or the saga has given up waiting for it.
LastCall(s) ==
    /\ answer[s] = "error" \/ at[s] = Len(Calls(s))
    /\ phase' = [phase EXCEPT ![s] = "over"]
    /\ answer' = [answer EXCEPT ![s] = IF @ = "pending" THEN "ok" ELSE @]
    /\ UNCHANGED at

Applied(s) ==
    /\ applied' = applied \cup {<<s, Call(s)>>}
    /\ NextCall(s) \/ LastCall(s)

\* The SELECT of a read-modify-write call finds the row.
Select(s) ==
    /\ phase[s] = "sent"
    /\ Call(s) \in Updates
    /\ Cell(s) \in DOMAIN db
    /\ got' = [got EXCEPT ![s] = db[Cell(s)]]
    /\ phase' = [phase EXCEPT ![s] = "selected"]
    /\ UNCHANGED <<tables, race, at, made, answer, applied>>

\* Faulty variant: the UPDATE sets all columns of an event, the participants
\* it has not read to none.
WriteBackAllColumns(s) ==
    LET c == <<"participants", Event(s)>>
        v == Changed(s, got[s])
    IN
    /\ phase[s] = "selected"
    /\ db' = IF Call(s) = "UpdateEvent"
             THEN Put(Put(db, Cell(s), v), c, {})
             ELSE Put(db, Cell(s), v)
    /\ ideal' = [x \in DOMAIN ideal |->
                    IF x = Cell(s) THEN Changed(s, ideal[x]) ELSE ideal[x]]
    /\ raced' = IF s \in stale THEN raced \cup {Cell(s)} ELSE raced
    /\ stale' = (stale \ {s}) \cup
          {t \in Sagas \ {s} : phase[t] = "selected" /\ Cell(t) = Cell(s)}
    /\ got' = [got EXCEPT ![s] = {}]
    /\ Applied(s)
    /\ UNCHANGED <<next, logs, made>>

\* Its UPDATE and COMMIT.  Everyone else who has read the column is outdated.
WriteBack(s) ==
    /\ phase[s] = "selected"
    /\ db' = Put(db, Cell(s), Changed(s, got[s]))
    /\ ideal' = [c \in DOMAIN ideal |->
                    IF c = Cell(s) THEN Changed(s, ideal[c]) ELSE ideal[c]]
    /\ raced' = IF s \in stale THEN raced \cup {Cell(s)} ELSE raced
    /\ stale' = (stale \ {s}) \cup
          {t \in Sagas \ {s} : phase[t] = "selected" /\ Cell(t) = Cell(s)}
    /\ got' = [got EXCEPT ![s] = {}]
    /\ Applied(s)
    /\ UNCHANGED <<next, logs, made>>

\* Faulty variant: the identity column does not move.
InsertRowSameId(s, table, row) ==
    /\ db' = Insert(db, row)
    /\ ideal' = Insert(ideal, row)
    /\ made' = [made EXCEPT ![s] = next[table]]
    /\ Applied(s)
    /\ UNCHANGED <<race, next, logs, got>>

InsertRow(s, table, row) ==
    /\ db' = Insert(db, row)
    /\ ideal' = Insert(ideal, row)
    /\ made' = [made EXCEPT ![s] = next[table]]
    /\ next' = [next EXCEPT ![table] = @ + 1]
    /\ Applied(s)
    /\ UNCHANGED <<race, logs, got>>

NewEvent(s) ==
    [c \in EventColumns(next.event) |->
        IF c[1] = "participants" THEN requests[s].members ELSE requests[s].info]

CreateEvent(s) ==
    /\ Sent(s, "CreateEvent")
    /\ InsertRow(s, "event", NewEvent(s))

CreateUser(s) ==
    /\ Sent(s, "CreateUser")
    /\ InsertRow(s, "user",
          [c \in {<<"host_events", next.user>>} |-> requests[s].members])

DeleteRow(s, columns) ==
    /\ db' = Delete(db, columns)
    /\ ideal' = Delete(ideal, columns)
    /\ Applied(s)
    /\ UNCHANGED <<race, next, logs, got, made>>

\* A DELETE that finds no row is no error.
DeleteEvent(s) ==
    /\ Sent(s, "DeleteEvent")
    /\ DeleteRow(s, EventColumns(Event(s)))

DeleteUser(s) ==
    /\ Sent(s, "DeleteUser")
    /\ DeleteRow(s, {<<"host_events", User(s)>>})

GetEvent(s) ==
    /\ Sent(s, "GetEvent")
    /\ EventExists(Event(s))
    /\ Applied(s)
    /\ UNCHANGED <<tables, race, got, made>>

LogEntry(s) == [event |-> Event(s), user |-> User(s), type |-> Op(s)]

CreateEventLog(s) ==
    /\ Sent(s, "CreateEventLog")
    /\ logs' = Append(logs, LogEntry(s))
    /\ Applied(s)
    /\ UNCHANGED <<db, ideal, race, next, got, made>>

\* Faulty variant: the saga does not return at an error.
FailGoesOn(s) ==
    /\ phase[s] # "over"
    /\ NextCall(s) \/ LastCall(s)
    /\ stale' = stale \ {s}
    /\ got' = [got EXCEPT ![s] = {}]
    /\ UNCHANGED <<tables, raced, made, applied>>

\* No row for a SELECT, a failing statement, commit or service: the
\* transaction is rolled back and the saga answers 500.
Fail(s) ==
    /\ phase[s] # "over"
    /\ phase' = [phase EXCEPT ![s] = "over"]
    /\ answer' = [answer EXCEPT ![s] = "error"]
    /\ stale' = stale \ {s}
    /\ got' = [got EXCEPT ![s] = {}]
    /\ UNCHANGED <<tables, raced, at, made, applied>>

\* The saga's client times out and the saga answers 500; the call may still
\* be carried out.  A lost response is this step followed by the commit.
GiveUp(s) ==
    /\ phase[s] # "over"
    /\ answer[s] = "pending"
    /\ answer' = [answer EXCEPT ![s] = "error"]
    /\ UNCHANGED <<tables, race, at, phase, got, made, applied>>

Next ==
    /\ \E s \in Sagas :
          \/ Select(s) \/ WriteBack(s)
          \/ CreateEvent(s) \/ DeleteEvent(s) \/ GetEvent(s)
          \/ CreateUser(s) \/ DeleteUser(s)
          \/ CreateEventLog(s)
          \/ Fail(s) \/ GiveUp(s)
    /\ UNCHANGED requests

Spec == Init /\ [][Next]_vars
-----------------------------------------------------------------------------
\* The control state of every saga; the rows that exist have been inserted.
TypeOK ==
    /\ DOMAIN db = DOMAIN ideal
    /\ \A c \in DOMAIN db : Known(c)
    /\ next \in [user : Nat \ {0}, event : Nat \ {0}]
    /\ at \in [Sagas -> Nat \ {0}]
    /\ \A s \in Sagas : at[s] <= Len(Calls(s))
    /\ phase \in [Sagas -> {"sent", "selected", "over"}]
    /\ DOMAIN got = Sagas
    /\ made \in [Sagas -> Nat]
    /\ answer \in [Sagas -> {"pending", "ok", "error"}]

\* The read-modify-write updates of user.go and event.go lose nothing as long
\* as no two on the same column overlap: every column has then the value the
\* committed updates give one after the other.  Joining an event and updating
\* its description never cost each other.
LostOnlyIfOverlapping ==
    \A c \in DOMAIN db \ raced : db[c] = ideal[c]

\* An open transaction whose column nobody has written since holds its value.
ReadsAreCurrent ==
    \A s \in Sagas : phase[s] = "selected" =>
        /\ Known(Cell(s))
        /\ s \notin stale /\ Cell(s) \in DOMAIN db => got[s] = db[Cell(s)]

\* The inductive invariant of CalendarProofs: it is why LostOnlyIfOverlapping
\* holds for every set of requests.
IInv == TypeOK /\ ReadsAreCurrent /\ LostOnlyIfOverlapping

\* A call of this kind about this user and event has been committed.
Undone(call, u, e) ==
    \E s \in Sagas : /\ <<s, call>> \in applied
                     /\ User(s) = u
                     /\ Event(s) = e

\* The history in EventLogs is never ahead of the services: an entry is there
\* only if its event was created, a deleted event is gone, and who joined (or
\* left) is (or is not) a participant unless that was undone, the event is
\* gone or an overlapping update was lost.
LogsTellTheTruth ==
    \A i \in DOMAIN logs :
        LET u == logs[i].user
            e == logs[i].event
            c == <<"participants", e>>
            type == logs[i].type
        IN
        /\ e < next.event
        /\ type = "delete" => ~EventExists(e)
        /\ type = "join" /\ c \in DOMAIN db \ raced =>
              u \in db[c] \/ Undone("RemoveParticipant", u, e)
        /\ type = "leave" /\ c \in DOMAIN db \ raced =>
              u \notin db[c] \/ Undone("AddParticipant", u, e)

\* Another update of the same field of the same event has been committed.
Overwritten(s, field) ==
    \E t \in Sagas \ {s} : /\ <<t, "UpdateEvent">> \in applied
                           /\ Event(t) = Event(s)
                           /\ field \in DOMAIN requests[t].info

\* A saga that answers success has done its work in the services, although it is
\* no transaction.  It is in the history (where LogsTellTheTruth says what a join
\* or leave has done).  The created event is in its host's list and the deleted one
\* is not, unless that was undone; an updated event has every new field, unless the
\* same field was updated again; always unless the row is gone or an overlapping
\* update was lost.
ConfirmedIsDone ==
    \A s \in Sagas : answer[s] = "ok" /\ Op(s) \in DOMAIN Handlers =>
        LET hosted == <<"host_events", User(s)>>
            c == <<"info", Event(s)>>
            info == requests[s].info
        IN
        /\ \E i \in DOMAIN logs : logs[i] = LogEntry(s)
        /\ Op(s) = "create" /\ hosted \in DOMAIN db \ raced =>
              Event(s) \in db[hosted] \/ Undone("RemoveHostEvent", User(s), Event(s))
        /\ Op(s) = "delete" /\ hosted \in DOMAIN db \ raced =>
              Event(s) \notin db[hosted] \/ Undone("AddHostEvent", User(s), Event(s))
        /\ Op(s) = "update" /\ c \in DOMAIN db \ raced =>
              \A f \in DOMAIN info \cap DOMAIN db[c] :
                  db[c][f] = info[f] \/ Overwritten(s, f)

\* A deleted event or user never comes back, although updates that read it
\* before the DELETE are still to be written.
DeletedStaysDeleted ==
    [][\A c \in DOMAIN db' : Known(c) => c \in DOMAIN db]_vars

\* Everyone whose join was confirmed and who has not left is a participant, as
\* tx_test.go (187, 197) expects of the saga.
JoinsKept ==
    \A s \in Sagas :
        LET c == <<"participants", Event(s)>> IN
        /\ answer[s] = "ok"
        /\ Op(s) = "join"
        /\ c \in DOMAIN db
        => \/ User(s) \in db[c]
           \/ Undone("RemoveParticipant", User(s), Event(s))
-----------------------------------------------------------------------------
(* The inductive invariant behind LogsTellTheTruth and ConfirmedIsDone     *)

\* A saga has carried out every call it has passed, and one that answers
\* success all of them.
CallsMade ==
    \A s \in Sagas : \A k \in DOMAIN Calls(s) :
        k < at[s] \/ answer[s] = "ok" => <<s, Calls(s)[k]>> \in applied

\* Whatever was carried out is behind its saga.
AppliedPassed ==
    \A x \in applied : x[1] \in Sagas /\ (at[x[1]] > 1 \/ phase[x[1]] = "over")

\* Only a read-modify-write call has an open transaction between two steps.
OpenUpdates == \A s \in Sagas : phase[s] = "selected" => Call(s) \in Updates

\* The calls that succeed only for an event that has been created.
NeedEvent ==
    {"CreateEvent", "GetEvent", "UpdateEvent", "AddParticipant", "RemoveParticipant"}

AboutKnown ==
    \A s \in Sagas : \A call \in NeedEvent :
        <<s, call>> \in applied => Known(<<"info", Event(s)>>)

\* The calls that add to an array or remove from one, and who undoes whom.
Additions == {"AddParticipant", "AddHostEvent"}
Opposite ==
    [AddParticipant |-> "RemoveParticipant", RemoveParticipant |-> "AddParticipant",
     AddHostEvent |-> "RemoveHostEvent", RemoveHostEvent |-> "AddHostEvent"]

Item(s, call) == IF Column[call] = "host_events" THEN Event(s) ELSE User(s)

\* What was added is there and what was removed is not, unless it was undone.
Holds(s, call) ==
    /\ Known(CellOf(s, call))
    /\ CellOf(s, call) \in DOMAIN ideal =>
          \/ Item(s, call) \in ideal[CellOf(s, call)] <=> call \in Additions
          \/ Undone(Opposite[call], User(s), Event(s))

Kept ==
    \A s \in Sagas : \A call \in DOMAIN Opposite :
        <<s, call>> \in applied => Holds(s, call)

\* The fields of an update are in the event, unless they were updated again.
FieldsKept ==
    \A s \in Sagas : <<s, "UpdateEvent">> \in applied =>
        LET c == <<"info", Event(s)>>
            info == requests[s].info
        IN
        c \in DOMAIN ideal =>
            \A f \in DOMAIN info \cap DOMAIN ideal[c] :
                ideal[c][f] = info[f] \/ Overwritten(s, f)

\* The event of a deleting saga is gone for good.
DeletedGone ==
    \A s \in Sagas :
        Op(s) = "delete" /\ <<s, "DeleteEvent">> \in applied =>
            Known(<<"info", Event(s)>>) /\ ~EventExists(Event(s))

\* The call that does what a saga's entry in the history says.
Reported ==
    [create |-> "CreateEvent", update |-> "UpdateEvent", delete |-> "DeleteEvent",
     join |-> "AddParticipant", leave |-> "RemoveParticipant"]

\* Every entry is that of a saga which has done what the entry says, ...
LogsBacked ==
    \A i \in DOMAIN logs : \E s \in Sagas :
        /\ logs[i] = LogEntry(s)
        /\ Op(s) \in DOMAIN Handlers
        /\ <<s, Reported[Op(s)]>> \in applied

\* ... and a saga that has written its entry finds it.
LogsComplete ==
    /\ logs \in Seq([event : Nat \cup {requests[s].event : s \in Sagas},
                     user : {User(s) : s \in Sagas},
                     type : DOMAIN Handlers])
    /\ \A s \in Sagas :
          <<s, "CreateEventLog">> \in applied =>
              \E i \in DOMAIN logs : logs[i] = LogEntry(s)

HistoryInv ==
    /\ requests \in Workloads
    /\ CallsMade
    /\ AppliedPassed
    /\ OpenUpdates
    /\ AboutKnown
    /\ Kept
    /\ DeletedGone
    /\ LogsBacked
    /\ LogsComplete
=============================================================================
