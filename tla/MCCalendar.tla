----------------------------- MODULE MCCalendar -----------------------------
(***************************************************************************)
(* Instances of Calendar for TLC: user 1 hosts event 1, user 2 takes part. *)
(***************************************************************************)
EXTENDS Calendar, TLC

Blank == [name |-> "old", location |-> "old"]
NoInfo == [f \in {} |-> "old"]

OneEvent ==
       <<"host_events", 1>> :> {1}
    @@ <<"host_events", 2>> :> {}
    @@ <<"participants", 1>> :> {2}
    @@ <<"info", 1>> :> Blank

TwoUsersOneEvent == [user |-> 3, event |-> 2]

Request(op, user, event, info) ==
    [op |-> op, user |-> user, event |-> event, members |-> {}, info |-> info]

\* A user joins, another one leaves, the event gets a new name and, in another
\* request, a still newer one and a new location, and is deleted.
MemberRequests ==
    <<Request("join", 3, 1, NoInfo),
      Request("leave", 2, 1, NoInfo),
      Request("update", 1, 1, [name |-> "new"]),
      Request("UpdateEvent", 1, 1, [name |-> "newest", location |-> "new"]),
      Request("DeleteEvent", 0, 1, NoInfo)>>

\* The host creates an event and deletes the first one while a user joins it;
\* a user is created and the host is deleted.
HostRequests ==
    <<Request("create", 1, 0, Blank),
      Request("delete", 1, 1, NoInfo),
      Request("AddParticipant", 3, 1, NoInfo),
      Request("DeleteUser", 1, 0, NoInfo),
      Request("CreateUser", 0, 0, NoInfo)>>

FiveSagas == 1 .. 5
MemberOrHostRequests == {MemberRequests, HostRequests}

\* Two users join the event.
TwoSagas == 1 .. 2
TwoJoins ==
    {<<Request("join", 3, 1, NoInfo), Request("join", 4, 1, NoInfo)>>}

=============================================================================
