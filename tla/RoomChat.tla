---------------------------- MODULE RoomChat ----------------------------
(***************************************************************************)
(* Who is in which room: the room_id of the sessions, by which messages go *)
(* to a room and by which the chat tells who may speak, against the        *)
(* members of the room in the database.  The room requests of dispatcher.c *)
(* and the chat of friends_service.c write the session a request came in   *)
(* on, or the one session_manager_get_by_user_id finds first, or both.     *)
(* After a disconnect these are not the same (see Sessions): the session   *)
(* of the old connection keeps its slot, before or after the new one.      *)
(*                                                                         *)
(* The 1vN engine (OneVN) is reduced to the status of the room it sets;    *)
(* friends_service.c only looks up and forwards an invitation, and its     *)
(* acceptance is JOIN_ROOM.                                                *)
(***************************************************************************)
EXTENDS ChatRates

CONSTANTS
  MaxPlayers,  \* 32, the members handle_start_game reads
  MaxSlots     \* bound of the model: connections ever made

ASSUME RoomChatAssumption ==
  MaxPlayers \in Nat /\ MaxSlots \in Nat /\ 0 \notin Users

VARIABLES
  seat,        \* the sessions, by slot
  room,        \* rows of room and room_members
  stray        \* history: sessions still in a room from which a request has deleted
               \* the row of their user

roomVars == <<seat, room, stray>>
vars == <<seat, room, stray, rateVars>>

NoUser == 0
NoRoom == 0
Slots == 1..MaxSlots

\* "dead": the connection is gone or its token has expired, the session stays.
Seat == [state : {"new", "open", "dead"}, user : Users \cup {NoUser},
         room : Rooms \cup {NoRoom}]

NoSeat == [state |-> "new", user |-> NoUser, room |-> NoRoom]
OpenSeat == [state |-> "open", user |-> NoUser, room |-> NoRoom]

Statuses == {"NONE", "WAITING", "IN_PROGRESS", "FINISHED", "DELETED"}
Existing == {"WAITING", "IN_PROGRESS", "FINISHED"}

Room == [status : Statuses, owner : Users \cup {NoUser}, members : SUBSET Users]

NoRoomYet == [status |-> "NONE", owner |-> NoUser, members |-> {}]

-----------------------------------------------------------------------------
(* session_manager.c *)

\* session_manager_get_by_user_id: the first slot of the user, dead or alive.
IsFirstSeat(seats, i, u) ==
  seats[i].user = u /\ \A j \in Slots : seats[j].user = u => i <= j

\* session_manager_update_status, and session_manager_set_room on what the
\* look-up finds: the room of the first session of each of the users.
FirstSeatsIn(seats, users, r) ==
  [i \in Slots |-> IF \E u \in users : IsFirstSeat(seats, i, u)
                   THEN [seats[i] EXCEPT !.room = r] ELSE seats[i]]

SeatIn(i, r) == [seat EXCEPT ![i].room = r]

\* A request that carries a valid token.
LoggedIn(i) == seat[i].state = "open" /\ seat[i].user # NoUser

-----------------------------------------------------------------------------
(* Connections *)

\* A connection is made, in the first free slot, and the user logs in; or he does
\* on the connection of somebody who has logged out.  OneActiveToken of Sessions
\* keeps him from being logged in twice.  A login over another one, which the
\* client's screens do not offer, is left to Sessions.
Login(i, u) ==
  /\ \A j \in Slots : seat[j].user = u => seat[j].state = "dead"
  /\ seat[i].state # "dead" /\ seat[i].user = NoUser
  /\ seat[i].state = "new" => \A j \in 1..(i - 1) : seat[j].state # "new"
  /\ seat' = FirstSeatsIn([seat EXCEPT ![i].state = "open", ![i].user = u], {u}, NoRoom)
  /\ UNCHANGED <<room, stray, rateVars>>

Logout(i) ==
  /\ LoggedIn(i)
  /\ seat' = [FirstSeatsIn(seat, {seat[i].user}, NoRoom)
                EXCEPT ![i] = OpenSeat]
  /\ stray' = stray \ {i}
  /\ UNCHANGED <<room, rateVars>>

\* The end of a connection, or of its token, leaves user and room in its session.
Disconnected(i) ==
  /\ seat[i].state = "open"
  /\ seat' = [seat EXCEPT ![i].state = "dead"]
  /\ stray' = stray \ {i}
  /\ UNCHANGED <<room, rateVars>>

\* The server starts again: no sessions, and the windows of the chat are gone.
Restart ==
  /\ seat' = [i \in Slots |-> NoSeat]
  /\ stray' = {}
  /\ rates' = [i \in Entries |-> NoEntry]
  /\ evicted' = evicted \cup ({rates[i].key : i \in Entries} \ {NoKey})
  /\ UNCHANGED <<room, now, sent>>

-----------------------------------------------------------------------------
(* Room requests *)

\* CREATE_ROOM.  When the row of the owner cannot be written the client is
\* refused, but the room is there.
CreateRoom(i, r) ==
  /\ LoggedIn(i)
  /\ room[r].status = "NONE"
  /\ \/ /\ room' = [room EXCEPT ![r] = [status |-> "WAITING", owner |-> seat[i].user,
                                        members |-> {seat[i].user}]]
        /\ seat' = SeatIn(i, r)
        /\ stray' = stray \ {i}
     \/ /\ room' = [room EXCEPT ![r] = [status |-> "WAITING", owner |-> seat[i].user,
                                        members |-> {}]]
        /\ UNCHANGED <<seat, stray>>
  /\ UNCHANGED rateVars

\* Seeded fault: a room that is gone may be joined.
JoinAnyRoom(i, r) ==
  /\ LoggedIn(i)
  /\ room' = IF room[r].status \in Existing
             THEN [room EXCEPT ![r].members = @ \cup {seat[i].user}] ELSE room
  /\ seat' = FirstSeatsIn(SeatIn(i, r), {seat[i].user}, r)
  /\ stray' = stray \ {i}
  /\ UNCHANGED rateVars

\* JOIN_ROOM, whatever the state of the room, if there is one.
JoinRoom(i, r) ==
  /\ LoggedIn(i)
  /\ room[r].status \in Existing
  /\ room' = [room EXCEPT ![r].members = @ \cup {seat[i].user}]
  /\ seat' = FirstSeatsIn(SeatIn(i, r), {seat[i].user}, r)
  /\ stray' = stray \ {i}
  /\ UNCHANGED rateVars

\* LEAVE_ROOM while the room is IN_PROGRESS: the member row stays.
LeaveDuringGame(i, r) ==
  /\ LoggedIn(i)
  /\ room[r].status = "IN_PROGRESS"
  /\ seat' = FirstSeatsIn(SeatIn(i, NoRoom), {seat[i].user}, NoRoom)
  /\ stray' = stray \ {i}
  /\ UNCHANGED <<room, rateVars>>

Owns(i, r) == room[r].status = "WAITING" /\ room[r].owner = seat[i].user

\* LEAVE_ROOM of the owner of a WAITING room deletes the rows of the members and
\* then the room.  The sessions of the members keep its number; when the second
\* statement fails all of them do, in a room that is still there.
CloseRoom(i, r) ==
  /\ LoggedIn(i)
  /\ Owns(i, r)
  /\ \/ /\ room' = [room EXCEPT ![r] = [NoRoomYet EXCEPT !.status = "DELETED"]]
        /\ seat' = FirstSeatsIn(seat, {seat[i].user}, NoRoom)
        /\ UNCHANGED stray
     \/ /\ room' = [room EXCEPT ![r].members = {}]
        /\ stray' = stray \cup {j \in Slots : LoggedIn(j) /\ seat[j].room = r}
        /\ UNCHANGED seat
  /\ UNCHANGED rateVars

\* Seeded fault: the member row is deleted, and the sessions are left alone.
LeaveRowOnly(i, r) ==
  /\ LoggedIn(i)
  /\ room[r].status # "IN_PROGRESS" /\ ~Owns(i, r)
  /\ room' = [room EXCEPT ![r].members = @ \ {seat[i].user}]
  /\ UNCHANGED <<seat, stray, rateVars>>

\* Any other LEAVE_ROOM, of a room that is gone or that the user was never in, too.
\* A session that is not the one found for its user stays in the room.
LeaveRoom(i, r) ==
  /\ LoggedIn(i)
  /\ room[r].status # "IN_PROGRESS" /\ ~Owns(i, r)
  /\ room' = [room EXCEPT ![r].members = @ \ {seat[i].user}]
  /\ seat' = FirstSeatsIn(seat, {seat[i].user}, NoRoom)
  /\ stray' = IF ~IsFirstSeat(seat, i, seat[i].user) /\ seat[i].room = r
              THEN stray \cup {i} ELSE stray
  /\ UNCHANGED rateVars

\* handle_start_game of the owner puts the first session of every player into
\* the room, unless the game is given up (a full table).  The players are
\* the members, or as many of them as are read.  A second start is refused
\* while a game is on (OneVN).
StartGame(i, r) ==
  /\ LoggedIn(i)
  /\ room[r].status \in {"WAITING", "FINISHED"}
  /\ room[r].owner = seat[i].user
  /\ room' = [room EXCEPT ![r].status = "IN_PROGRESS"]
  /\ \E players \in SUBSET room[r].members :
       /\ players = room[r].members \/ Cardinality(players) = MaxPlayers
       /\ Cardinality(players) \in 2..MaxPlayers
       /\ \/ /\ seat' = FirstSeatsIn(seat, players, r)
             /\ stray' = {j \in stray : ~\E u \in players : IsFirstSeat(seat, j, u)}
          \/ UNCHANGED <<seat, stray>>
  /\ UNCHANGED rateVars

\* end_game
EndGame(r) ==
  /\ room[r].status = "IN_PROGRESS"
  /\ room' = [room EXCEPT ![r].status = "FINISHED"]
  /\ UNCHANGED <<seat, stray, rateVars>>

\* handle_send_room_chat, for the room of the session and while it is WAITING;
\* a refused message changes nothing.
SendRoomChat(i, r) ==
  /\ LoggedIn(i)
  /\ seat[i].room = r
  /\ room[r].status = "WAITING"
  /\ Allowed(<<seat[i].user, r>>)
  /\ UNCHANGED roomVars

ClockTicks == SecondPasses /\ UNCHANGED roomVars

-----------------------------------------------------------------------------
Init ==
  /\ RatesInit
  /\ seat = [i \in Slots |-> NoSeat]
  /\ room = [r \in Rooms |-> NoRoomYet]
  /\ stray = {}

Request(i) ==
  \/ Logout(i)
  \/ \E r \in Rooms : \/ CreateRoom(i, r) \/ JoinRoom(i, r) \/ LeaveDuringGame(i, r)
                      \/ CloseRoom(i, r) \/ LeaveRoom(i, r) \/ StartGame(i, r)
                      \/ SendRoomChat(i, r)

Next ==
  \/ \E i \in Slots : \/ Request(i) \/ Disconnected(i)
                      \/ \E u \in Users : Login(i, u)
  \/ \E r \in Rooms : EndGame(r)
  \/ ClockTicks
  \/ Restart

Spec == Init /\ [][Next]_vars

-----------------------------------------------------------------------------
(* Properties *)

TypeOK == /\ seat \in [Slots -> Seat]
          /\ room \in [Rooms -> Room]
          /\ stray \subseteq Slots

\* One account, one device, here by the guard of Login.
OneOpenSeat ==
  \A i, j \in Slots : LoggedIn(i) /\ LoggedIn(j) /\ seat[i].user = seat[j].user => i = j

\* Sessions hold numbers of rooms that have been created, and none without a user.
RoomsWereMade ==
  \A i \in Slots : seat[i].room # NoRoom =>
    room[seat[i].room].status # "NONE" /\ seat[i].user # NoUser

\* Who hears a room, and may speak in it, is a member: dispatcher.c writes rows
\* and sessions so that they agree whatever rooms are joined, left, started and
\* deleted in between, from whichever of a user's sessions.  Two requests break
\* this, until the session is given a room again: a deletion that fails half way,
\* and a leave on a session that is not the one found for its user.
ListenersAreMembers ==
  \A i \in Slots \ stray :
    LoggedIn(i) /\ seat[i].room # NoRoom =>
      LET r == seat[i].room
      IN  room[r].status \in Existing => seat[i].user \in room[r].members

\* Sessions and rooms are in order: the inductive invariant of the proofs, on
\* what dispatcher.c writes.
SeatsInv == TypeOK /\ OneOpenSeat /\ RoomsWereMade /\ ListenersAreMembers

=============================================================================
