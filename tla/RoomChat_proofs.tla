------------------------- MODULE RoomChat_proofs -------------------------
(***************************************************************************)
(* Proofs about RoomChat for every number of users, rooms, sessions and    *)
(* windows: sessions and rooms stay in agreement, the table of the rate    *)
(* limiter stays in order, and its windows agree with what was sent second *)
(* by second (HistoryInv), from which follow the two promises of the       *)
(* limiter: how much gets through, and who is refused.                     *)
(***************************************************************************)
EXTENDS RoomChat, SumsAndQueues, TLAPS

-----------------------------------------------------------------------------
(* The sessions the look-up finds *)

\* A user has one first session at most.
LEMMA FirstSeatUnique ==
  ASSUME NEW seats, NEW i \in Slots, NEW j \in Slots, NEW u,
         IsFirstSeat(seats, i, u), IsFirstSeat(seats, j, u)
  PROVE  i = j
  BY RoomChatAssumption DEF IsFirstSeat, Slots

\* Writing the rooms of first sessions keeps the sessions well-formed.
LEMMA FirstSeatsTyped ==
  ASSUME NEW seats \in [Slots -> Seat], NEW users, NEW r \in Rooms \cup {NoRoom}
  PROVE  FirstSeatsIn(seats, users, r) \in [Slots -> Seat]
  BY DEF FirstSeatsIn, Seat

\* It changes rooms only, and gives the others no room.
LEMMA FirstSeatsKeep ==
  ASSUME NEW seats \in [Slots -> Seat], NEW users, NEW r \in Rooms \cup {NoRoom},
         NEW i \in Slots
  PROVE  /\ FirstSeatsIn(seats, users, r)[i].user = seats[i].user
         /\ FirstSeatsIn(seats, users, r)[i].state = seats[i].state
         /\ FirstSeatsIn(seats, users, r)[i].room =
              IF seats[i].user \in users /\ IsFirstSeat(seats, i, seats[i].user)
              THEN r ELSE seats[i].room
<1>1. (\E u \in users : IsFirstSeat(seats, i, u)) <=>
        seats[i].user \in users /\ IsFirstSeat(seats, i, seats[i].user)
  BY DEF IsFirstSeat
<1> QED
  BY <1>1 DEF FirstSeatsIn, Seat

-----------------------------------------------------------------------------
(* Requests about rooms leave users and connections alone *)

SameUsers == \A j \in Slots : seat'[j].user = seat[j].user /\ seat'[j].state = seat[j].state

\* What is said of sessions alone is then kept.
LEMMA SameUsersKeep ==
  ASSUME SeatsInv, SameUsers
  PROVE  OneOpenSeat' /\ \A j \in Slots : LoggedIn(j)' <=> LoggedIn(j)
BY DEF SeatsInv, OneOpenSeat, SameUsers, LoggedIn

\* The room of one session.
LEMMA SeatInKeeps ==
  ASSUME seat \in [Slots -> Seat], NEW i \in Slots, NEW r \in Rooms \cup {NoRoom}
  PROVE  /\ SeatIn(i, r) \in [Slots -> Seat]
         /\ \A j \in Slots : /\ SeatIn(i, r)[j].user = seat[j].user
                             /\ SeatIn(i, r)[j].state = seat[j].state
                             /\ SeatIn(i, r)[j].room = IF j = i THEN r ELSE seat[j].room
BY DEF SeatIn, Seat

\* A session hears its room by leave of its user's row, in the step as before it.
Hears(j, q) ==
  \/ seat[j].user \in room'[q].members
  \/ /\ j \notin stray
     /\ seat[j].room = q /\ room[q].status \in Existing
     /\ seat[j].user \in room[q].members => seat[j].user \in room'[q].members

\* What a request has to respect: it puts sessions with a user into one room r at
\* most, which exists by then; rooms that were made stay made; and a session that is
\* no stray is in a room by leave of the new row, or stays where it was while the row
\* keeps the user.
LEMMA RequestKeeps ==
  ASSUME SeatsInv, SameUsers, TypeOK',
         NEW r \in Rooms \cup {NoRoom},
         r # NoRoom => room'[r].status # "NONE",
         \A q \in Rooms : room[q].status # "NONE" => room'[q].status # "NONE",
         \A j \in Slots : \/ seat'[j].room = seat[j].room
                          \/ seat'[j].room = r /\ (r # NoRoom => seat[j].user # NoUser),
         \A j \in Slots, q \in Rooms :
           LoggedIn(j) /\ j \notin stray' /\ seat'[j].room = q /\ room'[q].status \in Existing
             => Hears(j, q)
  PROVE  SeatsInv'
<1>1. /\ TypeOK /\ RoomsWereMade /\ ListenersAreMembers
      /\ \A j \in Slots : seat[j].room \in Rooms \cup {NoRoom}
      /\ \A j \in Slots : seat'[j].room \in Rooms \cup {NoRoom}
  BY DEF SeatsInv, TypeOK, Seat
<1>2. RoomsWereMade'
  <2> SUFFICES ASSUME NEW j \in Slots, seat'[j].room # NoRoom
               PROVE  room'[seat'[j].room].status # "NONE" /\ seat'[j].user # NoUser
    BY DEF RoomsWereMade
  <2>1. seat'[j].user = seat[j].user
    BY DEF SameUsers
  <2>2. CASE seat'[j].room = seat[j].room
    BY <1>1, <2>1, <2>2 DEF RoomsWereMade
  <2>3. CASE seat'[j].room = r /\ (r # NoRoom => seat[j].user # NoUser)
    BY <2>1, <2>3
  <2> QED
    BY <2>2, <2>3
<1>3. ListenersAreMembers'
  <2> SUFFICES ASSUME NEW j \in Slots, j \notin stray', LoggedIn(j)',
                      seat'[j].room # NoRoom, room'[seat'[j].room].status \in Existing
               PROVE  seat'[j].user \in room'[seat'[j].room].members
    BY DEF ListenersAreMembers
  <2>1. LoggedIn(j) /\ seat'[j].user = seat[j].user
    BY SameUsersKeep DEF SameUsers
  <2>2. PICK q \in Rooms : q = seat'[j].room /\ q # NoRoom
    BY <1>1
  <2>3. Hears(j, q)
    BY <2>1, <2>2
  <2>4. CASE seat[j].user \in room'[q].members
    BY <2>1, <2>2, <2>4
  <2>5. CASE /\ j \notin stray
             /\ seat[j].room = q /\ room[q].status \in Existing
             /\ seat[j].user \in room[q].members => seat[j].user \in room'[q].members
    <3>1. seat[j].user \in room[q].members
      BY <1>1, <2>1, <2>2, <2>5 DEF ListenersAreMembers
    <3> QED
      BY <2>1, <2>2, <2>5, <3>1
  <2> QED
    BY <2>3, <2>4, <2>5 DEF Hears
<1> QED
  BY <1>2, <1>3, SameUsersKeep DEF SeatsInv

-----------------------------------------------------------------------------
(* The requests about rooms *)

\* CREATE_ROOM puts the session it came on into a room nobody has been in, with or
\* without a row for the owner.
LEMMA CreateRoomKeeps ==
  ASSUME SeatsInv, NEW i \in Slots, NEW r \in Rooms, CreateRoom(i, r)
  PROVE  SeatsInv'
<1>1. PICK members \in SUBSET Users :
        /\ TypeOK /\ LoggedIn(i) /\ seat[i].user \in Users /\ seat[i].user # NoUser
        /\ room[r].status = "NONE"
        /\ room' = [room EXCEPT ![r] = [status |-> "WAITING", owner |-> seat[i].user,
                                        members |-> members]]
        /\ \/ seat' = SeatIn(i, r) /\ seat[i].user \in members /\ stray' = stray \ {i}
           \/ seat' = seat /\ stray' = stray
  BY DEF CreateRoom, LoggedIn, SeatsInv, TypeOK, Seat
<1>2. /\ seat' \in [Slots -> Seat] /\ SameUsers
      /\ stray' \subseteq stray /\ stray \subseteq stray' \cup {i}
      /\ \A j \in Slots : j # i => seat'[j].room = seat[j].room
      /\ \/ seat'[i].room = r /\ seat[i].user \in members
         \/ seat'[i].room = seat[i].room /\ stray' = stray
  BY <1>1, SeatInKeeps DEF TypeOK, SameUsers
<1>3. TypeOK'
  BY <1>1, <1>2 DEF TypeOK, Room, Statuses
<1>4. /\ room'[r] = [status |-> "WAITING", owner |-> seat[i].user, members |-> members]
      /\ \A q \in Rooms : q # r => room'[q] = room[q]
  BY <1>1 DEF TypeOK
<1>5. \A j \in Slots : seat[j].room # r
  BY <1>1, RatesAssumption DEF SeatsInv, RoomsWereMade, NoRoom
<1>6. ASSUME NEW j \in Slots, NEW q \in Rooms, j \notin stray', seat'[j].room = q,
             room'[q].status \in Existing
      PROVE  Hears(j, q)
  BY <1>2, <1>4, <1>5, <1>6 DEF Hears
<1>7. \A j \in Slots : \/ seat'[j].room = seat[j].room
                       \/ seat'[j].room = r /\ seat[j].user # NoUser
  BY <1>1, <1>2
<1>8. \A q \in Rooms : room[q].status # "NONE" => room'[q].status # "NONE"
  BY <1>4
<1> QED
  BY <1>2, <1>3, <1>4, <1>6, <1>7, <1>8, RequestKeeps

\* JOIN_ROOM writes a row for the user and puts his one live session into the room.
LEMMA JoinRoomKeeps ==
  ASSUME SeatsInv, NEW i \in Slots, NEW r \in Rooms, JoinRoom(i, r)
  PROVE  SeatsInv'
<1>1. PICK u \in Users :
        /\ TypeOK /\ u = seat[i].user /\ u # NoUser /\ LoggedIn(i)
        /\ room[r].status \in Existing
        /\ room' = [room EXCEPT ![r].members = @ \cup {u}]
        /\ seat' = FirstSeatsIn(SeatIn(i, r), {u}, r)
        /\ stray' = stray \ {i}
  BY DEF JoinRoom, LoggedIn, SeatsInv, TypeOK, Seat
<1>2. /\ SeatIn(i, r) \in [Slots -> Seat]
      /\ \A j \in Slots : /\ SeatIn(i, r)[j].user = seat[j].user
                          /\ SeatIn(i, r)[j].state = seat[j].state
                          /\ SeatIn(i, r)[j].room = IF j = i THEN r ELSE seat[j].room
  BY <1>1, SeatInKeeps DEF TypeOK
<1>3. /\ seat' \in [Slots -> Seat]
      /\ \A j \in Slots : /\ seat'[j].user = seat[j].user
                          /\ seat'[j].state = seat[j].state
                          /\ \/ seat'[j].room = seat[j].room /\ j # i
                             \/ seat'[j].room = r /\ seat[j].user = u
  BY <1>1, <1>2, FirstSeatsTyped, FirstSeatsKeep
<1> SameUsers
  BY <1>3 DEF SameUsers
<1>4. /\ room' \in [Rooms -> Room]
      /\ \A q \in Rooms : /\ room'[q].status = room[q].status
                          /\ room[q].members \subseteq room'[q].members
      /\ u \in room'[r].members
  BY <1>1 DEF TypeOK, Room
<1>5. TypeOK'
  BY <1>1, <1>3, <1>4 DEF TypeOK
<1>6. room'[r].status # "NONE"
  BY <1>1, <1>4 DEF Existing
<1>7. ASSUME NEW j \in Slots, NEW q \in Rooms, j \notin stray',
             seat'[j].room = q, room'[q].status \in Existing
      PROVE  Hears(j, q)
  <2>1. CASE seat'[j].room = r /\ seat[j].user = u
    BY <1>4, <1>7, <2>1 DEF Hears
  <2>2. CASE seat'[j].room = seat[j].room /\ j # i
    BY <1>1, <1>4, <1>7, <2>2 DEF Hears
  <2> QED
    BY <1>3, <2>1, <2>2
<1>8. \A j \in Slots : \/ seat'[j].room = seat[j].room
                       \/ seat'[j].room = r /\ (r # NoRoom => seat[j].user # NoUser)
  BY <1>1, <1>3
<1> QED
  BY <1>4, <1>5, <1>6, <1>7, <1>8, RequestKeeps

\* LEAVE_ROOM puts sessions of the user into no room, and takes no row but his: a
\* live session of his that is still in the room is a stray.
LEMMA LeavingKeeps ==
  ASSUME SeatsInv, TypeOK', NEW u \in Users,
         \A j \in Slots : /\ seat'[j].user = seat[j].user
                          /\ seat'[j].state = seat[j].state
                          /\ seat'[j].room \in {NoRoom, seat[j].room}
                          /\ j \in stray => j \in stray' \/ seat'[j].room = NoRoom,
         \A q \in Rooms : /\ room[q].status # "NONE" => room'[q].status # "NONE"
                          /\ room'[q].status \in Existing =>
                               /\ room[q].status \in Existing
                               /\ room[q].members \ {u} \subseteq room'[q].members,
         \A j \in Slots, q \in Rooms :
           LoggedIn(j) /\ seat[j].user = u /\ seat'[j].room = q
             => j \in stray' \/ room'[q].members = room[q].members
                \/ room'[q].status \notin Existing
  PROVE  SeatsInv'
<1> SameUsers
  BY DEF SameUsers
<1>1. NoRoom \notin Rooms
  BY RatesAssumption DEF NoRoom
<1>2. ASSUME NEW j \in Slots, NEW q \in Rooms, LoggedIn(j), j \notin stray',
             seat'[j].room = q, room'[q].status \in Existing
      PROVE  Hears(j, q)
  <2>1. seat[j].room = q /\ room[q].status \in Existing /\ j \notin stray
    BY <1>1, <1>2
  <2>2. CASE seat[j].user = u
    BY <1>2, <2>1, <2>2 DEF Hears
  <2>3. CASE seat[j].user # u
    BY <1>2, <2>1, <2>3 DEF Hears
  <2> QED
    BY <2>2, <2>3
<1>3. \A j \in Slots : seat'[j].room = seat[j].room \/ seat'[j].room = NoRoom
  OBVIOUS
<1> QED
  BY <1>2, <1>3, RequestKeeps

\* LEAVE_ROOM while the room is IN_PROGRESS.
LEMMA LeaveDuringGameKeeps ==
  ASSUME SeatsInv, NEW i \in Slots, NEW r \in Rooms, LeaveDuringGame(i, r)
  PROVE  SeatsInv'
<1>1. PICK u \in Users : /\ u = seat[i].user /\ TypeOK
                         /\ stray' = stray \ {i} /\ room' = room
  BY DEF LeaveDuringGame, LoggedIn, SeatsInv, TypeOK, Seat
<1>2. PICK base \in [Slots -> Seat] :
        /\ base = SeatIn(i, NoRoom)
        /\ \A j \in Slots : /\ base[j].user = seat[j].user
                            /\ base[j].state = seat[j].state
                            /\ base[j].room = IF j = i THEN NoRoom ELSE seat[j].room
  BY <1>1, SeatInKeeps DEF TypeOK
<1>3. seat' = FirstSeatsIn(base, {u}, NoRoom)
  BY <1>1, <1>2 DEF LeaveDuringGame
<1>4. /\ seat' \in [Slots -> Seat]
      /\ \A j \in Slots : /\ seat'[j].user = base[j].user
                          /\ seat'[j].state = base[j].state
                          /\ seat'[j].room \in {NoRoom, base[j].room}
  BY <1>3, FirstSeatsTyped, FirstSeatsKeep
<1>5. TypeOK'
  BY <1>1, <1>4 DEF TypeOK
<1>6. \A j \in Slots : /\ seat'[j].user = seat[j].user
                       /\ seat'[j].state = seat[j].state
                       /\ seat'[j].room \in {NoRoom, seat[j].room}
                       /\ j \in stray => j \in stray' \/ seat'[j].room = NoRoom
  BY <1>1, <1>2, <1>4
<1> QED
  BY <1>1, <1>5, <1>6, LeavingKeeps

\* LEAVE_ROOM of the owner of a room that has not been started: the room is gone, or
\* has lost its members, and whoever still hears it is a stray.
LEMMA CloseRoomKeeps ==
  ASSUME SeatsInv, NEW i \in Slots, NEW r \in Rooms, CloseRoom(i, r)
  PROVE  SeatsInv'
<1>1. PICK u \in Users : u = seat[i].user /\ TypeOK /\ LoggedIn(i)
  BY DEF CloseRoom, LoggedIn, SeatsInv, TypeOK, Seat
<1>2. CASE /\ room' = [room EXCEPT ![r] = [NoRoomYet EXCEPT !.status = "DELETED"]]
           /\ seat' = FirstSeatsIn(seat, {u}, NoRoom)
           /\ stray' = stray
  <2>1. /\ seat' \in [Slots -> Seat]
        /\ \A j \in Slots : /\ seat'[j].user = seat[j].user
                            /\ seat'[j].state = seat[j].state
                            /\ seat'[j].room \in {NoRoom, seat[j].room}
    BY <1>1, <1>2, FirstSeatsTyped, FirstSeatsKeep DEF TypeOK
  <2>2. /\ TypeOK'
        /\ room'[r].status = "DELETED"
        /\ \A q \in Rooms : q # r => room'[q] = room[q]
    BY <1>1, <1>2, <2>1 DEF TypeOK, NoRoomYet, Room, Statuses, NoUser
  <2>3. \A q \in Rooms : /\ room[q].status # "NONE" => room'[q].status # "NONE"
                         /\ room'[q].status \in Existing =>
                              /\ room[q].status \in Existing
                              /\ room[q].members \ {u} \subseteq room'[q].members
                              /\ room'[q].members = room[q].members
    BY <2>2 DEF Existing
  <2> QED
    BY <1>2, <2>1, <2>2, <2>3, LeavingKeeps
<1>3. CASE /\ room' = [room EXCEPT ![r].members = {}]
           /\ stray' = stray \cup {j \in Slots : LoggedIn(j) /\ seat[j].room = r}
           /\ seat' = seat
  <2>1. /\ TypeOK'
        /\ \A q \in Rooms : /\ room'[q].status = room[q].status
                            /\ q # r => room'[q] = room[q]
    BY <1>1, <1>3 DEF TypeOK, Room
  <2>2. SameUsers
    BY <1>3 DEF SameUsers
  <2>3. ASSUME NEW j \in Slots, NEW q \in Rooms, LoggedIn(j), j \notin stray',
               seat'[j].room = q, room'[q].status \in Existing
        PROVE  Hears(j, q)
    BY <1>3, <2>1, <2>3 DEF Hears
  <2>4. \A j \in Slots : seat'[j].room = seat[j].room
    BY <1>3
  <2>5. NoRoom \in Rooms \cup {NoRoom}
    OBVIOUS
  <2> QED
    BY <2>1, <2>2, <2>3, <2>4, <2>5, RequestKeeps
<1> QED
  BY <1>1, <1>2, <1>3 DEF CloseRoom

\* Any other LEAVE_ROOM: the first session of the user is in no room, and the one the
\* request came on, if another, is a stray.
LEMMA LeaveRoomKeeps ==
  ASSUME SeatsInv, NEW i \in Slots, NEW r \in Rooms, LeaveRoom(i, r)
  PROVE  SeatsInv'
<1>1. PICK u \in Users : /\ u = seat[i].user /\ TypeOK /\ LoggedIn(i)
                         /\ room' = [room EXCEPT ![r].members = @ \ {u}]
                         /\ seat' = FirstSeatsIn(seat, {u}, NoRoom)
  BY DEF LeaveRoom, LoggedIn, SeatsInv, TypeOK, Seat
<1>2. /\ stray \subseteq stray' /\ stray' \subseteq Slots
      /\ ~IsFirstSeat(seat, i, u) /\ seat[i].room = r => i \in stray'
  BY <1>1 DEF LeaveRoom, TypeOK
<1>3. /\ seat' \in [Slots -> Seat]
      /\ \A j \in Slots : /\ seat'[j].user = seat[j].user
                          /\ seat'[j].state = seat[j].state
                          /\ seat'[j].room \in {NoRoom, seat[j].room}
      /\ seat'[i].room = IF IsFirstSeat(seat, i, u) THEN NoRoom ELSE seat[i].room
  BY <1>1, FirstSeatsTyped, FirstSeatsKeep DEF TypeOK
<1>4. /\ TypeOK'
      /\ \A q \in Rooms : /\ room'[q].status = room[q].status
                          /\ room[q].members \ {u} \subseteq room'[q].members
                          /\ q # r => room'[q].members = room[q].members
  BY <1>1, <1>2, <1>3 DEF TypeOK, Room
<1>5. ASSUME NEW j \in Slots, NEW q \in Rooms,
             LoggedIn(j), seat[j].user = u, seat'[j].room = q
      PROVE  j \in stray' \/ room'[q].members = room[q].members
  <2>1. j = i
    BY <1>1, <1>5 DEF SeatsInv, OneOpenSeat
  <2>2. ~IsFirstSeat(seat, i, u) /\ seat[i].room = q
    BY <1>3, <1>5, <2>1, RatesAssumption DEF NoRoom
  <2> QED
    BY <1>2, <1>4, <2>1, <2>2
<1>6. \A j \in Slots : /\ seat'[j].user = seat[j].user
                       /\ seat'[j].state = seat[j].state
                       /\ seat'[j].room \in {NoRoom, seat[j].room}
                       /\ j \in stray => j \in stray' \/ seat'[j].room = NoRoom
  BY <1>2, <1>3
<1> QED
  BY <1>4, <1>5, <1>6, LeavingKeeps

\* START_GAME puts the first sessions of members into the room, or of nobody.
LEMMA StartGameKeeps ==
  ASSUME SeatsInv, NEW i \in Slots, NEW r \in Rooms, StartGame(i, r)
  PROVE  SeatsInv'
<1>1. PICK players \in SUBSET room[r].members :
        /\ TypeOK
        /\ room[r].status \in {"WAITING", "FINISHED"}
        /\ room' = [room EXCEPT ![r].status = "IN_PROGRESS"]
        /\ \/ /\ seat' = FirstSeatsIn(seat, players, r)
              /\ stray' = {j \in stray : ~\E u \in players : IsFirstSeat(seat, j, u)}
           \/ UNCHANGED <<seat, stray>>
  BY DEF StartGame, SeatsInv
<1>2. /\ room' \in [Rooms -> Room]
      /\ room'[r].status = "IN_PROGRESS"
      /\ room[r].members \subseteq Users
      /\ \A q \in Rooms : /\ q # r => room'[q].status = room[q].status
                          /\ room'[q].members = room[q].members
  BY <1>1 DEF TypeOK, Room, Statuses
<1>3. /\ seat' \in [Slots -> Seat] /\ stray' \subseteq stray
      /\ \A j \in Slots : /\ seat'[j].user = seat[j].user
                          /\ seat'[j].state = seat[j].state
                          /\ \/ /\ seat'[j].room = seat[j].room
                                /\ j \in stray => j \in stray'
                             \/ seat'[j].room = r /\ seat[j].user \in room[r].members
  <2>1. CASE UNCHANGED <<seat, stray>>
    BY <1>1, <2>1 DEF TypeOK
  <2>2. CASE /\ seat' = FirstSeatsIn(seat, players, r)
             /\ stray' = {j \in stray : ~\E u \in players : IsFirstSeat(seat, j, u)}
    <3>1. seat \in [Slots -> Seat] /\ r \in Rooms \cup {NoRoom}
      BY <1>1 DEF TypeOK
    <3>2. /\ seat' \in [Slots -> Seat]
          /\ \A j \in Slots : /\ seat'[j].user = seat[j].user
                              /\ seat'[j].state = seat[j].state
                              /\ seat'[j].room =
                                   IF seat[j].user \in players
                                      /\ IsFirstSeat(seat, j, seat[j].user)
                                   THEN r ELSE seat[j].room
      BY <2>2, <3>1, FirstSeatsTyped, FirstSeatsKeep
    <3>3. \A j \in stray : j \notin stray' =>
            seat[j].user \in players /\ IsFirstSeat(seat, j, seat[j].user)
      BY <2>2 DEF IsFirstSeat
    <3> QED
      BY <1>1, <2>2, <3>2, <3>3
  <2> QED
    BY <1>1, <2>1, <2>2
<1>4. SameUsers /\ TypeOK'
  BY <1>1, <1>2, <1>3 DEF SameUsers, TypeOK
<1>5. ASSUME NEW j \in Slots, NEW q \in Rooms, j \notin stray',
             seat'[j].room = q, room'[q].status \in Existing
      PROVE  Hears(j, q)
  <2>1. CASE seat'[j].room = r /\ seat[j].user \in room[r].members
    BY <1>2, <1>5, <2>1 DEF Hears
  <2>2. CASE seat'[j].room = seat[j].room /\ (j \in stray => j \in stray')
    BY <1>1, <1>2, <1>5, <2>2 DEF Hears, Existing
  <2> QED
    BY <1>3, <2>1, <2>2
<1>6. \A q \in Rooms : room[q].status # "NONE" => room'[q].status # "NONE"
  BY <1>2
<1>7. \A j \in Slots : \/ seat'[j].room = seat[j].room
                       \/ seat'[j].room = r /\ seat[j].user # NoUser
  BY <1>2, <1>3, RoomChatAssumption DEF NoUser
<1> QED
  BY <1>2, <1>4, <1>5, <1>6, <1>7, RequestKeeps

-----------------------------------------------------------------------------
(* Connections: no session is put into a room, and no row is written *)

\* What such a step has to respect: who speaks for a user after it did so before, in
\* that room, or is in no room.
LEMMA ConnectionKeeps ==
  ASSUME SeatsInv, seat' \in [Slots -> Seat], UNCHANGED room, OneOpenSeat',
         stray' \subseteq Slots,
         \A j \in Slots :
           /\ seat'[j].room \in {NoRoom, seat[j].room}
           /\ seat'[j].room # NoRoom =>
                /\ seat'[j].user = seat[j].user
                /\ LoggedIn(j)' => LoggedIn(j) /\ (j \in stray => j \in stray')
  PROVE  SeatsInv'
<1>1. TypeOK'
  BY DEF SeatsInv, TypeOK
<1>2. RoomsWereMade'
  <2> SUFFICES ASSUME NEW j \in Slots, seat'[j].room # NoRoom
               PROVE  room'[seat'[j].room].status # "NONE" /\ seat'[j].user # NoUser
    BY DEF RoomsWereMade
  <2> QED
    BY DEF SeatsInv, RoomsWereMade
<1>3. ListenersAreMembers'
  <2> SUFFICES ASSUME NEW j \in Slots, j \notin stray', LoggedIn(j)',
                      seat'[j].room # NoRoom, room'[seat'[j].room].status \in Existing
               PROVE  seat'[j].user \in room'[seat'[j].room].members
    BY DEF ListenersAreMembers
  <2> QED
    BY DEF SeatsInv, ListenersAreMembers
<1> QED
  BY <1>1, <1>2, <1>3 DEF SeatsInv

\* LOGIN takes the first session of the user out of its room; a session without a
\* user was in none.
LEMMA LoginKeeps ==
  ASSUME SeatsInv, NEW i \in Slots, NEW u \in Users, Login(i, u)
  PROVE  SeatsInv'
<1>1. /\ TypeOK /\ room' = room /\ stray' = stray
      /\ seat[i].user = NoUser /\ seat[i].room = NoRoom
      /\ u # NoUser
      /\ \A j \in Slots : seat[j].user = u => seat[j].state = "dead"
  BY RoomChatAssumption DEF Login, SeatsInv, RoomsWereMade, NoUser
<1>2. PICK base \in [Slots -> Seat] :
        /\ seat' = FirstSeatsIn(base, {u}, NoRoom)
        /\ base[i].user = u
        /\ \A j \in Slots : /\ base[j].room = seat[j].room
                            /\ j # i => base[j] = seat[j]
  <2> DEFINE mine == [seat[i] EXCEPT !.state = "open", !.user = u]
             made == [seat EXCEPT ![i] = mine]
  <2>1. seat \in [Slots -> Seat] /\ seat[i] \in Seat
    BY <1>1 DEF TypeOK
  <2>2. mine \in Seat /\ mine.user = u /\ mine.room = seat[i].room
    BY <2>1 DEF Seat
  <2>3. seat' = FirstSeatsIn(made, {u}, NoRoom)
    BY <2>1 DEF Login
  <2> HIDE DEF mine
  <2>4. /\ made \in [Slots -> Seat] /\ made[i].user = u
        /\ \A j \in Slots : /\ made[j].room = seat[j].room
                            /\ j # i => made[j] = seat[j]
    BY <2>1, <2>2
  <2> HIDE DEF made
  <2> QED
    BY <2>3, <2>4
<1>3. /\ seat' \in [Slots -> Seat]
      /\ \A j \in Slots : /\ seat'[j].user = base[j].user
                          /\ seat'[j].state = base[j].state
                          /\ seat'[j].room \in {NoRoom, seat[j].room}
  BY <1>2, FirstSeatsTyped, FirstSeatsKeep
<1>4. OneOpenSeat'
  <2> SUFFICES ASSUME NEW j \in Slots, NEW k \in Slots, LoggedIn(j)', LoggedIn(k)',
                      seat'[j].user = seat'[k].user
               PROVE  j = k
    BY DEF OneOpenSeat
  <2>1. \A m \in Slots : m # i => /\ seat'[m].user = seat[m].user
                                 /\ seat'[m].state = seat[m].state
    BY <1>2, <1>3
  <2>2. seat'[i].user = u
    BY <1>2, <1>3
  <2>3. \A m \in {j, k} : m # i => LoggedIn(m) /\ seat[m].user # u
    BY <1>1, <2>1 DEF LoggedIn
  <2> QED
    BY <2>1, <2>2, <2>3 DEF SeatsInv, OneOpenSeat
<1>5. \A j \in Slots : seat'[j].room # NoRoom =>
        /\ seat'[j].user = seat[j].user
        /\ LoggedIn(j)' => LoggedIn(j)
  BY <1>1, <1>2, <1>3 DEF LoggedIn
<1> QED
  BY <1>1, <1>3, <1>4, <1>5, ConnectionKeeps DEF TypeOK

\* LOGOUT leaves no live session of the user.
LEMMA LogoutKeeps ==
  ASSUME SeatsInv, NEW i \in Slots, Logout(i)
  PROVE  SeatsInv'
<1>1. PICK u \in Users : /\ TypeOK /\ room' = room /\ stray' = stray \ {i}
                         /\ u = seat[i].user /\ LoggedIn(i)
  BY DEF Logout, LoggedIn, SeatsInv, TypeOK, Seat
<1>2. PICK base \in [Slots -> Seat] :
        /\ base = FirstSeatsIn(seat, {u}, NoRoom)
        /\ \A j \in Slots : /\ base[j].user = seat[j].user
                            /\ base[j].state = seat[j].state
                            /\ base[j].room \in {NoRoom, seat[j].room}
  BY <1>1, FirstSeatsTyped, FirstSeatsKeep DEF TypeOK
<1>3. seat' = [base EXCEPT ![i] = OpenSeat]
  BY <1>1, <1>2 DEF Logout
<1>4. /\ seat' \in [Slots -> Seat]
      /\ seat'[i].user = NoUser /\ seat'[i].room = NoRoom
      /\ \A j \in Slots : /\ seat'[j].room \in {NoRoom, seat[j].room}
                          /\ j # i => seat'[j].user = seat[j].user
                                      /\ seat'[j].state = seat[j].state
  <2>1. /\ OpenSeat \in Seat
        /\ OpenSeat.user = NoUser /\ OpenSeat.room = NoRoom
    BY DEF Seat, OpenSeat
  <2> QED
    BY <1>2, <1>3, <2>1
<1>5. OneOpenSeat'
  BY <1>4 DEF SeatsInv, OneOpenSeat, LoggedIn
<1>6. \A j \in Slots : seat'[j].room # NoRoom =>
        /\ seat'[j].user = seat[j].user
        /\ LoggedIn(j)' => LoggedIn(j) /\ (j \in stray => j \in stray')
  BY <1>1, <1>4 DEF LoggedIn
<1> QED
  BY <1>1, <1>4, <1>5, <1>6, ConnectionKeeps DEF TypeOK

\* The end of a connection.
LEMMA DisconnectedKeeps ==
  ASSUME SeatsInv, NEW i \in Slots, Disconnected(i)
  PROVE  SeatsInv'
<1>1. /\ room' = room /\ stray' = stray \ {i} /\ stray' \subseteq Slots
      /\ seat' \in [Slots -> Seat]
      /\ \A j \in Slots : /\ seat'[j].user = seat[j].user
                          /\ seat'[j].room = seat[j].room
                          /\ seat'[j].state = IF j = i THEN "dead" ELSE seat[j].state
  BY DEF Disconnected, SeatsInv, TypeOK, Seat
<1>2. OneOpenSeat'
  BY <1>1 DEF SeatsInv, OneOpenSeat, LoggedIn
<1>3. \A j \in Slots : LoggedIn(j)' => LoggedIn(j) /\ (j \in stray => j \in stray')
  BY <1>1 DEF LoggedIn
<1> QED
  BY <1>1, <1>2, <1>3, ConnectionKeeps

\* A restart of the server.
LEMMA RestartKeeps ==
  ASSUME SeatsInv, Restart
  PROVE  SeatsInv'
<1>1. /\ room' = room /\ stray' = {}
      /\ seat' \in [Slots -> Seat]
      /\ \A j \in Slots : seat'[j] = NoSeat
  BY DEF Restart, NoSeat, Seat
<1>2. \A j \in Slots : ~LoggedIn(j)' /\ seat'[j].room = NoRoom
  BY <1>1 DEF LoggedIn, NoSeat
<1>3. OneOpenSeat'
  BY <1>2 DEF OneOpenSeat
<1> QED
  BY <1>1, <1>2, <1>3, ConnectionKeeps

-----------------------------------------------------------------------------
(* The rate limiter *)

\* A message that is let through keeps the table in order.
LEMMA AllowedKeeps ==
  ASSUME RatesInv, NEW k \in Keys, Allowed(k)
  PROVE  RatesInv'
<1>1. /\ now \in Nat /\ now \in Times /\ now' = now
      /\ rates \in [Entries -> Entry] /\ evicted \subseteq Keys
      /\ 0 \in 0..Limit /\ 1 \in 0..Limit
      /\ \A n \in 0..Limit : n < Limit => n + 1 \in 0..Limit
  BY RatesAssumption DEF RatesInv, RatesTypeOK, Allowed, Times
<1>2. PICK i \in Entries, e \in Entry :
        /\ rates' = [rates EXCEPT ![i] = e]
        /\ e.key = k /\ e.start <= now
        /\ \A j \in Entries : rates[j].key = k => j = i
        /\ evicted' \subseteq Keys
  <2>1. CASE WindowOpens(k)
    <3> DEFINE opened == [key |-> k, start |-> now, count |-> 1]
    <3>1. opened \in Entry /\ opened.key = k /\ opened.start = now
      BY <1>1 DEF Entry
    <3>2. PICK e \in Entry : e = opened /\ e.key = k /\ e.start = now
      BY <3>1
    <3>3. PICK i \in Entries :
            /\ rates' = [rates EXCEPT ![i] = e]
            /\ evicted' = evicted \cup ({rates[i].key} \ {NoKey})
      BY <2>1, <3>2 DEF WindowOpens
    <3>4. \A j \in Entries : rates[j].key # k
      BY <2>1 DEF WindowOpens, Matches
    <3>5. evicted' \subseteq Keys
      BY <1>1, <3>3 DEF Entry
    <3>6. e.start <= now
      BY <1>1, <3>2
    <3> QED
      BY <3>2, <3>3, <3>4, <3>5, <3>6
  <2>2. CASE MessageCounted(k)
    <3>1. PICK i \in Entries :
            /\ rates[i].key = k
            /\ Current(rates[i]).count < Limit
            /\ rates' = [rates EXCEPT ![i] = [Current(rates[i]) EXCEPT !.count = @ + 1]]
            /\ evicted' = evicted
      BY <2>2 DEF MessageCounted, Matches
    <3>2. /\ rates[i] \in Entry /\ rates[i].start <= now
          /\ [rates[i] EXCEPT !.start = now, !.count = 0] \in Entry
      BY <1>1 DEF RatesInv, WindowsHaveBegun, Entry
    <3>3. PICK c \in Entry : c = Current(rates[i])
      BY <3>2 DEF Current
    <3>4. c.key = k /\ c.start <= now /\ c.count < Limit
      <4>1. c.start = now \/ c.start = rates[i].start
        BY <3>2, <3>3 DEF Current, Entry
      <4>2. c.key = k
        BY <3>1, <3>2, <3>3 DEF Current, Entry
      <4> QED
        BY <1>1, <3>1, <3>2, <3>3, <4>1, <4>2
    <3> DEFINE counted == [c EXCEPT !.count = @ + 1]
    <3>5. /\ counted \in Entry /\ counted.key = k /\ counted.start = c.start
      BY <1>1, <3>3, <3>4 DEF Entry
    <3>6. PICK e \in Entry : e = counted /\ e.key = k /\ e.start <= now
      BY <3>4, <3>5
    <3>7. \A j \in Entries : rates[j].key = k => j = i
      BY <3>1, RatesAssumption DEF RatesInv, OneWindowEach, Keys, NoKey
    <3> QED
      BY <1>1, <3>1, <3>3, <3>7, <3>6
  <2> QED
    BY <2>1, <2>2 DEF Allowed
<1>3. RatesTypeOK'
  BY <1>1, <1>2 DEF RatesTypeOK
<1>4. \A j \in Entries : rates'[j] = IF j = i THEN e ELSE rates[j]
  BY <1>1, <1>2
<1>5. OneWindowEach'
  BY <1>2, <1>4 DEF RatesInv, OneWindowEach
<1>6. WindowsHaveBegun'
  BY <1>1, <1>2, <1>4 DEF RatesInv, WindowsHaveBegun
<1> QED
  BY <1>3, <1>5, <1>6 DEF RatesInv

\* A second passes.
LEMMA SecondKeeps ==
  ASSUME RatesInv, SecondPasses
  PROVE  RatesInv'
<1>1. /\ now' = now + 1 /\ now' \in Times /\ now \in Nat
      /\ rates' = rates /\ evicted' = evicted
      /\ \A i \in Entries : rates[i].start \in Nat
  BY RatesAssumption DEF SecondPasses, RatesInv, RatesTypeOK, Times, Entry
<1> QED
  BY <1>1 DEF RatesInv, RatesTypeOK, OneWindowEach, WindowsHaveBegun

\* A restart empties the table.
LEMMA RestartRates ==
  ASSUME RatesInv, Restart
  PROVE  RatesInv'
<1>1. NoEntry \in Entry /\ NoEntry.start = 0 /\ NoEntry.key = NoKey
  BY RatesAssumption DEF NoEntry, Entry, Times
<1>2. /\ rates' \in [Entries -> Entry] /\ now' = now
      /\ \A i \in Entries : rates'[i] = NoEntry
  BY <1>1 DEF Restart
<1>3. evicted' \subseteq Keys
  BY DEF Restart, RatesInv, RatesTypeOK, Entry
<1>4. now \in Nat
  BY RatesAssumption DEF RatesInv, RatesTypeOK, Times
<1> QED
  BY <1>1, <1>2, <1>3, <1>4 DEF RatesInv, RatesTypeOK, OneWindowEach, WindowsHaveBegun

-----------------------------------------------------------------------------
(* What a window says about the messages let through.  s is what a user sent *)
(* into a room, by the second; e the entry of the window.                    *)

Since(t) == {x \in Times : x >= t}

\* The messages since the window opened are counted, one of them is the first;
\* before it were fewer than the limit, and none came after its end.
WindowBounds(s, e) ==
  /\ SumFunctionOnSet(s, Since(e.start)) <= e.count
  /\ SumFunctionOnSet(s, Since(e.start + 1)) <= e.count - 1
  /\ SumFunctionOnSet(s, Times \ Since(e.start)) <= Limit - 1
  /\ \A t \in Since(e.start + Window) : s[t] = 0

\* While it lasts, what the window counts was sent in it.
WindowEarned(s, e, n) ==
  n - e.start < Window => e.count <= SumFunctionOnSet(s, Since(e.start))

\* The history of the messages, with one more at second n (see Allowed).
OneMore(s, n) == [s EXCEPT ![n] = IF @ < 2 * Limit THEN @ + 1 ELSE @]

LEMMA SumsOfTimes ==
  ASSUME NEW s \in [Times -> Nat], NEW T \in SUBSET Times
  PROVE  /\ IsFiniteSet(T) /\ IsFiniteSet(Times) /\ \A t \in T : s[t] \in Nat
         /\ SumFunctionOnSet(s, T) \in Nat
         /\ SumFunctionOnSet(s, Times)
              = SumFunctionOnSet(s, T) + SumFunctionOnSet(s, Times \ T)
<1>1. IsFiniteSet(Times)
  BY RatesAssumption, FS_Interval DEF Times
<1>2. IsFiniteSet(T)
  BY <1>1, FS_Subset
<1> QED  BY <1>1, <1>2, SumType, SumOfParts

\* The larger set of seconds has the larger sum.
LEMMA SumOfMoreTimes ==
  ASSUME NEW s \in [Times -> Nat], NEW T \in SUBSET Times, NEW U \in SUBSET T
  PROVE  SumFunctionOnSet(s, U) <= SumFunctionOnSet(s, T)
<1>1. IsFiniteSet(T) /\ T \ U \in SUBSET Times
  BY SumsOfTimes
<1>2. SumFunctionOnSet(s, T) = SumFunctionOnSet(s, U) + SumFunctionOnSet(s, T \ U)
  BY <1>1, SumOfParts
<1>3. SumFunctionOnSet(s, U) \in Nat /\ SumFunctionOnSet(s, T \ U) \in Nat
  BY <1>1, SumsOfTimes
<1> QED  BY <1>2, <1>3

LEMMA OneMoreSent ==
  ASSUME NEW s \in [Times -> Nat], NEW n \in Times, NEW T \in SUBSET Times
  PROVE  /\ OneMore(s, n) \in [Times -> Nat]
         /\ OneMore(s, n)[n] > 0
         /\ \A t \in Times : t # n => OneMore(s, n)[t] = s[t]
         /\ SumFunctionOnSet(OneMore(s, n), T)
              = SumFunctionOnSet(s, T) + (IF n \in T /\ s[n] < 2 * Limit THEN 1 ELSE 0)
<1> DEFINE e == IF s[n] < 2 * Limit THEN 1 ELSE 0
           g == OneMore(s, n)
<1>1. s[n] \in Nat /\ Limit \in Nat \ {0}
  BY RatesAssumption
<1>2. e \in Nat /\ \A t \in Times : g[t] = IF t = n THEN s[t] + e ELSE s[t]
  BY <1>1 DEF OneMore
<1>3. g \in [Times -> Nat] /\ g[n] > 0
  BY <1>1 DEF OneMore
<1> HIDE DEF g, e
<1>4. SumFunctionOnSet(g, T) = SumFunctionOnSet(s, T) + (IF n \in T THEN e ELSE 0)
  <2>1. IsFiniteSet(T) /\ \A t \in T : s[t] \in Nat /\ g[t] = IF t = n THEN s[t] + e ELSE s[t]
    BY <1>2, SumsOfTimes
  <2> QED  BY <1>2, <2>1, SumWithMore
<1>5. SumFunctionOnSet(s, T) \in Nat
  BY SumsOfTimes
<1> QED  BY <1>2, <1>3, <1>4, <1>5 DEF g, e

LEMMA NothingSent ==
  ASSUME NEW s \in [Times -> Nat], NEW T \in SUBSET Times, \A t \in T : s[t] = 0
  PROVE  SumFunctionOnSet(s, T) = 0
BY SumsOfTimes, SumOfZeros

\* A message counted in a window that lasts.
LEMMA CountedInWindow ==
  ASSUME NEW s \in [Times -> Nat], NEW n \in Times, \A t \in Times : t > n => s[t] = 0,
         NEW e \in Entry, e.start <= n, n - e.start < Window, e.count < Limit,
         NEW d \in Entry, d.start = e.start, d.count = e.count + 1,
         WindowEarned(s, e, n)
  PROVE  /\ WindowEarned(OneMore(s, n), d, n)
         /\ e.count >= 1 /\ WindowBounds(s, e) => WindowBounds(OneMore(s, n), d)
<1> DEFINE g == OneMore(s, n)
           S1 == Since(e.start)
           S2 == Since(e.start + 1)
<1>1. /\ n \in Nat /\ e.start \in Nat /\ e.count \in Nat /\ Limit \in Nat \ {0}
      /\ Window \in Nat \ {0} /\ s[n] \in Nat
  BY RatesAssumption DEF Times, Entry
<1>2. S1 \in SUBSET Times /\ S2 \in SUBSET Times /\ Times \ S1 \in SUBSET Times
  BY DEF Since
<1>3. n \in S1 /\ (n \in S2 <=> n > e.start)
  BY <1>1 DEF Since
<1>4. /\ SumFunctionOnSet(g, S1) = SumFunctionOnSet(s, S1) + (IF s[n] < 2 * Limit THEN 1 ELSE 0)
      /\ SumFunctionOnSet(g, S2) <= SumFunctionOnSet(s, S2) + (IF n \in S2 THEN 1 ELSE 0)
      /\ SumFunctionOnSet(g, Times \ S1) = SumFunctionOnSet(s, Times \ S1)
  <2>1. \A T \in SUBSET Times :
          /\ SumFunctionOnSet(s, T) \in Nat
          /\ SumFunctionOnSet(g, T)
               = SumFunctionOnSet(s, T) + (IF n \in T /\ s[n] < 2 * Limit THEN 1 ELSE 0)
    BY SumsOfTimes, OneMoreSent
  <2> HIDE DEF g, S1, S2
  <2> QED  BY <1>2, <1>3, <2>1
<1>5. /\ SumFunctionOnSet(s, S1) \in Nat /\ SumFunctionOnSet(s, S2) \in Nat
      /\ SumFunctionOnSet(g, S1) \in Nat /\ SumFunctionOnSet(g, S2) \in Nat
      /\ SumFunctionOnSet(g, S1) >= g[n] /\ g[n] \in Nat
  <2>1. g \in [Times -> Nat]
    BY <1>2, OneMoreSent
  <2>2. {n} \in SUBSET S1
    BY <1>3
  <2>3. SumFunctionOnSet(g, S1) = g[n] + SumFunctionOnSet(g, S1 \ {n})
    <3> HIDE DEF g, S1
    <3>1. IsFiniteSet(S1) /\ \A t \in S1 : g[t] \in Nat
      BY <1>2, <2>1, SumsOfTimes
    <3> QED  BY <1>3, <3>1, SumOfAny
  <2>4. SumFunctionOnSet(g, S1 \ {n}) \in Nat
    <3>1. S1 \ {n} \in SUBSET Times
      BY <1>2
    <3> HIDE DEF g, S1
    <3> QED  BY <2>1, <3>1, SumsOfTimes
  <2>5. g[n] \in Nat
    BY <2>1
  <2> HIDE DEF g, S1, S2
  <2>6. /\ SumFunctionOnSet(s, S1) \in Nat /\ SumFunctionOnSet(s, S2) \in Nat
        /\ SumFunctionOnSet(g, S1) \in Nat /\ SumFunctionOnSet(g, S2) \in Nat
    BY <1>2, <2>1, SumsOfTimes
  <2> QED  BY <2>3, <2>4, <2>5, <2>6
<1>6. WindowEarned(g, d, n)
  <2>1. CASE s[n] < 2 * Limit
    <3> HIDE DEF g
    <3> QED  BY <2>1, <1>1, <1>4, <1>5 DEF WindowEarned
  <2>2. CASE ~(s[n] < 2 * Limit)
    <3>1. g[n] = s[n]
      BY <2>2 DEF OneMore
    <3> HIDE DEF g
    <3> QED  BY <2>2, <3>1, <1>1, <1>5 DEF WindowEarned
  <2> QED  BY <2>1, <2>2
<1>7. ASSUME e.count >= 1, WindowBounds(s, e) PROVE WindowBounds(g, d)
  <2>1. SumFunctionOnSet(g, S1) <= d.count
    <3> HIDE DEF g
    <3> QED  BY <1>1, <1>4, <1>5, <1>7 DEF WindowBounds
  <2>2. SumFunctionOnSet(g, S2) <= d.count - 1
    <3> HIDE DEF g
    <3> QED  BY <1>1, <1>4, <1>5, <1>7 DEF WindowBounds
  <2>3. SumFunctionOnSet(g, Times \ S1) <= Limit - 1
    BY <1>4, <1>7 DEF WindowBounds
  <2>4. ASSUME NEW t \in Since(d.start + Window) PROVE g[t] = 0
    <3>1. t \in Times /\ t # n /\ s[t] = 0
      BY <1>1, <1>7, <2>4 DEF Since, WindowBounds, Times
    <3> QED  BY <3>1, OneMoreSent
  <2> HIDE DEF g
  <2> QED  BY <2>1, <2>2, <2>3, <2>4 DEF WindowBounds
<1> QED  BY <1>6, <1>7

\* The message that opens a window.
LEMMA WindowOpened ==
  ASSUME NEW s \in [Times -> Nat], NEW n \in Times, NEW e \in Entry,
         e.start = n, e.count = 1
  PROVE  /\ WindowEarned(OneMore(s, n), e, n)
         /\ (\A t \in Since(n) : s[t] = 0) /\ SumFunctionOnSet(s, Times \ Since(n)) <= Limit - 1
              => WindowBounds(OneMore(s, n), e)
<1> DEFINE g == OneMore(s, n)
           S == Since(n)
<1>1. /\ n \in Nat /\ Limit \in Nat \ {0} /\ Window \in Nat \ {0}
      /\ S \in SUBSET Times /\ Since(n + 1) \in SUBSET Times /\ n \in S /\ n \notin Since(n + 1)
  BY RatesAssumption DEF Times, Since
<1>2. g \in [Times -> Nat] /\ g[n] > 0 /\ \A t \in Times : t # n => g[t] = s[t]
  BY OneMoreSent
<1>3. SumFunctionOnSet(g, S) = SumFunctionOnSet(s, S) + (IF s[n] < 2 * Limit THEN 1 ELSE 0)
  BY <1>1, OneMoreSent
<1>4. SumFunctionOnSet(g, S) >= 1
  <2> HIDE DEF g, S
  <2>1. IsFiniteSet(S) /\ \A t \in S : g[t] \in Nat
    BY <1>1, <1>2, SumsOfTimes
  <2>2. SumFunctionOnSet(g, S) = g[n] + SumFunctionOnSet(g, S \ {n})
    BY <1>1, <2>1, SumOfAny
  <2>3. S \ {n} \in SUBSET Times
    BY <1>1
  <2>4. SumFunctionOnSet(g, S \ {n}) \in Nat
    BY <1>2, <2>3, SumsOfTimes
  <2>5. g[n] \in Nat
    BY <1>2
  <2> QED  BY <1>2, <2>2, <2>4, <2>5
<1>5. WindowEarned(g, e, n)
  <2> HIDE DEF g
  <2> QED  BY <1>4 DEF WindowEarned
<1>6. ASSUME \A t \in S : s[t] = 0, SumFunctionOnSet(s, Times \ S) <= Limit - 1
      PROVE  WindowBounds(g, e)
  <2>1. SumFunctionOnSet(s, S) = 0
    <3> HIDE DEF S
    <3> QED  BY <1>1, <1>6, NothingSent
  <2>2. SumFunctionOnSet(g, S) <= 1
    <3> HIDE DEF g, S
    <3> QED  BY <1>3, <2>1
  <2>3. SumFunctionOnSet(g, Since(n + 1)) = 0
    <3>1. \A t \in Since(n + 1) : g[t] = 0
      BY <1>1, <1>2, <1>6 DEF Since
    <3> HIDE DEF g
    <3> QED  BY <1>1, <1>2, <3>1, NothingSent
  <2>4. SumFunctionOnSet(g, Times \ S) = SumFunctionOnSet(s, Times \ S)
    <3>1. Times \ S \in SUBSET Times /\ \A t \in Times \ S : g[t] = s[t]
      BY <1>1, <1>2
    <3>2. IsFiniteSet(Times \ S) /\ \A t \in Times \ S : s[t] \in Nat
      BY <3>1, SumsOfTimes
    <3> HIDE DEF g, S
    <3> QED  BY <3>1, <3>2, SumSame
  <2>5. \A t \in Since(n + Window) : g[t] = 0
    BY <1>1, <1>2, <1>6 DEF Since
  <2> HIDE DEF g
  <2> QED  BY <1>1, <1>6, <2>2, <2>3, <2>4, <2>5 DEF WindowBounds
<1> QED  BY <1>5, <1>6

\* A window that has run out may be opened anew: what is remembered from before
\* is less than the limit.
LEMMA WindowRunOut ==
  ASSUME NEW s \in [Times -> Nat], NEW n \in Times, NEW e \in Entry,
         \A t \in Times : t <= n - Window => s[t] = 0,
         n - e.start >= Window, WindowBounds(s, e)
  PROVE  /\ \A t \in Since(n) : s[t] = 0
         /\ SumFunctionOnSet(s, Times \ Since(n)) <= Limit - 1
<1> DEFINE S == Since(e.start + 1)
           T == Times \ Since(n)
<1>1. /\ n \in Nat /\ Limit \in Nat \ {0} /\ Window \in Nat \ {0}
      /\ e.start \in Nat /\ e.count \in 0..Limit
  BY RatesAssumption DEF Times, Entry
<1>2. \A t \in Since(n) : s[t] = 0
  BY <1>1 DEF WindowBounds, Since, Times
<1>3. S \in SUBSET Times /\ T \in SUBSET Times /\ T \cap S \in SUBSET T
      /\ T \cap S \in SUBSET S /\ T \ S \in SUBSET Times
  BY DEF Since
<1>4. \A t \in T \ S : s[t] = 0
  BY <1>1 DEF Since, Times
<1>5. T \ (T \cap S) = T \ S
  OBVIOUS
<1> HIDE DEF S, T
<1>6. SumFunctionOnSet(s, T) = SumFunctionOnSet(s, T \cap S) + SumFunctionOnSet(s, T \ S)
  <2>1. IsFiniteSet(T) /\ \A t \in T : s[t] \in Nat
    BY <1>3, SumsOfTimes
  <2> QED  BY <1>3, <1>5, <2>1, SumOfParts
<1>7. SumFunctionOnSet(s, T \ S) = 0
  BY <1>3, <1>4, NothingSent
<1>8. SumFunctionOnSet(s, T \cap S) <= SumFunctionOnSet(s, S)
  BY <1>3, SumOfMoreTimes
<1>9. SumFunctionOnSet(s, T \cap S) \in Nat /\ SumFunctionOnSet(s, S) \in Nat
  BY <1>3, SumsOfTimes
<1>10. SumFunctionOnSet(s, S) <= e.count - 1
  BY DEF S, WindowBounds
<1>11. SumFunctionOnSet(s, T) <= Limit - 1
  BY <1>1, <1>6, <1>7, <1>8, <1>9, <1>10
<1> QED  BY <1>2, <1>11 DEF T

\* A second passes, and the history forgets.
LEMMA WindowLater ==
  ASSUME NEW s \in [Times -> Nat], NEW n \in Times, NEW e \in Entry, e.start <= n,
         NEW g, g = [t \in Times |-> IF t > (n + 1) - Window THEN s[t] ELSE 0]
  PROVE  /\ g \in [Times -> Nat]
         /\ WindowEarned(s, e, n) => WindowEarned(g, e, n + 1)
         /\ WindowBounds(s, e) => WindowBounds(g, e)
<1>1. /\ n \in Nat /\ Limit \in Nat \ {0} /\ Window \in Nat \ {0} /\ e.start \in Nat
      /\ e.count \in Nat
  BY RatesAssumption DEF Times, Entry
<1>2. g \in [Times -> Nat] /\ \A t \in Times : g[t] <= s[t] /\ g[t] \in {s[t], 0}
  OBVIOUS
<1>3. ASSUME NEW T \in SUBSET Times
      PROVE  /\ SumFunctionOnSet(g, T) <= SumFunctionOnSet(s, T)
             /\ SumFunctionOnSet(g, T) \in Nat /\ SumFunctionOnSet(s, T) \in Nat
  <2>1. IsFiniteSet(T) /\ \A t \in T : s[t] \in Nat /\ g[t] \in Nat /\ g[t] <= s[t]
    BY <1>2, SumsOfTimes
  <2> QED  BY <2>1, SumMonotone, SumType
<1>4. ASSUME WindowEarned(s, e, n), (n + 1) - e.start < Window
      PROVE  e.count <= SumFunctionOnSet(g, Since(e.start))
  <2>1. \A t \in Since(e.start) : g[t] = s[t] /\ s[t] \in Nat
    BY <1>1, <1>4 DEF Since, Times
  <2>2. IsFiniteSet(Since(e.start))
    <3>1. Since(e.start) \in SUBSET Times
      BY DEF Since
    <3> QED  BY <3>1, SumsOfTimes
  <2>3. SumFunctionOnSet(g, Since(e.start)) = SumFunctionOnSet(s, Since(e.start))
    BY <2>1, <2>2, SumSame
  <2> QED  BY <1>1, <1>4, <2>3 DEF WindowEarned
<1>5. ASSUME WindowBounds(s, e) PROVE WindowBounds(g, e)
  <2>1. /\ Since(e.start) \in SUBSET Times /\ Since(e.start + 1) \in SUBSET Times
        /\ Times \ Since(e.start) \in SUBSET Times /\ Since(e.start + Window) \in SUBSET Times
    BY DEF Since
  <2>2. /\ SumFunctionOnSet(g, Since(e.start)) <= SumFunctionOnSet(s, Since(e.start))
        /\ SumFunctionOnSet(g, Since(e.start + 1)) <= SumFunctionOnSet(s, Since(e.start + 1))
        /\ SumFunctionOnSet(g, Times \ Since(e.start)) <= SumFunctionOnSet(s, Times \ Since(e.start))
    BY <1>3, <2>1
  <2>3. /\ SumFunctionOnSet(g, Since(e.start)) \in Nat /\ SumFunctionOnSet(s, Since(e.start)) \in Nat
        /\ SumFunctionOnSet(g, Since(e.start + 1)) \in Nat
        /\ SumFunctionOnSet(s, Since(e.start + 1)) \in Nat
        /\ SumFunctionOnSet(g, Times \ Since(e.start)) \in Nat
        /\ SumFunctionOnSet(s, Times \ Since(e.start)) \in Nat
    BY <1>3, <2>1
  <2>4. \A t \in Since(e.start + Window) : g[t] = 0
    BY <1>2, <1>5, <2>1 DEF WindowBounds
  <2> QED  BY <1>1, <1>5, <2>2, <2>3, <2>4 DEF WindowBounds
<1> QED  BY <1>2, <1>4, <1>5 DEF WindowEarned

-----------------------------------------------------------------------------
(* The history of the messages *)

\* The inductive invariant behind BurstsBounded and RefusalsAreEarned: history
\* and windows agree.  Who lost his window to another (or to a restart) may send
\* more, but is not refused without having sent as much.
Remembered ==
  /\ sent \in [Keys -> [Times -> Nat]]
  /\ \A k \in Keys, t \in Times : t > now \/ t <= now - Window => sent[k][t] = 0

WindowsAgree ==
  \A i \in Entries, k \in Keys : rates[i].key = k =>
    /\ rates[i].count >= 1
    /\ WindowEarned(sent[k], rates[i], now)
    /\ k \notin evicted => WindowBounds(sent[k], rates[i])

NoWindowNothingSent ==
  \A k \in Keys \ evicted : (\A i \in Entries : rates[i].key # k) =>
    \A t \in Times : sent[k][t] = 0

HistoryInv == Remembered /\ WindowsAgree /\ NoWindowNothingSent

LEMMA AllowedRemembered ==
  ASSUME RatesInv, HistoryInv, NEW k \in Keys, Allowed(k)
  PROVE  /\ Remembered'
         /\ sent'[k] = OneMore(sent[k], now)
         /\ \A h \in Keys : h # k => sent'[h] = sent[h]
<1>1. /\ now \in Times /\ now' = now /\ sent \in [Keys -> [Times -> Nat]]
      /\ sent' = [sent EXCEPT ![k] = OneMore(sent[k], now)]
  BY DEF RatesInv, RatesTypeOK, HistoryInv, Remembered, Allowed, OneMore
<1>2. /\ OneMore(sent[k], now) \in [Times -> Nat]
      /\ \A t \in Times : t # now => OneMore(sent[k], now)[t] = sent[k][t]
  <2>1. Times \in SUBSET Times /\ sent[k] \in [Times -> Nat]
    BY <1>1
  <2> QED  BY <1>1, <2>1, OneMoreSent
<1>3. /\ sent' \in [Keys -> [Times -> Nat]]
      /\ \A h \in Keys : sent'[h] = IF h = k THEN OneMore(sent[k], now) ELSE sent[h]
  BY <1>1, <1>2
<1>4. now \in Nat /\ Window \in Nat \ {0} /\ \A t \in Times : t \in Nat
  BY <1>1, RatesAssumption DEF Times
<1>5. ASSUME NEW h \in Keys, NEW t \in Times, t > now \/ t <= now - Window
      PROVE  sent'[h][t] = 0
  <2>1. sent[h][t] = 0 /\ t # now
    BY <1>4, <1>5 DEF HistoryInv, Remembered
  <2> QED  BY <1>2, <1>3, <2>1
<1> QED  BY <1>1, <1>3, <1>5 DEF Remembered

\* What the message does to the table: entry i gets the window d of k, and it
\* agrees with the history.
LEMMA AllowedWindow ==
  ASSUME RatesInv, HistoryInv, NEW k \in Keys, Allowed(k)
  PROVE  \E i \in Entries, d \in Entry :
           /\ rates' = [rates EXCEPT ![i] = d]
           /\ d.key = k /\ d.count >= 1
           /\ \A j \in Entries : rates[j].key = k => j = i
           /\ evicted' = evicted \cup ({rates[i].key} \ {NoKey, k})
           /\ WindowEarned(sent'[k], d, now)
           /\ k \notin evicted => WindowBounds(sent'[k], d)
<1>1. /\ now \in Times /\ now \in Nat /\ rates \in [Entries -> Entry]
      /\ Limit \in Nat \ {0} /\ Window \in Nat \ {0} /\ k # NoKey
      /\ sent[k] \in [Times -> Nat]
      /\ \A t \in Times : t > now \/ t <= now - Window => sent[k][t] = 0
  BY RatesAssumption
  DEF RatesInv, RatesTypeOK, HistoryInv, Remembered, Times, Keys, NoKey
<1>2. sent'[k] = OneMore(sent[k], now)
  BY AllowedRemembered
<1> DEFINE opened == [key |-> k, start |-> now, count |-> 1]
<1>3. opened \in Entry /\ opened.key = k /\ opened.start = now /\ opened.count = 1
  BY <1>1 DEF Entry
<1>4. CASE WindowOpens(k)
  <2>1. \A j \in Entries : rates[j].key # k
    BY <1>4 DEF WindowOpens, Matches
  <2>2. PICK i \in Entries : /\ rates' = [rates EXCEPT ![i] = opened]
                             /\ evicted' = evicted \cup ({rates[i].key} \ {NoKey})
    BY <1>4 DEF WindowOpens
  <2> HIDE DEF opened
  <2>3. WindowEarned(sent'[k], opened, now)
    BY <1>1, <1>2, <1>3, WindowOpened
  <2>4. ASSUME k \notin evicted PROVE WindowBounds(sent'[k], opened)
    <3>1. \A t \in Times : sent[k][t] = 0
      BY <2>1, <2>4 DEF HistoryInv, NoWindowNothingSent
    <3>2. Since(now) \in SUBSET Times /\ Times \ Since(now) \in SUBSET Times
      BY DEF Since
    <3>3. SumFunctionOnSet(sent[k], Times \ Since(now)) = 0
      BY <1>1, <3>1, <3>2, NothingSent
    <3>4. SumFunctionOnSet(sent[k], Times \ Since(now)) <= Limit - 1
      BY <1>1, <3>3
    <3>5. \A t \in Since(now) : sent[k][t] = 0
      BY <3>1, <3>2
    <3> QED  BY <1>1, <1>2, <1>3, <3>4, <3>5, WindowOpened
  <2>5. {rates[i].key} \ {NoKey} = {rates[i].key} \ {NoKey, k}
    BY <2>1
  <2>6. /\ rates' = [rates EXCEPT ![i] = opened]
        /\ opened.key = k /\ opened.count >= 1
        /\ \A j \in Entries : rates[j].key = k => j = i
        /\ evicted' = evicted \cup ({rates[i].key} \ {NoKey, k})
        /\ WindowEarned(sent'[k], opened, now)
        /\ k \notin evicted => WindowBounds(sent'[k], opened)
    BY <1>3, <2>1, <2>2, <2>3, <2>4, <2>5
  <2> QED  BY <1>3, <2>6
<1>5. CASE MessageCounted(k)
  <2>1. PICK i \in Entries :
          /\ rates[i].key = k
          /\ Current(rates[i]).count < Limit
          /\ rates' = [rates EXCEPT ![i] = [Current(rates[i]) EXCEPT !.count = @ + 1]]
          /\ evicted' = evicted
    BY <1>5 DEF MessageCounted, Matches
  <2>2. /\ rates[i] \in Entry /\ rates[i].start <= now /\ rates[i].start \in Nat
        /\ rates[i].count \in Nat /\ rates[i].count >= 1
        /\ WindowEarned(sent[k], rates[i], now)
        /\ k \notin evicted => WindowBounds(sent[k], rates[i])
    BY <1>1, <2>1 DEF RatesInv, WindowsHaveBegun, HistoryInv, WindowsAgree, Entry, Times
  <2>3. \A j \in Entries : rates[j].key = k => j = i
    BY <1>1, <2>1 DEF RatesInv, OneWindowEach
  <2>4. evicted' = evicted \cup ({rates[i].key} \ {NoKey, k})
    BY <2>1
  <2>5. CASE now - rates[i].start >= Window
    <3>1. [Current(rates[i]) EXCEPT !.count = @ + 1] = opened
      <4>1. PICK r \in Entry : r = rates[i] /\ r.key = k
        BY <2>1, <2>2
      <4>2. Current(r) = [r EXCEPT !.start = now, !.count = 0]
        BY <2>5, <4>1 DEF Current
      <4>3. Current(r) = [key |-> k, start |-> now, count |-> 0]
        BY <4>1, <4>2 DEF Entry
      <4> QED  BY <4>1, <4>3
    <3>2. rates' = [rates EXCEPT ![i] = opened]
      BY <2>1, <3>1
    <3> HIDE DEF opened
    <3>3. WindowEarned(sent'[k], opened, now)
      BY <1>1, <1>2, <1>3, WindowOpened
    <3>4. ASSUME k \notin evicted PROVE WindowBounds(sent'[k], opened)
      <4>1. /\ \A t \in Since(now) : sent[k][t] = 0
            /\ SumFunctionOnSet(sent[k], Times \ Since(now)) <= Limit - 1
        BY <1>1, <2>2, <2>5, <3>4, WindowRunOut
      <4> QED  BY <1>1, <1>2, <1>3, <4>1, WindowOpened
    <3>5. /\ rates' = [rates EXCEPT ![i] = opened]
          /\ opened.key = k /\ opened.count >= 1
          /\ \A j \in Entries : rates[j].key = k => j = i
          /\ evicted' = evicted \cup ({rates[i].key} \ {NoKey, k})
          /\ WindowEarned(sent'[k], opened, now)
          /\ k \notin evicted => WindowBounds(sent'[k], opened)
      BY <1>3, <2>3, <2>4, <3>2, <3>3, <3>4
    <3> QED  BY <1>3, <3>5
  <2>6. CASE ~(now - rates[i].start >= Window)
    <3> DEFINE d == [rates[i] EXCEPT !.count = @ + 1]
    <3>1. Current(rates[i]) = rates[i]
      BY <2>6 DEF Current
    <3>2. rates[i].count < Limit /\ rates' = [rates EXCEPT ![i] = d]
      BY <2>1, <3>1
    <3>3. /\ d \in Entry /\ d.key = k /\ d.start = rates[i].start
          /\ d.count = rates[i].count + 1
      BY <1>1, <2>1, <2>2, <3>2 DEF Entry
    <3> HIDE DEF d
    <3>4. now - rates[i].start < Window
      BY <1>1, <2>2, <2>6
    <3>5. WindowEarned(sent'[k], d, now)
      BY <1>1, <1>2, <2>2, <3>2, <3>3, <3>4, CountedInWindow
    <3>6. k \notin evicted => WindowBounds(sent'[k], d)
      BY <1>1, <1>2, <2>2, <3>2, <3>3, <3>4, CountedInWindow
    <3>7. d.count >= 1
      BY <2>2, <3>3
    <3> QED  BY <2>3, <2>4, <3>2, <3>3, <3>5, <3>6, <3>7
  <2> QED  BY <2>5, <2>6
<1> QED  BY <1>4, <1>5 DEF Allowed

LEMMA AllowedAgrees ==
  ASSUME RatesInv, HistoryInv, NEW k \in Keys, Allowed(k)
  PROVE  HistoryInv'
<1>1. PICK i \in Entries, d \in Entry :
        /\ rates' = [rates EXCEPT ![i] = d]
        /\ d.key = k /\ d.count >= 1
        /\ \A j \in Entries : rates[j].key = k => j = i
        /\ evicted' = evicted \cup ({rates[i].key} \ {NoKey, k})
        /\ WindowEarned(sent'[k], d, now)
        /\ k \notin evicted => WindowBounds(sent'[k], d)
  BY AllowedWindow
<1>2. Remembered' /\ \A h \in Keys : h # k => sent'[h] = sent[h]
  BY AllowedRemembered
<1>3. /\ now' = now /\ k # NoKey /\ (k \notin evicted' <=> k \notin evicted)
      /\ \A h \in Keys : h \notin evicted' => h \notin evicted
      /\ \A j \in Entries : rates'[j] = IF j = i THEN d ELSE rates[j]
  BY <1>1, RatesAssumption DEF Allowed, RatesInv, RatesTypeOK, Keys, NoKey
<1>4. WindowsAgree'
  <2>1. ASSUME NEW j \in Entries, NEW h \in Keys, rates'[j].key = h
        PROVE  /\ rates'[j].count >= 1
               /\ WindowEarned(sent'[h], rates'[j], now')
               /\ h \notin evicted' => WindowBounds(sent'[h], rates'[j])
    <3>1. CASE j = i
      BY <1>1, <1>3, <2>1, <3>1
    <3>2. CASE j # i
      <4>1. h # k /\ rates'[j] = rates[j] /\ sent'[h] = sent[h]
        BY <1>1, <1>2, <1>3, <2>1, <3>2
      <4> QED  BY <1>3, <2>1, <4>1 DEF HistoryInv, WindowsAgree
    <3> QED  BY <3>1, <3>2
  <2> QED  BY <2>1 DEF WindowsAgree
<1>5. NoWindowNothingSent'
  <2>1. ASSUME NEW h \in Keys \ evicted', \A j \in Entries : rates'[j].key # h,
               NEW t \in Times
        PROVE  sent'[h][t] = 0
    <3>1. h # k /\ h \notin evicted
      BY <1>1, <1>3, <2>1
    <3>2. h # NoKey
      BY RatesAssumption DEF Keys, NoKey
    <3>3. rates[i].key # h
      BY <1>1, <2>1, <3>1, <3>2
    <3>4. \A j \in Entries : rates[j].key # h
      BY <1>3, <2>1, <3>3
    <3> QED  BY <1>2, <3>1, <3>4 DEF HistoryInv, NoWindowNothingSent
  <2> QED  BY <2>1 DEF NoWindowNothingSent
<1> QED  BY <1>2, <1>4, <1>5 DEF HistoryInv

LEMMA SecondAgrees ==
  ASSUME RatesInv, HistoryInv, SecondPasses
  PROVE  HistoryInv'
<1>1. /\ now \in Times /\ now \in Nat /\ now' = now + 1 /\ rates' = rates /\ evicted' = evicted
      /\ Window \in Nat \ {0} /\ rates \in [Entries -> Entry]
      /\ \A k \in Keys : sent[k] \in [Times -> Nat]
      /\ \A t \in Times : t \in Nat
      /\ sent' = [k \in Keys |-> [t \in Times |-> IF t > (now + 1) - Window THEN sent[k][t]
                                                                            ELSE 0]]
  BY RatesAssumption
  DEF SecondPasses, RatesInv, RatesTypeOK, HistoryInv, Remembered, Times
<1>2. ASSUME NEW k \in Keys
      PROVE  sent'[k] = [t \in Times |-> IF t > (now + 1) - Window THEN sent[k][t] ELSE 0]
  BY <1>1
<1>3. ASSUME NEW k \in Keys, NEW e \in Entry, e.start <= now
      PROVE  /\ WindowEarned(sent[k], e, now) => WindowEarned(sent'[k], e, now')
             /\ WindowBounds(sent[k], e) => WindowBounds(sent'[k], e)
  BY <1>1, <1>2, <1>3, WindowLater
<1>4. Remembered'
  <2>1. sent' \in [Keys -> [Times -> Nat]]
    BY <1>1
  <2>2. ASSUME NEW k \in Keys, NEW t \in Times, t > now' \/ t <= now' - Window
        PROVE  sent'[k][t] = 0
    <3>1. t > now => sent[k][t] = 0
      BY DEF HistoryInv, Remembered
    <3> QED  BY <1>1, <1>2, <2>2, <3>1
  <2> QED  BY <2>1, <2>2 DEF Remembered
<1>5. WindowsAgree'
  <2>1. ASSUME NEW i \in Entries, NEW k \in Keys, rates[i].key = k
        PROVE  /\ rates[i].count >= 1
               /\ WindowEarned(sent'[k], rates[i], now')
               /\ k \notin evicted => WindowBounds(sent'[k], rates[i])
    <3>1. rates[i] \in Entry /\ rates[i].start <= now
      BY <1>1 DEF RatesInv, WindowsHaveBegun
    <3> QED  BY <1>3, <2>1, <3>1 DEF HistoryInv, WindowsAgree
  <2> QED  BY <1>1, <2>1 DEF WindowsAgree
<1>6. NoWindowNothingSent'
  BY <1>1, <1>2 DEF HistoryInv, NoWindowNothingSent
<1> QED  BY <1>4, <1>5, <1>6 DEF HistoryInv

\* A restart forgets the windows: all who had one may send anew.
LEMMA RestartAgrees ==
  ASSUME RatesInv, HistoryInv, Restart
  PROVE  HistoryInv'
<1>1. /\ now' = now /\ sent' = sent
      /\ \A i \in Entries : rates'[i].key = NoKey
      /\ evicted' = evicted \cup ({rates[i].key : i \in Entries} \ {NoKey})
  BY DEF Restart, NoEntry
<1>2. NoKey \notin Keys
  BY RatesAssumption DEF Keys, NoKey
<1>3. Remembered' /\ WindowsAgree'
  BY <1>1, <1>2 DEF HistoryInv, Remembered, WindowsAgree
<1>4. NoWindowNothingSent'
  BY <1>1, <1>2 DEF HistoryInv, NoWindowNothingSent
<1> QED  BY <1>3, <1>4 DEF HistoryInv

-----------------------------------------------------------------------------
(* The theorems *)

\* Sessions and rooms agree: whoever hears a room and may speak in it is one of its
\* members, whatever requests, disconnects and restarts came before, but for the
\* sessions a half deleted room or a leave on a second session has left there.
THEOREM SeatsInOrder == Spec => []SeatsInv
<1>1. Init => SeatsInv
  <2> SUFFICES ASSUME Init PROVE SeatsInv
    OBVIOUS
  <2>1. NoSeat \in Seat /\ NoRoomYet \in Room
    BY DEF NoSeat, Seat, NoRoomYet, Room, Statuses
  <2>2. \A i \in Slots : seat[i].state = "new" /\ seat[i].room = NoRoom
    BY DEF Init, NoSeat
  <2> QED
    BY <2>1, <2>2
    DEF Init, SeatsInv, TypeOK, OneOpenSeat, RoomsWereMade, ListenersAreMembers, LoggedIn
<1>2. SeatsInv /\ [Next]_vars => SeatsInv'
  <2> SUFFICES ASSUME SeatsInv, [Next]_vars PROVE SeatsInv'
    OBVIOUS
  <2>1. ASSUME UNCHANGED roomVars PROVE SeatsInv'
    BY <2>1 DEF roomVars, SeatsInv, TypeOK, OneOpenSeat, RoomsWereMade,
                ListenersAreMembers, LoggedIn
  <2>2. ASSUME NEW i \in Slots, Request(i) PROVE SeatsInv'
    <3>1. CASE Logout(i)
      BY <3>1, LogoutKeeps
    <3>2. ASSUME NEW r \in Rooms,
                 \/ CreateRoom(i, r) \/ JoinRoom(i, r) \/ LeaveDuringGame(i, r)
                 \/ CloseRoom(i, r) \/ LeaveRoom(i, r) \/ StartGame(i, r)
          PROVE  SeatsInv'
      BY <3>2, CreateRoomKeeps, JoinRoomKeeps, LeaveDuringGameKeeps, CloseRoomKeeps,
         LeaveRoomKeeps, StartGameKeeps
    <3>3. ASSUME NEW r \in Rooms, SendRoomChat(i, r) PROVE SeatsInv'
      BY <2>1, <3>3 DEF SendRoomChat
    <3> QED
      BY <2>2, <3>1, <3>2, <3>3 DEF Request
  <2>3. ASSUME NEW r \in Rooms, EndGame(r) PROVE SeatsInv'
    <3>1. /\ room' \in [Rooms -> Room] /\ seat' = seat /\ stray' = stray
          /\ \A q \in Rooms : /\ room'[q].members = room[q].members
                              /\ room'[q].status \in {room[q].status, "FINISHED"}
                              /\ room'[q].status # room[q].status => room[q].status \in Existing
      BY <2>3 DEF EndGame, SeatsInv, TypeOK, Room, Statuses, Existing
    <3>2. SameUsers /\ TypeOK'
      BY <3>1 DEF SeatsInv, TypeOK, SameUsers
    <3>3. \A j \in Slots : seat'[j].room = seat[j].room
      BY <3>1
    <3>4. NoRoom \in Rooms \cup {NoRoom}
      OBVIOUS
    <3>5. \A j \in Slots, q \in Rooms :
            j \notin stray' /\ seat'[j].room = q /\ room'[q].status \in Existing => Hears(j, q)
      BY <3>1 DEF Hears
    <3>6. \A q \in Rooms : room[q].status # "NONE" => room'[q].status # "NONE"
      BY <3>1
    <3> QED
      BY <3>2, <3>3, <3>4, <3>5, <3>6, RequestKeeps
  <2> QED
    BY <2>1, <2>2, <2>3, LoginKeeps, DisconnectedKeeps, RestartKeeps
    DEF Next, vars, roomVars, ClockTicks
<1> QED
  BY <1>1, <1>2, PTL DEF Spec

\* The table of the rate limiter is in order: a user has one window in a room at most,
\* counts stay within the limit, and no window lies in the future, although windows
\* are taken from others when the table is full.
THEOREM RatesInOrder == Spec => []RatesInv
<1>1. Init => RatesInv
  <2> SUFFICES ASSUME Init PROVE RatesInv
    OBVIOUS
  <2>1. NoEntry \in Entry /\ NoEntry.start = 0 /\ NoEntry.key = NoKey
    BY RatesAssumption DEF NoEntry, Entry, Times
  <2>2. now = 0 /\ 0 \in Times
    BY RatesAssumption DEF Init, RatesInit, Times
  <2> QED
    BY <2>1, <2>2
    DEF Init, RatesInit, RatesInv, RatesTypeOK, OneWindowEach, WindowsHaveBegun
<1>2. SeatsInv /\ RatesInv /\ [Next]_vars => RatesInv'
  <2> SUFFICES ASSUME SeatsInv, RatesInv, [Next]_vars PROVE RatesInv'
    OBVIOUS
  <2>1. ASSUME UNCHANGED rateVars PROVE RatesInv'
    BY <2>1 DEF rateVars, RatesInv, RatesTypeOK, OneWindowEach, WindowsHaveBegun
  <2>2. ASSUME NEW i \in Slots, NEW r \in Rooms, SendRoomChat(i, r) PROVE RatesInv'
    <3>1. Allowed(<<seat[i].user, r>>) /\ seat[i].user \in Users
      BY <2>2 DEF SendRoomChat, LoggedIn, SeatsInv, TypeOK, Seat
    <3> QED
      BY <3>1, AllowedKeeps DEF Keys
  <2>3. ASSUME NEW i \in Slots, Request(i) PROVE RatesInv'
    BY <2>1, <2>2, <2>3
    DEF Request, Logout, CreateRoom, JoinRoom, LeaveDuringGame, CloseRoom, LeaveRoom,
        StartGame
  <2> QED
    BY <2>1, <2>3, SecondKeeps, RestartRates
    DEF Next, vars, Login, Disconnected, EndGame, ClockTicks
<1> QED
  BY <1>1, <1>2, SeatsInOrder, PTL DEF Spec


\* History and windows agree, whoever sends what and when.
THEOREM HistoryAgrees == Spec => []HistoryInv
<1>1. Init => HistoryInv
  <2> SUFFICES ASSUME Init PROVE HistoryInv
    OBVIOUS
  <2>1. /\ \A i \in Entries : rates[i].key = NoKey
        /\ sent \in [Keys -> [Times -> Nat]]
        /\ \A k \in Keys, t \in Times : sent[k][t] = 0
    BY DEF Init, RatesInit, NoEntry
  <2>2. NoKey \notin Keys
    BY RatesAssumption DEF Keys, NoKey
  <2> QED
    BY <2>1, <2>2 DEF HistoryInv, Remembered, WindowsAgree, NoWindowNothingSent
<1>2. SeatsInv /\ RatesInv /\ HistoryInv /\ [Next]_vars => HistoryInv'
  <2> SUFFICES ASSUME SeatsInv, RatesInv, HistoryInv, [Next]_vars PROVE HistoryInv'
    OBVIOUS
  <2>1. ASSUME UNCHANGED rateVars PROVE HistoryInv'
    BY <2>1 DEF rateVars, HistoryInv, Remembered, WindowsAgree, NoWindowNothingSent
  <2>2. ASSUME NEW i \in Slots, NEW r \in Rooms, SendRoomChat(i, r) PROVE HistoryInv'
    <3>1. Allowed(<<seat[i].user, r>>) /\ seat[i].user \in Users
      BY <2>2 DEF SendRoomChat, LoggedIn, SeatsInv, TypeOK, Seat
    <3> QED
      BY <3>1, AllowedAgrees DEF Keys
  <2>3. ASSUME NEW i \in Slots, Request(i) PROVE HistoryInv'
    BY <2>1, <2>2, <2>3
    DEF Request, Logout, CreateRoom, JoinRoom, LeaveDuringGame, CloseRoom, LeaveRoom,
        StartGame
  <2> QED
    BY <2>1, <2>3, SecondAgrees, RestartAgrees
    DEF Next, vars, Login, Disconnected, EndGame, ClockTicks
<1> QED
  BY <1>1, <1>2, SeatsInOrder, RatesInOrder, PTL DEF Spec

\* BurstsBounded: in as many seconds as a window lasts a user who keeps his
\* window gets less than twice the limit through.
THEOREM BurstsBoundedAlways == Spec => []BurstsBounded
<1>1. RatesInv /\ HistoryInv => BurstsBounded
  <2> SUFFICES ASSUME RatesInv, HistoryInv, NEW k \in Keys \ evicted
               PROVE  SentLately(k) < 2 * Limit
    BY DEF BurstsBounded
  <2>1. sent[k] \in [Times -> Nat] /\ Limit \in Nat \ {0}
    BY RatesAssumption DEF HistoryInv, Remembered
  <2>2. CASE \A i \in Entries : rates[i].key # k
    <3>1. \A t \in Times : sent[k][t] = 0
      BY <2>2 DEF HistoryInv, NoWindowNothingSent
    <3>2. SumFunctionOnSet(sent[k], Times) = 0
      BY <2>1, <3>1, NothingSent
    <3> QED  BY <2>1, <3>2 DEF SentLately
  <2>3. ASSUME NEW i \in Entries, rates[i].key = k PROVE SentLately(k) < 2 * Limit
    <3> DEFINE S == Since(rates[i].start)
    <3>1. WindowBounds(sent[k], rates[i]) /\ rates[i].count \in 0..Limit
      BY <2>3 DEF HistoryInv, WindowsAgree, RatesInv, RatesTypeOK, Entry
    <3>2. S \in SUBSET Times /\ Times \ S \in SUBSET Times
      BY DEF Since
    <3>3. /\ SumFunctionOnSet(sent[k], S) <= rates[i].count
          /\ SumFunctionOnSet(sent[k], Times \ S) <= Limit - 1
      BY <3>1 DEF WindowBounds
    <3> HIDE DEF S
    <3>4. /\ SumFunctionOnSet(sent[k], Times)
               = SumFunctionOnSet(sent[k], S) + SumFunctionOnSet(sent[k], Times \ S)
          /\ SumFunctionOnSet(sent[k], S) \in Nat
      BY <2>1, <3>2, SumsOfTimes
    <3>5. SumFunctionOnSet(sent[k], Times \ S) \in Nat
      BY <2>1, <3>2, SumsOfTimes
    <3> QED  BY <2>1, <3>1, <3>3, <3>4, <3>5 DEF SentLately
  <2> QED  BY <2>2, <2>3
<1> QED
  BY <1>1, RatesInOrder, HistoryAgrees, PTL

\* RefusalsAreEarned: who is refused has sent as many messages as the limit
\* within a window, whoever lost a window to whom.
THEOREM RefusalsAreEarnedAlways == Spec => []RefusalsAreEarned
<1>1. RatesInv /\ HistoryInv => RefusalsAreEarned
  <2> SUFFICES ASSUME RatesInv, HistoryInv, NEW k \in Keys, Refused(k)
               PROVE  SentLately(k) >= Limit
    BY DEF RefusalsAreEarned
  <2>1. /\ sent[k] \in [Times -> Nat] /\ Limit \in Nat \ {0} /\ Window \in Nat \ {0}
        /\ now \in Nat /\ rates \in [Entries -> Entry]
    BY RatesAssumption DEF HistoryInv, Remembered, RatesInv, RatesTypeOK, Times
  <2>2. PICK i \in Entries : rates[i].key = k /\ Current(rates[i]).count >= Limit
    BY DEF Refused, Matches
  <2>3. rates[i] \in Entry /\ rates[i].start \in Nat /\ rates[i].count \in Nat
    BY <2>1 DEF Entry, Times
  <2>4. ~(now - rates[i].start >= Window)
    <3> SUFFICES ASSUME now - rates[i].start >= Window PROVE FALSE
      OBVIOUS
    <3>1. Current(rates[i]).count = 0
      BY <2>3 DEF Current, Entry
    <3> QED  BY <2>1, <2>2, <3>1
  <2>5. rates[i].count >= Limit
    BY <2>2, <2>4 DEF Current
  <2>6. now - rates[i].start < Window
    BY <2>1, <2>3, <2>4
  <2>7. WindowEarned(sent[k], rates[i], now)
    BY <2>2 DEF HistoryInv, WindowsAgree
  <2>8. rates[i].count <= SumFunctionOnSet(sent[k], Since(rates[i].start))
    BY <2>6, <2>7 DEF WindowEarned
  <2>9. Since(rates[i].start) \in SUBSET Times /\ Times \in SUBSET Times
    BY DEF Since
  <2>10. SumFunctionOnSet(sent[k], Since(rates[i].start)) <= SumFunctionOnSet(sent[k], Times)
    BY <2>1, <2>9, SumOfMoreTimes
  <2>11. /\ SumFunctionOnSet(sent[k], Since(rates[i].start)) \in Nat
         /\ SumFunctionOnSet(sent[k], Times) \in Nat
    BY <2>1, <2>9, SumsOfTimes
  <2> QED  BY <2>1, <2>3, <2>5, <2>8, <2>10, <2>11 DEF SentLately
<1> QED
  BY <1>1, RatesInOrder, HistoryAgrees, PTL
=============================================================================
