------------------------- MODULE FriendsClient -------------------------
(***************************************************************************)
(* The friends screen of the client (qml/FriendsList.qml, with the part of *)
(* NetworkClient.cpp behind it) against the table: what it shows is a copy *)
(* made of lists it has asked for and of notices the server sent.          *)
(* Everybody stays logged in on one connection.  Packets keep their order; *)
(* the server forgets the ones that reach it together with an earlier one. *)
(***************************************************************************)
EXTENDS Friends, SequencesExt

CONSTANT MaxOnTheWay   \* bound of the model: packets under way when a user clicks

ASSUME MaxOnTheWayAssumption == MaxOnTheWay \in Nat

VARIABLES
  ui,         \* per user, the friends screen
  toServer,   \* per user, the requests on their way
  toClient    \* per user, the replies and notices on their way

clientVars == <<ui, toServer, toClient>>
allVars == <<vars, clientVars>>

\* allFriends, by user: "found" is a search result with isFriend false, "adding"
\* and "added" are such entries with isAdding or isAdded.
Entries == {"none", "friend", "found", "adding", "added"}

\* FriendsList as it is created.  loaded: pending requests have been received.
FreshScreen == [open |-> TRUE, listed |-> [v \in Users |-> "none"], pending |-> {},
                loaded |-> FALSE]

NoScreen == [FreshScreen EXCEPT !.open = FALSE]

Show(u, screen) == ui' = [ui EXCEPT ![u] = screen]

\* Requests name a user or nobody in particular, replies and notices the users
\* they list or are about; ok is false in an error.
Request(kind, v) == [kind |-> kind, who |-> v]
ListRequest == Request("list", "nobody")
PendingRequest == Request("pending", "nobody")
Reply(kind, users, ok) == [kind |-> kind, who |-> users, ok |-> ok]

Send(u, requests) == toServer' = [toServer EXCEPT ![u] = @ \o requests]

-----------------------------------------------------------------------------
(* The server *)

\* What is sent to the user, and to the peer of the request.
Answer(u, own, v, others) ==
  toClient' = [x \in Users |-> toClient[x] \o (IF x = u THEN own
                                               ELSE IF x = v THEN others ELSE << >>)]

Tell(u, replies) == Answer(u, replies, u, << >>)

\* A refused request, or a failed statement: an error, that is no users.
Refuse(u, kind) == Tell(u, <<Reply(kind, {}, FALSE)>>)

Fails(u, m) == StatementFails /\ Refuse(u, m.kind)

HandleList(u, m) ==
  /\ Tell(u, <<Reply(m.kind, IF m.kind = "list" THEN FriendsOf(u) ELSE RequestsTo(u), TRUE)>>)
  /\ UNCHANGED vars

\* The users whose name matches; the model searches for one other user.
HandleSearch(u, m) == Tell(u, <<Reply("search", {m.who}, TRUE)>>) /\ UNCHANGED vars

\* Seeded fault: the peer is not told of a request made again.
HandleAddQuiet(u, m) ==
  LET p == <<u, m.who>>
  IN  \E told \in BOOLEAN :
        /\ AddFriend(p, told)
        /\ Answer(u, <<Reply("add", {}, TRUE)>>, m.who,
                  IF told /\ row[p] = "NONE" THEN <<Reply("request", {u}, TRUE)>> ELSE << >>)

HandleAdd(u, m) ==
  \E told \in BOOLEAN :
    /\ AddFriend(<<u, m.who>>, told)
    /\ Answer(u, <<Reply("add", {}, TRUE)>>, m.who,
              IF told THEN <<Reply("request", {u}, TRUE)>> ELSE << >>)

\* The removed friend gets a status notice, too, with the status "removed".
HandleRemove(u, m) ==
  /\ RemoveFriend(<<u, m.who>>)
  /\ Answer(u, <<Reply("remove", {}, TRUE)>>, m.who, <<Reply("status", {u}, TRUE)>>)

\* Both are told the status of the other before the request is answered.
HandleAccept(u, m) ==
  /\ AcceptRequest(<<m.who, u>>)
  /\ Answer(u, <<Reply("status", {m.who}, TRUE), Reply("respond", {}, TRUE)>>,
            m.who, <<Reply("status", {u}, TRUE)>>)

HandleDecline(u, m) ==
  /\ DeclineRequest(<<m.who, u>>)
  /\ Tell(u, <<Reply("respond", {}, TRUE)>>)

\* A request that is not pending any more cannot be answered.
HandleLateResponse(u, m) ==
  /\ ~CanRespond(<<m.who, u>>)
  /\ Refuse(u, "respond")
  /\ UNCHANGED vars

Handle(u, m) ==
  \/ m.kind \in {"list", "pending"} /\ HandleList(u, m)
  \/ m.kind = "search" /\ HandleSearch(u, m)
  \/ m.kind = "add" /\ HandleAdd(u, m)
  \/ m.kind = "remove" /\ HandleRemove(u, m)
  \/ m.kind = "accept" /\ HandleAccept(u, m)
  \/ m.kind = "decline" /\ HandleDecline(u, m)
  \/ m.kind \in {"accept", "decline"} /\ HandleLateResponse(u, m)
  \/ Fails(u, [m EXCEPT !.kind = IF @ \in {"accept", "decline"} THEN "respond" ELSE @])

\* client_session_read_packet: the requests that came with the first one are
\* forgotten.
ServerReads(u) ==
  \E n \in 1..Len(toServer[u]) :
    /\ Handle(u, toServer[u][1])
    /\ toServer' = [toServer EXCEPT ![u] = SubSeq(@, n + 1, Len(@))]
    /\ UNCHANGED ui

-----------------------------------------------------------------------------
(* The user *)

OnTheWay(u) == Len(toServer[u]) + Len(toClient[u])

PacketsOnTheWay == MapThenSumSet(OnTheWay, Users)

\* A user acts only while few packets are on their way.
Click(u, request) ==
  /\ PacketsOnTheWay < MaxOnTheWay
  /\ Send(u, <<request>>)
  /\ UNCHANGED <<vars, toClient>>

\* The screen is created; Component.onCompleted asks for both lists.
OpenScreen(u) ==
  /\ PacketsOnTheWay < MaxOnTheWay
  /\ ~ui[u].open
  /\ Show(u, FreshScreen)
  /\ Send(u, <<ListRequest, PendingRequest>>)
  /\ UNCHANGED <<vars, toClient>>

\* The back button.
LeaveScreen(u) ==
  /\ ui[u].open
  /\ Show(u, NoScreen)
  /\ UNCHANGED <<vars, toServer, toClient>>

\* The screen loads its lists again: both when it becomes visible, the requests
\* when their tab is opened, the friends a second after a request was sent
\* (refreshTimer; the model lets it be any time).  Bound of the model: a screen
\* that becomes visible again does so when nothing else is on its way.
Reload(u, requests) ==
  /\ PacketsOnTheWay < MaxOnTheWay
  /\ Len(requests) > 1 => PacketsOnTheWay = 0
  /\ ui[u].open
  /\ Send(u, requests)
  /\ UNCHANGED <<vars, ui, toClient>>

Search(u, v) == ui[u].open /\ Click(u, Request("search", v)) /\ UNCHANGED ui

\* sendAddFriendRequest, from an entry that is neither added nor being added.
ClickAdd(u, v) ==
  /\ ui[u].listed[v] = "found"
  /\ Click(u, Request("add", v))
  /\ Show(u, [ui[u] EXCEPT !.listed[v] = "adding"])

\* The bin of a friend, with its question answered at once.
ClickRemove(u, v) ==
  ui[u].listed[v] = "friend" /\ Click(u, Request("remove", v)) /\ UNCHANGED ui

\* sendRespondFriendRequest: the entry stays, and may be clicked again.
ClickRespond(u, v, kind) ==
  v \in ui[u].pending /\ Click(u, Request(kind, v)) /\ UNCHANGED ui

-----------------------------------------------------------------------------
(* The screen *)

\* onAddFriendResult: whatever is being added.
AddResult(listed, ok) ==
  [v \in Users |-> IF listed[v] # "adding" THEN listed[v]
                   ELSE IF ok THEN "added" ELSE "found"]

\* onPendingRequestsReceived and onFriendRequestReceived, on what is shown.
PendingAfter(shown, m) ==
  CASE m.kind = "pending" -> m.who
    [] m.kind = "request" -> shown \cup m.who
    [] OTHER -> shown

\* The screen after a packet.  listFriendsResult replaces the whole list, search
\* results with it; a search adds whoever is not in it.
ScreenAfter(screen, m) ==
  [screen EXCEPT
     !.pending = PendingAfter(@, m),
     !.loaded = @ \/ m.kind = "pending",
     !.listed =
       CASE m.kind = "list" -> [v \in Users |-> IF v \in m.who THEN "friend" ELSE "none"]
         [] m.kind = "search" -> [v \in Users |-> IF v \in m.who /\ @[v] = "none"
                                                  THEN "found" ELSE @[v]]
         [] m.kind = "add" -> AddResult(@, m.ok)
         [] OTHER -> @]

\* The requests a packet makes the screen send: after a removal the friends,
\* after an answer both lists; a status of somebody who is not in the list loads
\* the friends, of anybody else it only changes the colour of the entry.
SentBy(screen, m) ==
  CASE m.kind = "remove" /\ m.ok -> <<ListRequest>>
    [] m.kind = "respond" /\ m.ok -> <<ListRequest, PendingRequest>>
    [] m.kind = "status" /\ \A v \in m.who : screen.listed[v] = "none" -> <<ListRequest>>
    [] OTHER -> << >>

\* Nobody listens while there is no screen.
ClientReads(u) ==
  /\ toClient[u] # << >>
  /\ LET m == Head(toClient[u])
     IN  IF ui[u].open
         THEN Show(u, ScreenAfter(ui[u], m)) /\ Send(u, SentBy(ui[u], m))
         ELSE UNCHANGED <<ui, toServer>>
  /\ toClient' = [toClient EXCEPT ![u] = Tail(@)]
  /\ UNCHANGED vars

ClientInit ==
  /\ Init
  /\ ui = [u \in Users |-> NoScreen]
  /\ toServer = [u \in Users |-> << >>]
  /\ toClient = [u \in Users |-> << >>]

User(u) ==
  \/ OpenScreen(u) \/ LeaveScreen(u)
  \/ \E requests \in {<<ListRequest, PendingRequest>>, <<PendingRequest>>, <<ListRequest>>} :
       Reload(u, requests)
  \/ \E v \in Users \ {u} : \/ Search(u, v) \/ ClickAdd(u, v) \/ ClickRemove(u, v)
                            \/ \E kind \in {"accept", "decline"} : ClickRespond(u, v, kind)

ClientNext == \E u \in Users : User(u) \/ ServerReads(u) \/ ClientReads(u)

ClientSpec == ClientInit /\ [][ClientNext]_allVars

-----------------------------------------------------------------------------
(* Properties *)

\* onFriendRequestReceived, onPendingRequestsReceived: once a screen has loaded
\* its pending requests, every request to its user is on it, or will be when it
\* has read what is on the way: notices and lists may cross, repeated requests
\* and lost packets hide none (unless a failure was passed over).
RequestsAreShown ==
  \A u \in Users :
    ui[u].open /\ ui[u].loaded /\ failures = 0 =>
      RequestsTo(u) \subseteq FoldLeft(PendingAfter, ui[u].pending, toClient[u])
=============================================================================
