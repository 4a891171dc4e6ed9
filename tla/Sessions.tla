---------------------------- MODULE Sessions ----------------------------
(***************************************************************************)
(* Connections, logins and access tokens of the server: the event loop of  *)
(* service/server.c, session_manager.c, auth_service.c, the token check of *)
(* dispatcher.c and the user_sessions table behind dao_sessions.c.         *)
(*                                                                         *)
(* The server is one thread; every event it handles is one action.  Of the *)
(* sockets only what the server can tell apart is kept: whether a          *)
(* descriptor is open, whether an event is pending on it, and which number *)
(* it has.  Messages are left out, but for what sending does to a socket   *)
(* whose peer is gone (ResetArrives).                                      *)
(***************************************************************************)
EXTENDS Integers, FiniteSets

CONSTANTS
  Users,       \* user_id of the accounts
  Conns,       \* the connections clients ever make, each made once
  MaxSlots,    \* MAX_SESSIONS, the entries of the session manager
  MaxTokens,   \* bound of the model: rows of user_sessions ever created
  DbMayFail,   \* whether a statement on user_sessions may fail
  LargePackets \* whether clients send packets larger than READ_BUFFER_SIZE

ASSUME SessionsAssumption ==
  /\ 0 \notin Users
  /\ 0 \notin Conns
  /\ MaxSlots \in Nat
  /\ MaxTokens \in Nat
  /\ DbMayFail \in BOOLEAN
  /\ LargePackets \in BOOLEAN

VARIABLES
  conn,       \* per connection, the state of its socket
  session,    \* per connection, its ClientSession
  slots,      \* mgr->sessions: the sessions the server knows, by index
  row,        \* rows of user_sessions, by token
  nextToken   \* the next token to be made

vars == <<conn, session, slots, row, nextToken>>

NoUser == 0
NoToken == 0
NoConn == 0
NoFd == 0

Slots == 1..MaxSlots
Tokens == 1..MaxTokens
Fds == 1..(Cardinality(Conns) + 1)

\* "closing": the client has closed the connection, the event is pending;
\* "dead": the event has been handled; "reset": a reset of the dead connection
\* is pending; "broken": that has been handled, too.  "jammed": the server waits
\* for the rest of a packet that does not fit its buffer.  The server closes a
\* descriptor itself only when it refuses a client or finds a stale user.
HoldsFd == {"open", "closing", "jammed", "dead", "reset", "broken"}
ConnStates == HoldsFd \cup {"new", "closed"}

ClientSession == [user : Users \cup {NoUser}, token : Tokens \cup {NoToken},
                  fd : Fds \cup {NoFd}]

\* active: expires_at lies in the future; idle: last_heartbeat is more than
\* STALE_SESSION_TIMEOUT ago.
Row == [user : Users \cup {NoUser}, active : BOOLEAN, idle : BOOLEAN]

-----------------------------------------------------------------------------
(* Lookups and table writes *)

\* session_manager_get_by_user_id: the session in the first slot of the user.
IsSessionOf(i, u) ==
  /\ slots[i] # NoConn
  /\ session[slots[i]].user = u
  /\ \A j \in 1..(i - 1) : slots[j] # NoConn => session[slots[j]].user # u

FoundFor(u) == {slots[i] : i \in {j \in Slots : IsSessionOf(j, u)}}

\* session_manager_remove frees the slot of the session with a descriptor.
RemovedByFd(fd) ==
  [i \in Slots |-> IF slots[i] # NoConn /\ session[slots[i]].fd = fd /\ fd # NoFd
                   THEN NoConn ELSE slots[i]]

\* The descriptor the event loop asks to remove: it reads the descriptor from
\* the union in which session_manager_add stored a pointer, so that it is
\* the descriptor of no session.
EventFd == NoFd

\* The descriptor numbers accept can return: the lowest one that is free.
IsLowestFreeFd(fd) ==
  LET taken == {session[c].fd : c \in {d \in Conns : conn[d] \in HoldsFd}}
  IN  fd \notin taken /\ \A f \in 1..(fd - 1) : f \in taken

ActiveRows(u) == {t \in Tokens : row[t].user = u /\ row[t].active}

\* UPDATE user_sessions SET expires_at = NOW().
Expire(rows, tokens) ==
  [t \in Tokens |-> IF t \in tokens THEN [rows[t] EXCEPT !.active = FALSE] ELSE rows[t]]

\* The rows after an UPDATE that sets expires_at, which may fail.
ExpireOrFail(rows, tokens) ==
  {Expire(rows, tokens)} \cup (IF DbMayFail THEN {rows} ELSE {})

\* The token check of the dispatcher.
Valid(c) == session[c].token # NoToken /\ row[session[c].token].active

\* The rows after dao_sessions_touch of a valid token.
Touched(c) ==
  {[row EXCEPT ![session[c].token].idle = FALSE]} \cup (IF DbMayFail THEN {row} ELSE {})

\* A connection whose requests the server may still read.  A request may
\* come in with the end of the connection in one edge-triggered event; it is
\* then read alone and nothing is left to tell of the end.
Readable(c) == conn[c] \in {"open", "closing"}

EventTaken(c) ==
  conn' \in {conn} \cup (IF conn[c] = "closing" THEN {[conn EXCEPT ![c] = "dead"]} ELSE {})

-----------------------------------------------------------------------------
(* Events of the loop *)

\* accept, client_session_new and session_manager_add; without a free slot
\* the connection is closed at once.
Connect(c) ==
  /\ conn[c] = "new"
  /\ IF \A i \in Slots : slots[i] # NoConn
     THEN /\ conn' = [conn EXCEPT ![c] = "closed"]
          /\ UNCHANGED <<session, slots>>
     ELSE \E i \in Slots, fd \in Fds :
            /\ slots[i] = NoConn /\ \A j \in 1..(i - 1) : slots[j] # NoConn
            /\ IsLowestFreeFd(fd)
            /\ conn' = [conn EXCEPT ![c] = "open"]
            /\ session' = [session EXCEPT ![c] = [user |-> NoUser, token |-> NoToken,
                                                  fd |-> fd]]
            /\ slots' = [slots EXCEPT ![i] = c]
  /\ UNCHANGED <<row, nextToken>>

\* Seeded fault: the session keeps the first token it was given.
LoginKeepsToken(c, u) ==
  /\ Readable(c)
  /\ EventTaken(c)
  /\ ActiveRows(u) = {}
  /\ nextToken \in Tokens
  /\ row' = [row EXCEPT ![nextToken] = [user |-> u, active |-> TRUE, idle |-> FALSE]]
  /\ session' = [session EXCEPT ![c].user = u,
                               ![c].token = IF @ = NoToken THEN nextToken ELSE @]
  /\ nextToken' = nextToken + 1
  /\ UNCHANGED slots

\* Seeded fault: nobody asks whether the user is logged in already.
LoginUnchecked(c, u) ==
  /\ Readable(c)
  /\ EventTaken(c)
  /\ nextToken \in Tokens
  /\ row' = [row EXCEPT ![nextToken] = [user |-> u, active |-> TRUE, idle |-> FALSE]]
  /\ session' = [session EXCEPT ![c].user = u, ![c].token = nextToken]
  /\ nextToken' = nextToken + 1
  /\ UNCHANGED slots

\* LOGIN, refused while the user has a row that has not expired.  It is also
\* allowed on a connection that is logged in: the session changes hands and
\* the row of the user it had stays.
Login(c, u) ==
  /\ Readable(c)
  /\ EventTaken(c)
  /\ ActiveRows(u) = {}
  /\ nextToken \in Tokens
  /\ row' = [row EXCEPT ![nextToken] = [user |-> u, active |-> TRUE, idle |-> FALSE]]
  /\ session' = [session EXCEPT ![c] = [user |-> u, token |-> nextToken,
                                        fd |-> session[c].fd]]
  /\ nextToken' = nextToken + 1
  /\ UNCHANGED slots

\* LOGOUT, after the token check: all rows of the user expire.
Logout(c) ==
  /\ Readable(c)
  /\ EventTaken(c)
  /\ Valid(c)
  /\ \E rows \in Touched(c) : row' \in ExpireOrFail(rows, ActiveRows(session[c].user))
  /\ session' = [session EXCEPT ![c] = [user |-> NoUser, token |-> NoToken,
                                        fd |-> session[c].fd]]
  /\ UNCHANGED <<slots, nextToken>>

\* Seeded fault: the token is touched before it is checked.
TouchFirst(c) ==
  /\ Readable(c)
  /\ EventTaken(c)
  /\ session[c].token # NoToken
  /\ row' = [row EXCEPT ![session[c].token].idle = FALSE,
                        ![session[c].token].active = TRUE]
  /\ UNCHANGED <<session, slots, nextToken>>

\* Any other packet: a valid token is touched, the one of a heartbeat, too; an
\* expired one is answered with an error.  Part of a packet, a registration
\* and a login that is refused leave all as it is.
Request(c) ==
  /\ Readable(c)
  /\ EventTaken(c)
  /\ row' \in {row} \cup (IF Valid(c) THEN Touched(c) ELSE {})
  /\ UNCHANGED <<session, slots, nextToken>>

\* What the loop does when reading fails: the rows of the user expire.  The
\* session stays in its slot, because EventFd is not its descriptor.
ReadFailed(c) ==
  /\ IF session[c].user # NoUser
     THEN row' \in ExpireOrFail(row, ActiveRows(session[c].user))
     ELSE UNCHANGED row
  /\ slots' = RemovedByFd(EventFd)
  /\ UNCHANGED <<session, nextToken>>

\* recv reports the end of a connection, or that there is no room for more.
Disconnected(c) ==
  /\ conn[c] \in {"closing", "reset", "jammed"}
  /\ conn' = [conn EXCEPT ![c] = CASE @ = "closing" -> "dead"
                                   [] @ = "reset"   -> "broken"
                                   [] OTHER         -> @]
  /\ ReadFailed(c)

\* The header announces a packet larger than the buffer.
PacketTooLarge(c) ==
  /\ LargePackets
  /\ conn[c] = "open"
  /\ conn' = [conn EXCEPT ![c] = "jammed"]
  /\ ReadFailed(c)

\* dao_sessions_find_stale_users
StaleUsers == {u \in Users : \E t \in ActiveRows(u) : row[t].idle}

\* The descriptors the cleanup closes: those in the sessions it finds.
StaleFds == {session[c].fd : c \in UNION {FoundFor(u) : u \in StaleUsers}}

\* Seeded fault: the rows of users without a session are forgotten.
StaleTokensFound ==
  {t \in Tokens : row[t].active /\ row[t].idle /\ FoundFor(row[t].user) # {}}

\* The rows dao_sessions_cleanup_stale expires.
StaleTokens == {t \in Tokens : row[t].active /\ row[t].idle}

\* The cleanup every 30 seconds: the descriptor found for a stale user is
\* closed, whatever it is open for by now (or none is, when the users cannot be
\* read), and the stale rows expire.
StaleCleanup ==
  /\ StaleUsers # {}
  /\ \E closed \in {StaleFds} \cup (IF DbMayFail THEN {{}} ELSE {}) :
       conn' = [c \in Conns |-> IF conn[c] \in HoldsFd /\ session[c].fd \in closed
                                THEN "closed" ELSE conn[c]]
  /\ row' \in ExpireOrFail(row, StaleTokens)
  /\ UNCHANGED <<session, slots, nextToken>>

\* The server process ends and starts again: its memory and its sockets are
\* gone, and main expires all rows (or goes on without having done so).
Restart ==
  /\ conn' = [c \in Conns |-> IF conn[c] = "new" THEN "new" ELSE "closed"]
  /\ session' = [c \in Conns |-> [user |-> NoUser, token |-> NoToken, fd |-> NoFd]]
  /\ slots' = [i \in Slots |-> NoConn]
  /\ row' \in ExpireOrFail(row, Tokens)
  /\ UNCHANGED nextToken

-----------------------------------------------------------------------------
(* The environment *)

\* A client closes its connection, or the network does.  To a jammed one that makes
\* no difference: the server reads nothing from it any more.
PeerCloses(c) ==
  /\ conn[c] = "open"
  /\ conn' = [conn EXCEPT ![c] = "closing"]
  /\ UNCHANGED <<session, slots, row, nextToken>>

\* A message to the session of a dead connection was answered with a reset.
ResetArrives(c) ==
  /\ conn[c] = "dead"
  /\ conn' = [conn EXCEPT ![c] = "reset"]
  /\ UNCHANGED <<session, slots, row, nextToken>>

\* STALE_SESSION_TIMEOUT passes without a request that carries the token.
TimePasses(t) ==
  /\ row[t].active
  /\ row' = [row EXCEPT ![t].idle = TRUE]
  /\ UNCHANGED <<conn, session, slots, nextToken>>

-----------------------------------------------------------------------------
Init ==
  /\ conn = [c \in Conns |-> "new"]
  /\ session = [c \in Conns |-> [user |-> NoUser, token |-> NoToken, fd |-> NoFd]]
  /\ slots = [i \in Slots |-> NoConn]
  /\ row = [t \in Tokens |-> [user |-> NoUser, active |-> FALSE, idle |-> FALSE]]
  /\ nextToken = 1

Next ==
  \/ \E c \in Conns : \/ Connect(c) \/ Logout(c) \/ Request(c) \/ Disconnected(c)
                      \/ PacketTooLarge(c)
                      \/ PeerCloses(c) \/ ResetArrives(c)
                      \/ \E u \in Users : Login(c, u)
  \/ \E t \in Tokens : TimePasses(t)
  \/ StaleCleanup
  \/ Restart

Spec == Init /\ [][Next]_vars

CleanupSucceeds == StaleCleanup /\ row' = Expire(row, StaleTokens)

\* The loop runs the cleanup every 30 seconds, and time goes on; the database does
\* not refuse the cleanup for ever.
FairSpec == /\ Spec
            /\ WF_vars(CleanupSucceeds)
            /\ \A t \in Tokens : WF_vars(TimePasses(t))

-----------------------------------------------------------------------------
(* Properties *)

\* Types of the variables.
TypeOK ==
  /\ conn \in [Conns -> ConnStates]
  /\ session \in [Conns -> ClientSession]
  /\ slots \in [Slots -> Conns \cup {NoConn}]
  /\ row \in [Tokens -> Row]
  /\ nextToken \in 1..(MaxTokens + 1)

\* Tokens are made in order: a row that was not made yet is nobody's.
RowsAreMade == \A t \in Tokens : t >= nextToken => ~row[t].active

\* The token in a session belongs to the user in it, and to no other session,
\* also after a second login on the same connection (auth_dispatch).
TokensFitSessions ==
  \A c \in Conns :
    /\ session[c].user = NoUser <=> session[c].token = NoToken
    /\ session[c].token # NoToken =>
         /\ session[c].token < nextToken
         /\ row[session[c].token].user = session[c].user
         /\ \A d \in Conns : session[d].token = session[c].token => d = c

\* A user has one token at most that has not expired, whatever the order of
\* logins, disconnects, cleanups and restarts (migration_forbid_login.sql).
OneActiveToken ==
  \A t1, t2 \in Tokens :
    row[t1].active /\ row[t2].active /\ row[t1].user = row[t2].user => t1 = t2

\* The logins are in order: the inductive invariant of the proofs, on the state
\* auth_dispatch and the event loop keep.
LoginInv == TypeOK /\ RowsAreMade /\ TokensFitSessions /\ OneActiveToken

\* A connection the server still takes requests of a user from.
Acts(c) == conn[c] = "open" /\ Valid(c)

\* One account, one device: no two connections act for the same user.
NoTwoActors ==
  \A c, d \in Conns : Acts(c) /\ Acts(d) /\ session[c].user = session[d].user => c = d

\* What has expired stays expired: a request with an old token brings back
\* no login, only LOGIN makes a row active (dispatcher_handle_packet).
ExpiredStaysExpired ==
  [][\A t \in Tokens : t < nextToken /\ ~row[t].active => ~row'[t].active]_vars

\* Nobody stays locked out: a row that no connection can use any more (its
\* client is gone, or logged in as somebody else) expires some day.
NobodyLockedOut ==
  \A t \in Tokens :
    (row[t].active /\ \A c \in Conns : session[c].token = t => ~Readable(c))
      ~> ~row[t].active

-----------------------------------------------------------------------------
(* What comments of the repository say *)

\* auth_service.c: after a login the session is "properly registered": what
\* is sent to the user goes to the connection the user is logged in on.
MessagesFindTheUser == \A c \in Conns : Acts(c) => FoundFor(session[c].user) = {c}
=============================================================================
