------------------------- MODULE Sessions_proofs -------------------------
(***************************************************************************)
(* For any number of users, connections, slots and tokens: the logins stay *)
(* in order (LoginInv), so that no account has two devices that act for it *)
(* and no expired token comes back to life.                                *)
(*                                                                         *)
(* Every action but Login only expires rows and leaves or empties sessions *)
(* (RowsOnlyExpire, SessionsOnlyEmptied); LoginInv survives all such steps *)
(* alike (InvKept), and Login is the one case of its own.                  *)
(***************************************************************************)
EXTENDS Sessions, TLAPS

NoLogin == [user |-> NoUser, token |-> NoToken]

\* Rows r hold the users of the rows s and no login that s does not hold.
NoMoreThan(r, s) ==
  /\ r \in [Tokens -> Row]
  /\ \A t \in Tokens : r[t].user = s[t].user /\ (r[t].active => s[t].active)

\* Every session keeps user and token, or loses both.
LoginsKeptOrEmptied ==
  /\ session' \in [Conns -> ClientSession]
  /\ \A c \in Conns :
       \/ session'[c].user = session[c].user /\ session'[c].token = session[c].token
       \/ session'[c].user = NoUser /\ session'[c].token = NoToken

\* All steps but logins, which are of the steps of one connection the only ones
\* that make a row.
StepWithoutLogin ==
  \/ \E c \in Conns : \/ Connect(c) \/ Logout(c) \/ Request(c) \/ Disconnected(c)
                      \/ PacketTooLarge(c) \/ PeerCloses(c) \/ ResetArrives(c)
  \/ \E t \in Tokens : TimePasses(t)
  \/ StaleCleanup
  \/ Restart

-----------------------------------------------------------------------------
(* What the table writes do *)

\* An UPDATE that expires rows, or fails, makes no login.
LEMMA ExpireMakesNone ==
  ASSUME NEW rows \in [Tokens -> Row], NEW S, NEW r \in ExpireOrFail(rows, S)
  PROVE  NoMoreThan(r, rows)
<1>1. CASE r = Expire(rows, S)
  <2>1. \A t \in Tokens : rows[t] \in Row
    OBVIOUS
  <2>2. \A t \in Tokens : [rows[t] EXCEPT !.active = FALSE] \in Row
    BY <2>1 DEF Row
  <2>3. r \in [Tokens -> Row]
    BY <1>1, <2>1, <2>2 DEF Expire
  <2>4. ASSUME NEW t \in Tokens
        PROVE  r[t].user = rows[t].user /\ (r[t].active => rows[t].active)
    <3>1. CASE t \in S
      <4>1. r[t] = [rows[t] EXCEPT !.active = FALSE]
        BY <1>1, <3>1 DEF Expire
      <4>2. r[t].user = rows[t].user /\ r[t].active = FALSE
        BY <4>1, <2>1 DEF Row
      <4> QED  BY <4>2
    <3>2. CASE t \notin S
      BY <1>1, <3>2 DEF Expire
    <3> QED  BY <3>1, <3>2
  <2> QED  BY <2>3, <2>4 DEF NoMoreThan
<1>2. CASE r = rows
  BY <1>2 DEF NoMoreThan
<1> QED  BY <1>1, <1>2 DEF ExpireOrFail

\* Touching a token makes no login.
LEMMA TouchMakesNone ==
  ASSUME TypeOK, NEW c \in Conns, Valid(c), NEW r \in Touched(c)
  PROVE  NoMoreThan(r, row)
<1> DEFINE t0 == session[c].token
<1>1. t0 \in Tokens
  BY DEF TypeOK, ClientSession, Valid
<1>2. \A t \in Tokens : row[t] \in Row
  BY DEF TypeOK
<1>3. [row[t0] EXCEPT !.idle = FALSE] \in Row
  BY <1>1, <1>2 DEF Row
<1>4. CASE r = [row EXCEPT ![t0].idle = FALSE]
  <2>1. r \in [Tokens -> Row]
    BY <1>1, <1>3, <1>4 DEF TypeOK
  <2>2. ASSUME NEW t \in Tokens
        PROVE  r[t].user = row[t].user /\ (r[t].active => row[t].active)
    <3>1. CASE t = t0
      <4>1. r[t] = [row[t] EXCEPT !.idle = FALSE]
        BY <1>1, <1>4, <3>1 DEF TypeOK
      <4>2. r[t].user = row[t].user /\ r[t].active = row[t].active
        BY <4>1, <1>2 DEF Row
      <4> QED  BY <4>2
    <3>2. CASE t # t0
      BY <1>1, <1>4, <3>2 DEF TypeOK
    <3> QED  BY <3>1, <3>2
  <2> QED  BY <2>1, <2>2 DEF NoMoreThan
<1>5. CASE r = row
  BY <1>5 DEF NoMoreThan, TypeOK
<1> QED  BY <1>4, <1>5 DEF Touched

LEMMA NoMoreThanTransitive ==
  ASSUME NEW r, NEW s, NEW u, NoMoreThan(r, s), NoMoreThan(s, u)
  PROVE  NoMoreThan(r, u)
BY DEF NoMoreThan

\* Reading from a connection changes nothing but perhaps its state.
LEMMA EventTakenType ==
  ASSUME conn \in [Conns -> ConnStates], NEW c \in Conns, EventTaken(c)
  PROVE  conn' \in [Conns -> ConnStates]
BY DEF EventTaken, ConnStates, HoldsFd

-----------------------------------------------------------------------------
(* Steps without a login *)

\* What a failed read does to the rows.
LEMMA ReadFailedMakesNone ==
  ASSUME TypeOK, NEW c \in Conns, ReadFailed(c)
  PROVE  /\ NoMoreThan(row', row)
         /\ slots' \in [Slots -> Conns \cup {NoConn}]
         /\ UNCHANGED <<session, nextToken>>
<1>1. NoMoreThan(row', row)
  <2>1. CASE session[c].user # NoUser
    BY <2>1, ExpireMakesNone DEF ReadFailed, TypeOK
  <2>2. CASE session[c].user = NoUser
    BY <2>2 DEF ReadFailed, NoMoreThan, TypeOK
  <2> QED  BY <2>1, <2>2
<1>2. slots' \in [Slots -> Conns \cup {NoConn}]
  BY DEF ReadFailed, RemovedByFd, TypeOK
<1> QED  BY <1>1, <1>2 DEF ReadFailed

\* Only LOGIN makes a row active.
LEMMA RowsOnlyExpire ==
  ASSUME TypeOK, StepWithoutLogin
  PROVE  NoMoreThan(row', row)
<1>1. \A t \in Tokens : row[t] \in Row
  BY DEF TypeOK
<1>2. NoMoreThan(row, row)
  BY DEF NoMoreThan, TypeOK
<1>3. ASSUME NEW c \in Conns, Connect(c) \/ PeerCloses(c) \/ ResetArrives(c)
      PROVE  NoMoreThan(row', row)
  BY <1>2, <1>3 DEF Connect, PeerCloses, ResetArrives
<1>4. ASSUME NEW c \in Conns, Logout(c)
      PROVE  NoMoreThan(row', row)
  <2>1. PICK rows \in Touched(c) : row' \in ExpireOrFail(rows, ActiveRows(session[c].user))
    BY <1>4 DEF Logout
  <2>2. NoMoreThan(rows, row)
    BY <1>4, <2>1, TouchMakesNone DEF Logout
  <2>3. NoMoreThan(row', rows)
    BY <2>1, <2>2, ExpireMakesNone DEF NoMoreThan
  <2> QED  BY <2>2, <2>3, NoMoreThanTransitive
<1>5. ASSUME NEW c \in Conns, Request(c)
      PROVE  NoMoreThan(row', row)
  <2>1. CASE row' = row
    BY <1>2, <2>1
  <2>2. CASE Valid(c) /\ row' \in Touched(c)
    BY <2>2, TouchMakesNone
  <2> QED  BY <1>5, <2>1, <2>2 DEF Request
<1>6. ASSUME NEW c \in Conns, Disconnected(c) \/ PacketTooLarge(c)
      PROVE  NoMoreThan(row', row)
  BY <1>6, ReadFailedMakesNone DEF Disconnected, PacketTooLarge
<1>7. ASSUME NEW t \in Tokens, TimePasses(t)
      PROVE  NoMoreThan(row', row)
  <2>1. [row[t] EXCEPT !.idle = TRUE] \in Row
    BY <1>1 DEF Row
  <2>2. row' = [row EXCEPT ![t] = [row[t] EXCEPT !.idle = TRUE]]
    BY <1>7 DEF TimePasses
  <2>3. row' \in [Tokens -> Row]
    BY <2>1, <2>2 DEF TypeOK
  <2>4. [row[t] EXCEPT !.idle = TRUE].user = row[t].user
        /\ [row[t] EXCEPT !.idle = TRUE].active = row[t].active
    BY <1>1 DEF Row
  <2>5. \A s \in Tokens : row'[s] = IF s = t THEN [row[t] EXCEPT !.idle = TRUE] ELSE row[s]
    BY <2>2 DEF TypeOK
  <2> QED  BY <2>3, <2>4, <2>5 DEF NoMoreThan
<1>8. CASE StaleCleanup
  BY <1>8, ExpireMakesNone DEF StaleCleanup, TypeOK
<1>9. CASE Restart
  BY <1>9, ExpireMakesNone DEF Restart, TypeOK
<1> QED  BY <1>3, <1>4, <1>5, <1>6, <1>7, <1>8, <1>9 DEF StepWithoutLogin

\* Only LOGIN gives a session a token.
LEMMA SessionsOnlyEmptied ==
  ASSUME TypeOK, StepWithoutLogin
  PROVE  LoginsKeptOrEmptied
<1>1. \A c \in Conns : session[c] \in ClientSession
  BY DEF TypeOK
<1>2. CASE UNCHANGED session
  BY <1>2 DEF LoginsKeptOrEmptied, TypeOK
<1>3. ASSUME NEW c \in Conns, Connect(c)
      PROVE  LoginsKeptOrEmptied
  <2>1. CASE \A i \in Slots : slots[i] # NoConn
    BY <1>2, <1>3, <2>1 DEF Connect
  <2>2. CASE ~ \A i \in Slots : slots[i] # NoConn
    <3>1. PICK fd \in Fds : session' = [session EXCEPT ![c] =
                              [user |-> NoUser, token |-> NoToken, fd |-> fd]]
      BY <1>3, <2>2 DEF Connect
    <3>2. [user |-> NoUser, token |-> NoToken, fd |-> fd] \in ClientSession
      BY DEF ClientSession
    <3> QED  BY <3>1, <3>2 DEF LoginsKeptOrEmptied, TypeOK
  <2> QED  BY <2>1, <2>2
<1>4. ASSUME NEW c \in Conns, Logout(c)
      PROVE  LoginsKeptOrEmptied
  <2> DEFINE s == [user |-> NoUser, token |-> NoToken, fd |-> session[c].fd]
  <2>1. s \in ClientSession
    BY <1>1 DEF ClientSession
  <2>2. session' = [session EXCEPT ![c] = s]
    BY <1>4 DEF Logout
  <2>3. s.user = NoUser /\ s.token = NoToken
    OBVIOUS
  <2> HIDE DEF s
  <2> QED  BY <2>1, <2>2, <2>3 DEF LoginsKeptOrEmptied, TypeOK
<1>5. ASSUME NEW c \in Conns,
             \/ Request(c) \/ Disconnected(c) \/ PacketTooLarge(c)
             \/ PeerCloses(c) \/ ResetArrives(c)
      PROVE  UNCHANGED session
  BY <1>5 DEF Request, Disconnected, PacketTooLarge, ReadFailed, PeerCloses, ResetArrives
<1>6. ASSUME NEW t \in Tokens, TimePasses(t)
      PROVE  UNCHANGED session
  BY <1>6 DEF TimePasses
<1>7. CASE StaleCleanup
  BY <1>2, <1>7 DEF StaleCleanup
<1>8. CASE Restart
  <2>1. [user |-> NoUser, token |-> NoToken, fd |-> NoFd] \in ClientSession
    BY DEF ClientSession
  <2> QED  BY <1>8, <2>1 DEF Restart, LoginsKeptOrEmptied
<1> QED  BY <1>2, <1>3, <1>4, <1>5, <1>6, <1>7, <1>8 DEF StepWithoutLogin

\* The sockets and the table of sessions keep their types.
LEMMA SocketTypes ==
  ASSUME TypeOK, StepWithoutLogin
  PROVE  /\ conn' \in [Conns -> ConnStates]
         /\ slots' \in [Slots -> Conns \cup {NoConn}]
         /\ nextToken' = nextToken
<1>1. ASSUME NEW c \in Conns, Connect(c)
      PROVE  /\ conn' \in [Conns -> ConnStates]
             /\ slots' \in [Slots -> Conns \cup {NoConn}]
             /\ nextToken' = nextToken
  <2>1. CASE \A i \in Slots : slots[i] # NoConn
    BY <1>1, <2>1 DEF Connect, TypeOK, ConnStates
  <2>2. CASE ~ \A i \in Slots : slots[i] # NoConn
    <3>1. PICK i \in Slots : /\ slots' = [slots EXCEPT ![i] = c]
                             /\ conn' = [conn EXCEPT ![c] = "open"]
      BY <1>1, <2>2 DEF Connect
    <3> QED  BY <1>1, <3>1 DEF Connect, TypeOK, ConnStates, HoldsFd
  <2> QED  BY <2>1, <2>2
<1>2. ASSUME NEW c \in Conns, Logout(c) \/ Request(c)
      PROVE  /\ conn' \in [Conns -> ConnStates]
             /\ slots' \in [Slots -> Conns \cup {NoConn}]
             /\ nextToken' = nextToken
  BY <1>2, EventTakenType DEF Logout, Request, TypeOK
<1>3. ASSUME NEW c \in Conns, Disconnected(c) \/ PacketTooLarge(c)
      PROVE  /\ conn' \in [Conns -> ConnStates]
             /\ slots' \in [Slots -> Conns \cup {NoConn}]
             /\ nextToken' = nextToken
  <2>1. conn' \in [Conns -> ConnStates]
    BY <1>3 DEF Disconnected, PacketTooLarge, TypeOK, ConnStates, HoldsFd
  <2>2. ReadFailed(c)
    BY <1>3 DEF Disconnected, PacketTooLarge
  <2> QED  BY <2>1, <2>2, ReadFailedMakesNone
<1>4. ASSUME NEW c \in Conns, PeerCloses(c) \/ ResetArrives(c)
      PROVE  /\ conn' \in [Conns -> ConnStates]
             /\ slots' \in [Slots -> Conns \cup {NoConn}]
             /\ nextToken' = nextToken
  BY <1>4 DEF PeerCloses, ResetArrives, TypeOK, ConnStates, HoldsFd
<1>5. ASSUME NEW t \in Tokens, TimePasses(t)
      PROVE  UNCHANGED <<conn, slots, nextToken>>
  BY <1>5 DEF TimePasses
<1>6. CASE StaleCleanup
  BY <1>6 DEF StaleCleanup, TypeOK, ConnStates
<1>7. CASE Restart
  BY <1>7 DEF Restart, TypeOK, ConnStates
<1> QED  BY <1>1, <1>2, <1>3, <1>4, <1>5, <1>6, <1>7 DEF StepWithoutLogin, TypeOK

-----------------------------------------------------------------------------
(* The inductive invariant *)

LEMMA InvInit == Init => LoginInv
<1> SUFFICES ASSUME Init PROVE LoginInv
  OBVIOUS
<1>1. [user |-> NoUser, token |-> NoToken, fd |-> NoFd] \in ClientSession
  BY DEF ClientSession
<1>2. [user |-> NoUser, active |-> FALSE, idle |-> FALSE] \in Row
  BY DEF Row
<1>3. TypeOK
  BY <1>1, <1>2, SessionsAssumption DEF Init, TypeOK, ConnStates
<1>4. RowsAreMade /\ TokensFitSessions /\ OneActiveToken
  BY DEF Init, RowsAreMade, TokensFitSessions, OneActiveToken
<1> QED  BY <1>3, <1>4 DEF LoginInv

\* A step that makes no login keeps the logins in order.
LEMMA InvKept ==
  ASSUME LoginInv, StepWithoutLogin
  PROVE  LoginInv'
<1>1. TypeOK /\ RowsAreMade /\ TokensFitSessions /\ OneActiveToken
  BY DEF LoginInv
<1>2. NoMoreThan(row', row) /\ LoginsKeptOrEmptied /\ nextToken' = nextToken
  BY <1>1, RowsOnlyExpire, SessionsOnlyEmptied, SocketTypes
<1>3. TypeOK'
  BY <1>1, <1>2, SocketTypes DEF TypeOK, NoMoreThan, LoginsKeptOrEmptied
<1>4. RowsAreMade'
  BY <1>1, <1>2 DEF RowsAreMade, NoMoreThan
<1>5. TokensFitSessions'
  <2>1. ASSUME NEW c \in Conns
        PROVE  session'[c].user = NoUser <=> session'[c].token = NoToken
    BY <1>1, <1>2 DEF LoginsKeptOrEmptied, TokensFitSessions
  <2>2. ASSUME NEW c \in Conns, session'[c].token # NoToken
        PROVE  /\ session'[c].token < nextToken'
               /\ row'[session'[c].token].user = session'[c].user
               /\ \A d \in Conns : session'[d].token = session'[c].token => d = c
    <3>1. session'[c].user = session[c].user /\ session'[c].token = session[c].token
      BY <1>2, <2>2 DEF LoginsKeptOrEmptied
    <3>2. session[c].token \in Tokens
      BY <1>1, <2>2, <3>1 DEF TypeOK, ClientSession
    <3>3. row'[session'[c].token].user = session'[c].user
      BY <1>1, <1>2, <2>2, <3>1, <3>2 DEF NoMoreThan, TokensFitSessions
    <3>4. ASSUME NEW d \in Conns, session'[d].token = session'[c].token
          PROVE  d = c
      <4>1. session[d].token = session[c].token
        BY <1>2, <2>2, <3>1, <3>4 DEF LoginsKeptOrEmptied
      <4> QED  BY <1>1, <2>2, <3>1, <4>1 DEF TokensFitSessions
    <3> QED  BY <1>1, <1>2, <2>2, <3>1, <3>3, <3>4 DEF TokensFitSessions
  <2> QED  BY <2>1, <2>2 DEF TokensFitSessions
<1>6. OneActiveToken'
  BY <1>1, <1>2 DEF OneActiveToken, NoMoreThan
<1> QED  BY <1>3, <1>4, <1>5, <1>6 DEF LoginInv

\* LOGIN makes one row and hands it to one session.
LEMMA LoginStep ==
  ASSUME LoginInv, NEW c \in Conns, NEW u \in Users, Login(c, u)
  PROVE  LoginInv'
<1> DEFINE s == [user |-> u, token |-> nextToken, fd |-> session[c].fd]
           r == [user |-> u, active |-> TRUE, idle |-> FALSE]
<1>1. TypeOK /\ RowsAreMade /\ TokensFitSessions /\ OneActiveToken
  BY DEF LoginInv
<1>2. nextToken \in Tokens /\ nextToken' = nextToken + 1 /\ slots' = slots
  BY DEF Login
<1>3. s \in ClientSession /\ s.user = u /\ s.token = nextToken
  BY <1>1, <1>2 DEF TypeOK, ClientSession
<1>4. session' = [session EXCEPT ![c] = s]
  BY DEF Login
<1>5. r \in Row /\ r.user = u /\ r.active
  BY DEF Row
<1>6. row' = [row EXCEPT ![nextToken] = r]
  BY DEF Login
<1>7. u # NoUser /\ nextToken # NoToken
  BY <1>2, SessionsAssumption DEF NoUser, NoToken, Tokens
<1> HIDE DEF s, r
<1>8. \A d \in Conns : session'[d] = IF d = c THEN s ELSE session[d]
  BY <1>1, <1>4 DEF TypeOK
<1>9. \A t \in Tokens : row'[t] = IF t = nextToken THEN r ELSE row[t]
  BY <1>1, <1>2, <1>6 DEF TypeOK
<1>10. TypeOK'
  <2>1. conn' \in [Conns -> ConnStates]
    BY <1>1, EventTakenType DEF Login, TypeOK
  <2>2. nextToken' \in 1..(MaxTokens + 1)
    BY <1>2, SessionsAssumption DEF Tokens
  <2> QED  BY <1>1, <1>2, <1>3, <1>4, <1>5, <1>6, <2>1, <2>2 DEF TypeOK
<1>11. RowsAreMade'
  BY <1>1, <1>2, <1>9, SessionsAssumption DEF RowsAreMade, Tokens
<1>12. TokensFitSessions'
  <2>1. \A d \in Conns : session'[d].user = NoUser <=> session'[d].token = NoToken
    BY <1>1, <1>3, <1>7, <1>8 DEF TokensFitSessions
  <2>2. \A d \in Conns : session[d].token # NoToken =>
                           session[d].token \in Tokens /\ session[d].token < nextToken
    BY <1>1 DEF TypeOK, ClientSession, TokensFitSessions
  <2>3. ASSUME NEW d \in Conns, session'[d].token # NoToken
        PROVE  /\ session'[d].token < nextToken'
               /\ row'[session'[d].token].user = session'[d].user
               /\ \A e \in Conns : session'[e].token = session'[d].token => e = d
    <3>1. nextToken \in Nat /\ \A t \in Tokens : t \in Nat
      BY <1>2 DEF Tokens
    <3>2. CASE d = c
      BY <1>2, <1>3, <1>5, <1>7, <1>8, <1>9, <2>2, <3>1, <3>2
    <3>3. CASE d # c
      <4>1. session'[d] = session[d] /\ session[d].token # nextToken
        BY <1>8, <2>2, <2>3, <3>1, <3>3
      <4>2. row'[session'[d].token].user = session'[d].user
        BY <1>1, <1>9, <2>2, <2>3, <4>1 DEF TokensFitSessions
      <4>3. session'[d].token < nextToken'
        <5>1. session[d].token \in Nat /\ session[d].token < nextToken
          BY <2>2, <2>3, <3>1, <4>1
        <5>2. session[d].token < nextToken + 1
          BY <3>1, <5>1
        <5> QED  BY <1>2, <4>1, <5>2
      <4>4. \A e \in Conns : session'[e].token = session'[d].token => e = d
        BY <1>1, <1>3, <1>8, <2>3, <4>1 DEF TokensFitSessions
      <4> QED  BY <4>2, <4>3, <4>4
    <3> QED  BY <3>2, <3>3
  <2> QED  BY <2>1, <2>3 DEF TokensFitSessions
<1>13. OneActiveToken'
  <2>1. \A t \in Tokens : ~ (row[t].user = u /\ row[t].active)
    BY DEF Login, ActiveRows
  <2> QED  BY <1>1, <1>5, <1>9, <2>1 DEF OneActiveToken
<1> QED  BY <1>10, <1>11, <1>12, <1>13 DEF LoginInv

\* Every step is a login or makes none.
LEMMA StepsSplit ==
  ASSUME Next
  PROVE  StepWithoutLogin \/ \E c \in Conns, u \in Users : Login(c, u)
BY DEF Next, StepWithoutLogin

LEMMA InvStutters ==
  ASSUME LoginInv, UNCHANGED vars
  PROVE  LoginInv'
BY DEF LoginInv, TypeOK, RowsAreMade, TokensFitSessions, OneActiveToken, vars

LEMMA InvInductive == LoginInv /\ [Next]_vars => LoginInv'
BY StepsSplit, InvKept, LoginStep, InvStutters

-----------------------------------------------------------------------------
(* The theorems *)

\* For any number of users, connections and tokens, the logins stay in order,
\* whatever auth_dispatch and the event loop are asked to do.
THEOREM LoginsInOrder == Spec => []LoginInv
BY InvInit, InvInductive, PTL DEF Spec

\* At most one token of a user has not expired (auth_login, FORBID-LOGIN).
THEOREM OneActiveTokenAlways == Spec => []OneActiveToken
<1>1. LoginInv => OneActiveToken
  BY DEF LoginInv
<1> QED  BY <1>1, LoginsInOrder, PTL

\* One account, one device: no two connections act for the same user.
THEOREM OneDevice == Spec => []NoTwoActors
<1>1. LoginInv => NoTwoActors
  <2> SUFFICES ASSUME LoginInv, NEW c \in Conns, NEW d \in Conns,
                      Acts(c), Acts(d), session[c].user = session[d].user
               PROVE  c = d
    BY DEF NoTwoActors
  <2>1. TypeOK /\ TokensFitSessions /\ OneActiveToken
    BY DEF LoginInv
  <2>2. session[c].token \in Tokens /\ session[d].token \in Tokens
    BY <2>1 DEF TypeOK, ClientSession, Acts, Valid
  <2>3. session[c].token = session[d].token
    BY <2>1, <2>2 DEF TokensFitSessions, OneActiveToken, Acts, Valid
  <2> QED  BY <2>1, <2>3 DEF TokensFitSessions, Acts, Valid
<1> QED  BY <1>1, LoginsInOrder, PTL

\* No request brings an expired token back (dispatcher_handle_packet checks it
\* before dao_sessions_touch, which would).
THEOREM ExpiredForGood == Spec => ExpiredStaysExpired
<1> DEFINE A == \A t \in Tokens : t < nextToken /\ ~row[t].active => ~row'[t].active
<1>1. LoginInv /\ [Next]_vars => [A]_vars
  <2> SUFFICES ASSUME LoginInv, Next
               PROVE  A
    OBVIOUS
  <2>1. TypeOK
    BY DEF LoginInv
  <2>2. CASE StepWithoutLogin
    BY <2>1, <2>2, RowsOnlyExpire DEF NoMoreThan
  <2>3. ASSUME NEW c \in Conns, NEW u \in Users, Login(c, u)
        PROVE  A
    BY <2>1, <2>3 DEF Login, TypeOK, Tokens
  <2> QED  BY <2>2, <2>3, StepsSplit
<1> QED  BY <1>1, LoginsInOrder, PTL DEF Spec, ExpiredStaysExpired
=============================================================================
