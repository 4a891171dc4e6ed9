------------------------ MODULE OneVNRounds_proofs ------------------------
(***************************************************************************)
(* The rounds, clocks and scores of 1vN games, for any players, rooms,     *)
(* table sizes, question counts and failures.  First what the record of a  *)
(* live game says of itself, of its rows and of its timer: a handler takes *)
(* one game out of the tables and puts it back or ends it, and all other   *)
(* games are left as they are.  Then the clocks: the table of callback     *)
(* timers has as many slots as the table of games has entries (100 in      *)
(* timer.c and in onevn_service.c); with no more games than slots a        *)
(* handler always finds a free one, so a live game keeps its clock and no  *)
(* round is cut short.  What a step may do to scores needs no such         *)
(* assumption.                                                             *)
(***************************************************************************)
EXTENDS OneVN_proofs, FiniteSetTheorems

-----------------------------------------------------------------------------
(* The inductive invariant *)

\* Before the first question of a game there is no round to compare with.
Counted(g) ==
  /\ g.round = Total(g.done)
  /\ g.round > 0 => g.round <= Total(g.config)
  /\ \A d \in Difficulties : g.done[d] > 0 => g.done[d] <= g.config[d]
  /\ \A u \in g.players : g.answered[u] \in {NotAnswered, g.round}

\* Beside the rows that failed to be closed, all of earlier rounds, only the
\* current one is open.
OpenRowIsCurrent(s, g, rp) ==
  /\ rp[s].open = rp[s].unended \cup (IF g.rowOpen THEN {g.round} ELSE {})
  /\ \A n \in rp[s].unended : n <= g.round /\ (g.rowOpen => n # g.round)

KeptInRoom(g, rooms) ==
  /\ g.players \subseteq rooms[g.room].members
  /\ g.eliminated \subseteq rooms[g.room].gone \cup rooms[g.room].unflagged
  /\ g.config = rooms[g.room].config
  /\ g.config = NoConfig => DefaultConfig = NoConfig

\* A round whose answers are to be saved has a row, unless that was not stored.
Scored(s, g, rp) ==
  /\ \A u \in Users : IF RowsMayFail THEN rp[s].gained[u] <= g.score[u]
                      ELSE rp[s].gained[u] = g.score[u]
  /\ ~RowsMayFail /\ g.round > 0 /\ Late(g) # {} => g.rowOpen

InOrder(s, g, rooms, rp) ==
  Counted(g) /\ OpenRowIsCurrent(s, g, rp) /\ KeptInRoom(g, rooms) /\ Scored(s, g, rp)

\* The round is over for everybody who is still playing.
Quiet(g) == Late(g) = {} /\ ~g.rowOpen

Over == {"NONE", "FINISHED", "ABORTED"}

RowsInOrder(t, sessions, rp, next) ==
  /\ sessions[t].status \in Over => rp[t].open = rp[t].unended
  /\ t >= next => sessions[t] = NoSession /\ rp[t] = NoReplay

RoundInv ==
  /\ \A i \in ActiveSlots(timers) :
       timers[i].callback # "round_timeout" => Quiet(games[timers[i].game])
  /\ \A s \in DOMAIN games : games[s].round > 0 /\ InOrder(s, games[s], room, replay)
  /\ \A t \in SessionIds : RowsInOrder(t, session, replay, nextSession)

\* The same of all games but s, while a handler works on s.
Working(s, table, rooms, sessions, rp, next) ==
  /\ OwnedBut(s, table)
  /\ \A i \in ActiveSlots(table) :
       table[i].callback # "round_timeout" => Quiet(games[table[i].game])
  /\ \A t \in DOMAIN games \ {s} : games[t].round > 0 /\ InOrder(t, games[t], rooms, rp)
  /\ \A t \in SessionIds \ {s} : RowsInOrder(t, sessions, rp, next)

-----------------------------------------------------------------------------
(* The record of a game in the hands of a handler *)

\* The timer_id has nothing to do with a round.
LEMMA TimerAside ==
  ASSUME NEW g \in Game, NEW id
  PROVE  LET h == [g EXCEPT !.timer = id]
         IN  /\ h.round = g.round /\ h.room = g.room
             /\ \A s, rooms, rp : InOrder(s, h, rooms, rp) <=> InOrder(s, g, rooms, rp)
             /\ Quiet(h) <=> Quiet(g)
             /\ Late(h) = Late(g)
<1> DEFINE h == [g EXCEPT !.timer = id]
<1>1. /\ h.round = g.round /\ h.done = g.done /\ h.config = g.config
      /\ h.players = g.players /\ h.answered = g.answered /\ h.eliminated = g.eliminated
      /\ h.score = g.score /\ h.room = g.room /\ h.rowOpen = g.rowOpen
  BY DEF Game
<1> HIDE DEF h
<1>2. Late(h) = Late(g)
  BY <1>1 DEF Late, Active
<1>3. Quiet(h) <=> Quiet(g)
  BY <1>1, <1>2 DEF Quiet
<1>4. ASSUME NEW s, NEW rooms, NEW rp
      PROVE  InOrder(s, h, rooms, rp) <=> InOrder(s, g, rooms, rp)
  BY <1>1, <1>2 DEF InOrder, Counted, OpenRowIsCurrent, KeptInRoom, Scored
<1> QED
  BY <1>1, <1>2, <1>3, <1>4 DEF h

\* The record with the next question (send_next_question).
LEMMA NextAsked ==
  ASSUME NEW g \in Game, NEW stored \in BOOLEAN
  PROVE  LET h == Asked(NextRound(g), stored)
             d == NextDifficulty(g)
         IN  /\ h.round = g.round + 1
             /\ h.done = [g.done EXCEPT ![d] = @ + 1]
             /\ h.answered = [u \in Users |-> NotAnswered]
             /\ h.config = g.config /\ h.players = g.players /\ h.eliminated = g.eliminated
             /\ h.score = g.score /\ h.room = g.room /\ h.timer = g.timer
<1> DEFINE n == NextRound(g)
           d == NextDifficulty(g)
<1>1. /\ n.round = g.round + 1 /\ n.difficulty = d /\ n.done = g.done
      /\ n.config = g.config /\ n.players = g.players /\ n.eliminated = g.eliminated
      /\ n.score = g.score /\ n.room = g.room /\ n.timer = g.timer /\ n.rowOpen = g.rowOpen
  BY DEF NextRound, Game
<1>2. n \in Game
  BY NextRoundType
<1> HIDE DEF n
<1> DEFINE h == Asked(n, stored)
<1>3. /\ h.round = n.round
      /\ h.done = [n.done EXCEPT ![n.difficulty] = @ + 1]
      /\ h.answered = [u \in Users |-> NotAnswered]
      /\ h.config = n.config /\ h.players = n.players /\ h.eliminated = n.eliminated
      /\ h.score = n.score /\ h.room = n.room /\ h.timer = n.timer
  BY <1>2 DEF Asked, Game
<1> HIDE DEF h, d
<1> QED
  BY <1>1, <1>3 DEF h, n, d

\* Whether the next question has a row.
LEMMA NextRowOpen ==
  ASSUME NEW g \in Game, NEW stored \in BOOLEAN
  PROVE  Asked(NextRound(g), stored).rowOpen = (stored \/ g.rowOpen)
<1>1. NextRound(g) \in Game /\ NextRound(g).rowOpen = g.rowOpen
  BY NextRoundType DEF NextRound, Game
<1>2. \A n \in Game : Asked(n, stored).rowOpen = (stored \/ n.rowOpen)
  BY DEF Asked, Game
<1> QED
  BY <1>1, <1>2, Zenon

\* A next round that is left to ask keeps to the configuration
\* (send_next_question).
LEMMA NextCounted ==
  ASSUME NEW g \in Game, Counted(g), g.round < Total(g.config), NEW stored \in BOOLEAN
  PROVE  Counted(Asked(NextRound(g), stored))
<1> DEFINE h == Asked(NextRound(g), stored)
           d == NextDifficulty(g)
<1>1. /\ h.round = g.round + 1
      /\ h.done = [g.done EXCEPT ![d] = @ + 1]
      /\ h.answered = [u \in Users |-> NotAnswered]
      /\ h.config = g.config /\ h.players = g.players
  BY NextAsked
<1> HIDE DEF h
<1>2. /\ g.round \in Nat /\ g.done \in [Difficulties -> Nat]
      /\ g.config \in [Difficulties -> Int] /\ g.players \subseteq Users
  BY DEF Game
<1>3. /\ g.round = g.done["EASY"] + g.done["MEDIUM"] + g.done["HARD"]
      /\ g.round < g.config["EASY"] + g.config["MEDIUM"] + g.config["HARD"]
  BY DEF Counted, Total
<1>4. d \in Difficulties /\ g.done[d] < g.config[d]
  <2>1. CASE g.done["EASY"] < g.config["EASY"]
    BY <2>1 DEF NextDifficulty, Difficulties
  <2>2. CASE ~(g.done["EASY"] < g.config["EASY"]) /\ g.done["MEDIUM"] < g.config["MEDIUM"]
    BY <2>2 DEF NextDifficulty, Difficulties
  <2>3. CASE ~(g.done["EASY"] < g.config["EASY"]) /\ ~(g.done["MEDIUM"] < g.config["MEDIUM"])
    BY <1>2, <1>3, <2>3 DEF NextDifficulty, Difficulties
  <2> QED
    BY <2>1, <2>2, <2>3
<1> HIDE DEF d
<1>5. h.round = Total(h.done)
  BY <1>1, <1>2, <1>3, <1>4 DEF Total, Difficulties
<1>6. h.round <= Total(h.config)
  BY <1>1, <1>2, <1>3 DEF Total, Difficulties
<1>7. ASSUME NEW e \in Difficulties, h.done[e] > 0 PROVE h.done[e] <= h.config[e]
  <2>1. CASE e = d
    <3>1. h.done[e] = g.done[d] + 1
      BY <1>1, <1>2, <1>4, <2>1
    <3>2. g.done[d] \in Nat /\ g.config[d] \in Int
      BY <1>2, <1>4
    <3> QED
      BY <1>1, <1>4, <2>1, <3>1, <3>2
  <2>2. CASE e # d
    <3>1. h.done[e] = g.done[e]
      BY <1>1, <1>2, <2>2
    <3> QED
      BY <1>1, <1>7, <3>1 DEF Counted
  <2> QED
    BY <2>1, <2>2
<1>8. \A u \in h.players : h.answered[u] = NotAnswered
  BY <1>1, <1>2
<1> QED
  BY <1>5, <1>6, <1>7, <1>8 DEF Counted, h

\* A question is asked in an orderly game whose last round is closed: the new
\* round has a row, unless that was not stored (send_next_question).
LEMMA AskedInOrder ==
  ASSUME NEW s \in SessionIds, NEW g \in Game, NEW rooms, NEW rp,
         InOrder(s, g, rooms, rp), ~g.rowOpen, g.round < Total(g.config),
         NEW stored \in BOOLEAN, ~RowsMayFail => stored, NEW rows,
         rows[s].gained = rp[s].gained,
         rp[s].unended \subseteq Nat, rows[s].unended = rp[s].unended,
         rows[s].open = rp[s].unended \cup (IF stored THEN {g.round + 1} ELSE {})
  PROVE  InOrder(s, Asked(NextRound(g), stored), rooms, rows)
<1> DEFINE h == Asked(NextRound(g), stored)
<1>1. Counted(h)
  BY NextCounted DEF InOrder
<1>2. /\ h.round = g.round + 1
      /\ h.done = [g.done EXCEPT ![NextDifficulty(g)] = @ + 1]
      /\ h.answered = [u \in Users |-> NotAnswered]
      /\ h.config = g.config /\ h.players = g.players /\ h.eliminated = g.eliminated
      /\ h.score = g.score /\ h.room = g.room
  BY NextAsked
<1>3. h.rowOpen = (stored \/ g.rowOpen)
  BY NextRowOpen, Zenon
<1>4. h.rowOpen <=> stored
  BY <1>3, Zenon
<1> HIDE DEF h
<1>5. OpenRowIsCurrent(s, h, rows)
  <2>1. \A n \in rp[s].unended : n <= g.round
    BY DEF InOrder, OpenRowIsCurrent
  <2>2. g.round \in Nat
    BY DEF Game
  <2>3. \A n \in rows[s].unended : n <= h.round /\ n # h.round
    BY <1>2, <2>1, <2>2
  <2> QED
    BY <1>2, <1>4, <2>3 DEF OpenRowIsCurrent
<1>6. KeptInRoom(h, rooms)
  BY <1>2 DEF InOrder, KeptInRoom
<1>7. ~RowsMayFail => h.rowOpen
  BY <1>4
<1>8. Scored(s, h, rows)
  BY <1>2, <1>7 DEF InOrder, Scored
<1> QED
  BY <1>1, <1>5, <1>6, <1>8 DEF InOrder, h

-----------------------------------------------------------------------------
(* The parts handlers end with leave the rounds of all games in order.      *)

\* A room keeps its members and its configuration when its status is set
\* (dao_rooms_update_status).
LEMMA StatusAside ==
  ASSUME NEW rooms \in [Rooms -> Room], NEW r \in Rooms, NEW status
  PROVE  \A q \in Rooms : LET row == SetRoomStatus(rooms, r, status)[q]
                          IN  /\ row.members = rooms[q].members
                              /\ row.gone = rooms[q].gone
                              /\ row.unflagged = rooms[q].unflagged
                              /\ row.config = rooms[q].config
BY DEF SetRoomStatus, Room

\* The game is put back with the timer it has got (game_timer_create).
LEMMA ArmTimerInOrder ==
  ASSUME TypeOK, TypeOK', DatabaseInv', NEW s \in SessionIds, s < nextSession',
         NEW g \in Game, g.round > 0, NEW table, NEW callback,
         callback # "round_timeout" => Quiet(g),
         Working(s, table, room', session', replay', nextSession'),
         InOrder(s, g, room', replay'), ArmTimer(s, g, table, callback)
  PROVE  RoundInv'
<1> PICK id : games' = Put(games, s, [g EXCEPT !.timer = id])
  BY DEF ArmTimer
<1> DEFINE h == [g EXCEPT !.timer = id]
<1>1. h.round > 0 /\ InOrder(s, h, room', replay') /\ (Quiet(h) <=> Quiet(g))
  BY TimerAside
<1>2. /\ DOMAIN games' = DOMAIN games \cup {s}
      /\ games'[s] = h
      /\ \A t \in DOMAIN games \ {s} : games'[t] = games[t]
  BY DEF Put
<1> HIDE DEF h
<1>3. ASSUME NEW i \in ActiveSlots(timers')
      PROVE  \/ timers'[i] = table[i] /\ i \in ActiveSlots(table)
             \/ timers'[i].game = s /\ timers'[i].callback = callback
  <2>1. CASE timers' = table
    BY <2>1
  <2>2. ASSUME NEW j \in TimerSlots, timers' = CreateTimer(table, j, nextTimer, callback, s)
        PROVE  \/ timers'[i] = table[i] /\ i \in ActiveSlots(table)
               \/ timers'[i].game = s /\ timers'[i].callback = callback
    <3>1. CASE i = j /\ j \in DOMAIN table
      BY <2>2, <3>1 DEF CreateTimer
    <3>2. CASE ~(i = j /\ j \in DOMAIN table)
      <4>1. i \in TimerSlots /\ timers'[i].active
        BY DEF ActiveSlots
      <4> QED
        BY <2>2, <3>2, <4>1 DEF CreateTimer, ActiveSlots
    <3> QED
      BY <3>1, <3>2
  <2> QED
    BY <2>1, <2>2 DEF ArmTimer
<1>4. ASSUME NEW i \in ActiveSlots(timers'), timers'[i].callback # "round_timeout"
      PROVE  Quiet(games'[timers'[i].game])
  <2>1. CASE timers'[i] = table[i] /\ i \in ActiveSlots(table)
    <3>1. table[i].game \in DOMAIN games \ {s}
      BY <2>1 DEF Working, OwnedBut
    <3> QED
      BY <1>2, <1>4, <2>1, <3>1 DEF Working
  <2>2. CASE timers'[i].game = s /\ timers'[i].callback = callback
    BY <1>1, <1>2, <1>4, <2>2
  <2> QED
    BY <1>3, <2>1, <2>2
<1>5. ASSUME NEW t \in DOMAIN games'
      PROVE  games'[t].round > 0 /\ InOrder(t, games'[t], room', replay')
  BY <1>1, <1>2 DEF Working
<1>6. ASSUME NEW t \in SessionIds
      PROVE  RowsInOrder(t, session', replay', nextSession')
  <2>1. session'[s].status = "IN_PROGRESS"
    BY <1>2 DEF DatabaseInv, GamesMatchDatabase
  <2>2. ~(s >= nextSession')
    BY DEF SessionIds, TypeOK
  <2>3. RowsInOrder(s, session', replay', nextSession')
    BY <2>1, <2>2 DEF RowsInOrder, Over
  <2> QED
    BY <2>3 DEF Working
<1> QED
  BY <1>4, <1>5, <1>6 DEF RoundInv

\* end_game leaves no round of its game open.
LEMMA EndGameInOrder ==
  ASSUME TypeOK, TypeOK', NEW s \in SessionIds, s < nextSession',
         NEW g \in Game, g.timer = NoTimer,
         NEW table \in [TimerSlots -> Slot], NEW rooms \in [Rooms -> Room], NEW sessions,
         NEW rp, rp[s].open = rp[s].unended,
         Working(s, table, rooms, sessions, rp, nextSession'),
         EndGame(s, g, table, rooms, sessions, rp)
  PROVE  RoundInv'
<1> PICK w \in Winners(g) : session' = SessionEnded(sessions, s, w)
  BY DEF EndGame
<1>1. /\ DOMAIN games' = DOMAIN games \ {s}
      /\ \A t \in DOMAIN games \ {s} : games'[t] = games[t]
      /\ replay' = rp
      /\ room' = SetRoomStatus(rooms, g.room, "FINISHED")
  BY DEF EndGame, Restrict
<1>2. timers' = table
  <2>1. \A i \in ActiveSlots(table) : table[i].id # NoTimer
    BY DEF Working, OwnedBut, NoTimer, TypeOK, MemoryTyped
  <2> QED
    BY <2>1, CancelNobody DEF EndGame
<1>3. \A q \in Rooms : /\ room'[q].members = rooms[q].members
                       /\ room'[q].gone = rooms[q].gone
                       /\ room'[q].unflagged = rooms[q].unflagged
                       /\ room'[q].config = rooms[q].config
  <2>1. g.room \in Rooms
    BY DEF Game
  <2> QED
    BY <1>1, <2>1, StatusAside
<1>4. ASSUME NEW i \in ActiveSlots(timers'), timers'[i].callback # "round_timeout"
      PROVE  Quiet(games'[timers'[i].game])
  <2>1. table[i].game \in DOMAIN games \ {s}
    BY <1>2 DEF Working, OwnedBut
  <2> QED
    BY <1>1, <1>2, <1>4, <2>1 DEF Working
<1>5. ASSUME NEW t \in DOMAIN games'
      PROVE  games'[t].round > 0 /\ InOrder(t, games'[t], room', replay')
  <2>1. games'[t] = games[t] /\ games[t].room \in Rooms
    BY <1>1 DEF TypeOK, MemoryTyped, Game
  <2>2. games[t].round > 0 /\ InOrder(t, games[t], rooms, rp)
    BY <1>1 DEF Working
  <2>3. KeptInRoom(games[t], room')
    BY <1>3, <2>1, <2>2 DEF InOrder, KeptInRoom
  <2> QED
    BY <1>1, <2>1, <2>2, <2>3 DEF InOrder
<1>6. ASSUME NEW t \in SessionIds
      PROVE  RowsInOrder(t, session', replay', nextSession')
  <2>1. CASE t = s
    <3>1. ~(s >= nextSession')
      BY DEF SessionIds, TypeOK
    <3> QED
      BY <1>1, <2>1, <3>1 DEF RowsInOrder
  <2>2. CASE t # s
    <3>1. session'[t] = sessions[t]
      BY <2>2 DEF SessionEnded
    <3> QED
      BY <1>1, <2>2, <3>1 DEF Working, RowsInOrder
  <2> QED
    BY <2>1, <2>2
<1> QED
  BY <1>4, <1>5, <1>6 DEF RoundInv

\* The rows of one game are written, those of the others stay.
LEMMA RowsElsewhere ==
  ASSUME NEW s \in SessionIds, NEW table, NEW rooms, NEW sessions, NEW rp, NEW next,
         Working(s, table, rooms, sessions, rp, next), DOMAIN games \subseteq SessionIds,
         NEW rows, \A t \in SessionIds \ {s} : rows[t] = rp[t]
  PROVE  Working(s, table, rooms, sessions, rows, next)
<1>1. ASSUME NEW t \in DOMAIN games \ {s}
      PROVE  games[t].round > 0 /\ InOrder(t, games[t], rooms, rows)
  <2>1. games[t].round > 0 /\ InOrder(t, games[t], rooms, rp) /\ rows[t] = rp[t]
    BY DEF Working
  <2> QED
    BY <2>1 DEF InOrder, OpenRowIsCurrent, Scored
<1>2. ASSUME NEW t \in SessionIds \ {s}
      PROVE  RowsInOrder(t, sessions, rows, next)
  BY DEF Working, RowsInOrder
<1> QED
  BY <1>1, <1>2 DEF Working

\* send_next_question keeps the rounds of all games in order, once the last
\* round of its game is closed.
LEMMA SendNextQuestionInOrder ==
  ASSUME TypeOK, TypeOK', DatabaseInv', NEW s \in SessionIds, s < nextSession',
         NEW g \in Game, g.timer = NoTimer, ~g.rowOpen,
         NEW table \in [TimerSlots -> Slot], NEW rooms \in [Rooms -> Room], NEW sessions,
         NEW rp \in [SessionIds -> Replay],
         Working(s, table, rooms, sessions, rp, nextSession'), InOrder(s, g, rooms, rp),
         SendNextQuestion(s, g, table, rooms, sessions, rp)
  PROVE  RoundInv'
<1> DEFINE n == NextRound(g)
<1>1. rp[s].open = rp[s].unended /\ rp[s] \in Replay
  BY DEF InOrder, OpenRowIsCurrent
<1>2. n \in Game /\ n.timer = NoTimer /\ n.round = g.round + 1 /\ n.difficulty \in Difficulties
  <2>1. n.round = g.round + 1
    BY DEF NextRound, Game
  <2> QED
    BY <2>1, NextRoundType
<1>3. \/ EndGame(s, g, table, rooms, sessions, rp)
      \/ EndGame(s, n, table, rooms, sessions, rp)
      \/ AskQuestion(s, n, table, rooms, sessions, rp) /\ ~(g.round >= Total(g.config))
  BY DEF SendNextQuestion
<1> HIDE DEF n
<1>4. CASE EndGame(s, g, table, rooms, sessions, rp)
  BY <1>1, <1>4, EndGameInOrder
<1>5. CASE EndGame(s, n, table, rooms, sessions, rp)
  BY <1>1, <1>2, <1>5, EndGameInOrder
<1>6. CASE AskQuestion(s, n, table, rooms, sessions, rp) /\ ~(g.round >= Total(g.config))
  <2>1. CancelTimer(table, n.timer) = table
    <3>1. \A i \in ActiveSlots(table) : table[i].id # NoTimer
      BY DEF Working, OwnedBut, NoTimer, TypeOK, MemoryTyped
    <3> QED
      BY <1>2, <3>1, CancelNobody
  <2> PICK stored \in Outcomes("create_round") :
        /\ ArmTimer(s, Asked(n, stored), table, "round_timeout")
        /\ replay' = IF stored
                     THEN [rp EXCEPT ![s].rounds = @ \cup {n.round},
                                     ![s].open = @ \cup {n.round}]
                     ELSE rp
        /\ room' = rooms
        /\ session' = sessions
    BY <1>6, <2>1 DEF AskQuestion
  <2>2. stored \in BOOLEAN /\ (~RowsMayFail => stored)
    BY DEF Outcomes, RowsMayFail
  <2>3. /\ replay'[s].gained = rp[s].gained
        /\ replay'[s].unended = rp[s].unended /\ rp[s].unended \subseteq Nat
        /\ replay'[s].open = rp[s].unended \cup (IF stored THEN {g.round + 1} ELSE {})
        /\ \A t \in SessionIds \ {s} : replay'[t] = rp[t]
    <3>1. CASE stored
      <4>1. replay' = [rp EXCEPT ![s].rounds = @ \cup {n.round},
                                 ![s].open = @ \cup {n.round}]
        BY <3>1
      <4>2. rp[s] \in Replay /\ n.round = g.round + 1
        BY <1>2
      <4>3. /\ replay'[s].gained = rp[s].gained
            /\ replay'[s].unended = rp[s].unended
            /\ replay'[s].open = rp[s].open \cup {n.round}
        BY <4>1, <4>2 DEF Replay
      <4>4. \A t \in SessionIds \ {s} : replay'[t] = rp[t]
        BY <4>1
      <4> QED
        BY <1>1, <3>1, <4>2, <4>3, <4>4 DEF Replay
    <3>2. CASE ~stored
      BY <1>1, <3>2 DEF Replay
    <3> QED
      BY <2>2, <3>1, <3>2
  <2>4. g.round < Total(g.config)
    BY <1>6 DEF Game, Total, Difficulties
  <2> DEFINE h == Asked(n, stored)
  <2>5. InOrder(s, h, rooms, replay')
    BY <2>2, <2>3, <2>4, AskedInOrder DEF n
  <2>6. h \in Game
    BY <1>2, <2>2, AskedType
  <2>7. h.round = n.round /\ g.round \in Nat
    BY <1>2 DEF Asked, Game
  <2> HIDE DEF h
  <2>8. Working(s, table, room', session', replay', nextSession')
    <3>1. DOMAIN games \subseteq SessionIds
      BY DEF TypeOK, MemoryTyped
    <3> QED
      BY <2>3, <3>1, RowsElsewhere
  <2>9. h.round > 0
    BY <1>2, <2>7
  <2>10. ArmTimer(s, h, table, "round_timeout")
    BY DEF h
  <2> QED
    BY <2>5, <2>6, <2>8, <2>9, <2>10, ArmTimerInOrder
<1> QED
  BY <1>3, <1>4, <1>5, <1>6

\* The end of a round keeps the rounds of all games in order.
LEMMA PauseThenAdvanceInOrder ==
  ASSUME TypeOK, TypeOK', DatabaseInv', NEW s \in SessionIds, s < nextSession',
         NEW g \in Game, g.timer = NoTimer, g.round > 0, Quiet(g),
         NEW table \in [TimerSlots -> Slot], NEW rp \in [SessionIds -> Replay],
         Working(s, table, room, session, rp, nextSession'), InOrder(s, g, room, rp),
         PauseThenAdvance(s, g, table, rp)
  PROVE  RoundInv'
<1> DEFINE idle == [g EXCEPT !.timer = NoTimer]
<1>1. idle \in Game /\ idle.timer = NoTimer /\ idle.rowOpen = g.rowOpen
  BY DEF Game
<1>2. InOrder(s, idle, room, rp)
  BY TimerAside
<1>3. \/ SendNextQuestion(s, idle, table, room, session, rp)
      \/ /\ ArmTimer(s, g, table, "delayed_question")
         /\ replay' = rp
         /\ UNCHANGED <<room, session>>
  BY DEF PauseThenAdvance
<1>4. ~g.rowOpen
  BY DEF Quiet
<1> HIDE DEF idle
<1>5. CASE SendNextQuestion(s, idle, table, room, session, rp)
  <2>1. room \in [Rooms -> Room]
    BY DEF TypeOK, RowsTyped
  <2> QED
    BY <1>1, <1>2, <1>4, <1>5, <2>1, SendNextQuestionInOrder
<1>6. CASE /\ ArmTimer(s, g, table, "delayed_question")
           /\ replay' = rp
           /\ UNCHANGED <<room, session>>
  BY <1>6, ArmTimerInOrder
<1> QED
  BY <1>3, <1>5, <1>6

-----------------------------------------------------------------------------
(* Each handler keeps the rounds of all games in order.                     *)

\* Room requests that leave the games alone: the room of a running game keeps
\* its members and the question counts the game was started with.
LEMMA RoomWritten ==
  ASSUME TypeOK, DatabaseInv, RoundInv, NEW u \in Users, NEW r \in Rooms,
         \/ \E c \in Configs : CreateRoom(u, r, c)
         \/ JoinRoom(u, r) \/ LeaveRoom(u, r) \/ StartRefused(u, r)
  PROVE  RoundInv'
<1>1. UNCHANGED <<session, nextSession, replay, games, timers>>
  BY DEF CreateRoom, JoinRoom, LeaveRoom, StartRefused, memVars
<1>2. ASSUME NEW t \in DOMAIN games
      PROVE  InOrder(t, games[t], room', replay)
  <2> DEFINE g == games[t]
             q == g.room
  <2>1. InOrder(t, g, room, replay)
    BY DEF RoundInv
  <2>2. q \in Rooms /\ room[q].status = "IN_PROGRESS" /\ room \in [Rooms -> Room]
    BY DEF TypeOK, RowsTyped, MemoryTyped, Game, DatabaseInv, GamesMatchDatabase
  <2> HIDE DEF g, q
  <2>3. KeptInRoom(g, room) /\ q = g.room
    BY <2>1 DEF InOrder, q
  <2>4. CASE \E c \in Configs : CreateRoom(u, r, c)
    <3>1. room'[q] = room[q]
      BY <2>2, <2>4 DEF CreateRoom, RoomCreated
    <3> QED
      BY <2>1, <2>3, <3>1 DEF InOrder, KeptInRoom, g
  <2>5. CASE JoinRoom(u, r)
    <3>1. /\ room[q].members \subseteq room'[q].members
          /\ room'[q].gone = room[q].gone /\ room'[q].config = room[q].config
          /\ room'[q].unflagged = room[q].unflagged
      BY <2>2, <2>5 DEF JoinRoom, MemberAdded, Room
    <3> QED
      BY <2>1, <2>3, <3>1 DEF InOrder, KeptInRoom, g
  <2>6. CASE LeaveRoom(u, r)
    <3>1. q # r
      BY <2>2, <2>6 DEF LeaveRoom
    <3>2. room'[q] = room[q]
      BY <2>2, <2>6, <3>1 DEF LeaveRoom, RoomDeleted, MemberRemoved
    <3> QED
      BY <2>1, <2>3, <3>2 DEF InOrder, KeptInRoom, g
  <2>7. CASE StartRefused(u, r)
    <3>1. /\ room'[q].members = room[q].members
          /\ room'[q].gone = room[q].gone
          /\ room'[q].unflagged = room[q].unflagged
          /\ room'[q].config = IF q = r THEN StartConfig(r) ELSE room[q].config
      BY <2>2, <2>7 DEF StartRefused, Room
    <3>2. q = r => StartConfig(r) = g.config
      BY <2>3 DEF StartConfig, KeptInRoom
    <3> QED
      BY <2>1, <2>3, <3>1, <3>2 DEF InOrder, KeptInRoom, g
  <2> QED
    BY <2>4, <2>5, <2>6, <2>7 DEF g
<1> QED
  BY <1>1, <1>2 DEF RoundInv

\* The statement that flags a member touches no other row; without it the leaver is
\* one of those left without the flag (dao_rooms_mark_eliminated).
LEMMA LeaverFlagged ==
  ASSUME NEW rooms \in [Rooms -> Room], NEW r \in Rooms, NEW u \in Users,
         NEW flagged \in BOOLEAN
  PROVE  LET written == MemberEliminated(rooms, r, u, flagged)
         IN  \A q \in Rooms :
               /\ written[q].members = rooms[q].members
               /\ written[q].config = rooms[q].config
               /\ written[q].gone \cup written[q].unflagged
                    = rooms[q].gone \cup rooms[q].unflagged \cup
                        (IF q = r THEN {u} \cap rooms[q].members ELSE {})
<1> DEFINE row == rooms[r]
           flag == {u} \cap row.members
           new == IF flagged
                  THEN [row EXCEPT !.gone = @ \cup flag, !.unflagged = @ \ flag]
                  ELSE [row EXCEPT !.unflagged = @ \cup (flag \ row.gone)]
           written == MemberEliminated(rooms, r, u, flagged)
<1>1. /\ written[r] = new
      /\ \A q \in Rooms \ {r} : written[q] = rooms[q]
  BY DEF MemberEliminated
<1>2. /\ new.members = row.members /\ new.config = row.config
      /\ new.gone = IF flagged THEN row.gone \cup flag ELSE row.gone
      /\ new.unflagged = IF flagged THEN row.unflagged \ flag
                         ELSE row.unflagged \cup (flag \ row.gone)
  BY DEF Room
<1> HIDE DEF new, written
<1>3. new.gone \cup new.unflagged = row.gone \cup row.unflagged \cup flag
  BY <1>2
<1>4. \A q \in Rooms : /\ written[q].members = rooms[q].members
                       /\ written[q].config = rooms[q].config
                       /\ written[q].gone \cup written[q].unflagged
                            = rooms[q].gone \cup rooms[q].unflagged \cup
                                (IF q = r THEN {u} \cap rooms[q].members ELSE {})
  BY <1>1, <1>2, <1>3
<1> QED
  BY <1>4 DEF written

\* A player who leaves is flagged in the game and in the member row alike.
LEMMA LeaveDuringGameInOrder ==
  ASSUME TypeOK, TimerInv, RoundInv, NEW u \in Users, NEW r \in Rooms, LeaveDuringGame(u, r)
  PROVE  RoundInv'
<1>1. /\ UNCHANGED <<session, nextSession, replay, timers>>
      /\ DOMAIN games' = DOMAIN games
  BY DEF LeaveDuringGame, PlayerEliminated
<1>2. ASSUME NEW t \in DOMAIN games
      PROVE  /\ games'[t].round > 0
             /\ InOrder(t, games'[t], room', replay)
             /\ Quiet(games[t]) => Quiet(games'[t])
  <2> DEFINE g == games[t]
             h == games'[t]
  <2>1. g \in Game /\ g.room \in Rooms /\ room \in [Rooms -> Room]
    BY DEF TypeOK, RowsTyped, MemoryTyped, Game
  <2>2. g.round > 0 /\ InOrder(t, g, room, replay)
    BY DEF RoundInv
  <2>3. \/ h = g
        \/ g.room = r /\ u \in g.players /\ h = [g EXCEPT !.eliminated = @ \cup {u}]
    BY DEF LeaveDuringGame, PlayerEliminated, IsGameOfRoom
  <2> HIDE DEF g, h
  <2>4. /\ h.round = g.round /\ h.done = g.done /\ h.config = g.config
        /\ h.players = g.players /\ h.answered = g.answered
        /\ h.score = g.score /\ h.room = g.room /\ h.rowOpen = g.rowOpen
    BY <2>1, <2>3 DEF Game
  <2>5. \/ h.eliminated = g.eliminated
        \/ g.room = r /\ u \in g.players /\ h.eliminated = g.eliminated \cup {u}
    BY <2>1, <2>3 DEF Game
  <2>6. Late(h) \subseteq Late(g)
    BY <2>4, <2>5 DEF Late, Active
  <2>7. \A q \in Rooms : /\ room'[q].members = room[q].members
                         /\ room'[q].config = room[q].config
                         /\ room'[q].gone \cup room'[q].unflagged
                              = room[q].gone \cup room[q].unflagged \cup
                                  (IF q = r THEN {u} \cap room[q].members ELSE {})
    <3>1. PICK flagged \in BOOLEAN : room' = MemberEliminated(room, r, u, flagged)
      BY DEF LeaveDuringGame, Outcomes
    <3> DEFINE written == MemberEliminated(room, r, u, flagged)
    <3>2. \A q \in Rooms : /\ written[q].members = room[q].members
                           /\ written[q].config = room[q].config
                           /\ written[q].gone \cup written[q].unflagged
                                = room[q].gone \cup room[q].unflagged \cup
                                    (IF q = r THEN {u} \cap room[q].members ELSE {})
      BY <2>1, LeaverFlagged
    <3> HIDE DEF written
    <3>3. room' = written
      BY <3>1 DEF written
    <3> QED
      BY <3>2, <3>3
  <2>8. KeptInRoom(h, room')
    BY <2>1, <2>2, <2>4, <2>5, <2>7 DEF InOrder, KeptInRoom
  <2>9. Counted(h) /\ OpenRowIsCurrent(t, h, replay)
    BY <2>2, <2>4 DEF InOrder, Counted, OpenRowIsCurrent
  <2>10. Scored(t, h, replay)
    BY <2>2, <2>4, <2>6 DEF InOrder, Scored
  <2>11. Quiet(g) => Quiet(h)
    BY <2>4, <2>6 DEF Quiet
  <2> QED
    BY <2>2, <2>4, <2>8, <2>9, <2>10, <2>11 DEF InOrder, g, h
<1>3. ASSUME NEW i \in ActiveSlots(timers), timers[i].callback # "round_timeout"
      PROVE  Quiet(games'[timers[i].game])
  BY <1>2, <1>3 DEF RoundInv, TimerInv, TimersOwned
<1> QED
  BY <1>1, <1>2, <1>3 DEF RoundInv

\* A game starts in order: no round, no row, no points (init_game_state).
LEMMA NewGameInOrder ==
  ASSUME NEW s, NEW r \in Rooms, NEW config \in [Difficulties -> Int],
         NEW players \in SUBSET Users, NEW rooms, NEW rp, rp[s] = NoReplay,
         players \subseteq rooms[r].members, rooms[r].config = config,
         config = NoConfig => DefaultConfig = NoConfig
  PROVE  LET g == NewGame(r, config, players)
         IN  InOrder(s, g, rooms, rp) /\ ~g.rowOpen /\ g.timer = NoTimer /\ g.room = r
<1> DEFINE g == NewGame(r, config, players)
<1>1. /\ g.round = 0 /\ g.done = [d \in Difficulties |-> 0] /\ g.config = config
      /\ g.players = players /\ g.eliminated = {} /\ g.room = r
      /\ g.score = [u \in Users |-> 0] /\ g.answered = [u \in Users |-> NotAnswered]
      /\ g.timer = NoTimer /\ g.rowOpen = FALSE
  BY DEF NewGame
<1> HIDE DEF g
<1>2. Counted(g)
  BY <1>1 DEF Counted, Total, Difficulties
<1>3. OpenRowIsCurrent(s, g, rp)
  BY <1>1 DEF OpenRowIsCurrent, NoReplay
<1>4. KeptInRoom(g, rooms)
  BY <1>1 DEF KeptInRoom
<1>5. Scored(s, g, rp)
  BY <1>1 DEF Scored, NoReplay
<1> QED
  BY <1>1, <1>2, <1>3, <1>4, <1>5 DEF InOrder, g

\* handle_start_game, also when the table of games is full.
LEMMA StartGameInOrder ==
  ASSUME TypeOK, TypeOK', TimerInv, DatabaseInv, DatabaseInv', RoundInv,
         NEW u \in Users, NEW r \in Rooms, StartGame(u, r)
  PROVE  RoundInv'
<1> DEFINE s == nextSession
           config == StartConfig(r)
           players == FirstMembers(room[r].members)
           g == NewGame(r, config, players)
           configured == [room EXCEPT ![r].config = config]
           rooms == SetRoomStatus(configured, r, "IN_PROGRESS")
           sessions == [session EXCEPT ![s] = [room |-> r, status |-> "IN_PROGRESS",
                                               winner |-> NoUser]]
<1>1. /\ s \in SessionIds /\ nextSession' = s + 1
      /\ ~HasActiveSession(r)
      /\ players \subseteq room[r].members
  BY DEF StartGame, FirstMembers
<1>2. /\ config \in [Difficulties -> Int] /\ room \in [Rooms -> Room]
      /\ config = NoConfig => DefaultConfig = NoConfig
  BY OneVNAssumption DEF OneVNAssumption, StartConfig, Room, TypeOK, RowsTyped
<1>3. players \in SUBSET Users
  BY <1>1, <1>2 DEF Room
<1>4. \/ SendNextQuestion(s, g, timers, rooms, sessions, replay)
      \/ room' = rooms /\ session' = sessions /\ UNCHANGED <<replay, memVars>>
  BY DEF StartGame
<1>5. g \in Game
  BY <1>2, <1>3, NewGameType
<1>6. /\ \A t \in SessionIds \ {s} : sessions[t] = session[t]
      /\ sessions[s].status = "IN_PROGRESS"
  BY <1>1 DEF TypeOK, RowsTyped
<1> HIDE DEF config, players, sessions
<1>7. /\ configured \in [Rooms -> Room] /\ configured[r].config = config
      /\ configured[r].members = room[r].members
      /\ \A q \in Rooms \ {r} : configured[q] = room[q]
  BY <1>2 DEF Room
<1> HIDE DEF configured
<1>8. rooms \in [Rooms -> Room]
  BY <1>7, SetRoomStatusType DEF RoomStatuses
<1>9. \A q \in Rooms : /\ rooms[q].members = configured[q].members
                       /\ rooms[q].gone = configured[q].gone
                       /\ rooms[q].unflagged = configured[q].unflagged
                       /\ rooms[q].config = configured[q].config
  BY <1>7, StatusAside
<1> HIDE DEF g, rooms
<1>10. replay[s] = NoReplay
  BY <1>1 DEF RoundInv, RowsInOrder, SessionIds
<1>11. InOrder(s, g, rooms, replay) /\ ~g.rowOpen /\ g.timer = NoTimer
  <2>1. players \subseteq rooms[r].members /\ rooms[r].config = config
    BY <1>1, <1>7, <1>9
  <2> HIDE DEF s
  <2>2. LET h == NewGame(r, config, players)
        IN  InOrder(s, h, rooms, replay) /\ ~h.rowOpen /\ h.timer = NoTimer /\ h.room = r
    BY <1>2, <1>3, <1>10, <2>1, NewGameInOrder
  <2> QED
    BY <2>2 DEF g
<1>12. s \notin DOMAIN games
  BY DEF TimerInv, GamesNumbered, TypeOK
<1>13. ASSUME NEW t \in DOMAIN games
       PROVE  games[t].round > 0 /\ InOrder(t, games[t], rooms, replay)
  <2>1. t \in SessionIds /\ games[t].room \in Rooms
    BY DEF TypeOK, MemoryTyped, Game
  <2>2. games[t].room # r
    BY <1>1, <2>1 DEF HasActiveSession, DatabaseInv, GamesMatchDatabase
  <2>3. KeptInRoom(games[t], rooms)
    <3>1. KeptInRoom(games[t], room)
      BY DEF RoundInv, InOrder
    <3> DEFINE q == games[t].room
    <3>2. configured[q] = room[q] /\ q \in Rooms
      BY <1>7, <2>1, <2>2
    <3>3. /\ rooms[q].members = room[q].members /\ rooms[q].gone = room[q].gone
          /\ rooms[q].unflagged = room[q].unflagged /\ rooms[q].config = room[q].config
      BY <1>9, <3>2
    <3> QED
      BY <3>1, <3>3 DEF KeptInRoom
  <2> QED
    BY <2>3 DEF RoundInv, InOrder
<1>14. ASSUME NEW t \in SessionIds \ {s}
       PROVE  RowsInOrder(t, sessions, replay, nextSession')
  BY <1>1, <1>6 DEF RoundInv, RowsInOrder, SessionIds
<1>15. CASE SendNextQuestion(s, g, timers, rooms, sessions, replay)
  <2>1. OwnedBut(s, timers)
    BY <1>12 DEF OwnedBut, TimerInv, TimersOwned, TimersNumbered
  <2>2. Working(s, timers, rooms, sessions, replay, nextSession')
    BY <1>13, <1>14, <2>1 DEF Working, RoundInv
  <2>3. timers \in [TimerSlots -> Slot] /\ replay \in [SessionIds -> Replay]
    BY DEF TypeOK, RowsTyped, MemoryTyped
  <2>4. s < nextSession'
    BY <1>1 DEF SessionIds
  <2> HIDE DEF s
  <2> QED
    BY <1>1, <1>5, <1>8, <1>11, <1>15, <2>2, <2>3, <2>4, SendNextQuestionInOrder
<1>16. CASE room' = rooms /\ session' = sessions /\ UNCHANGED <<replay, memVars>>
  <2>1. RowsInOrder(s, session', replay', nextSession')
    BY <1>1, <1>6, <1>16 DEF RowsInOrder, Over, SessionIds
  <2>2. \A t \in SessionIds : RowsInOrder(t, session', replay', nextSession')
    BY <1>14, <1>16, <2>1
  <2> QED
    BY <1>13, <1>16, <2>2 DEF RoundInv, memVars
<1> QED
  BY <1>4, <1>15, <1>16

\* A handler that leaves its game live and no new timer: the record it puts
\* back is in order.
LEMMA GameWritten ==
  ASSUME TypeOK, TypeOK', TimerInv, DatabaseInv, RoundInv, NEW s \in DOMAIN games,
         UNCHANGED <<room, session, nextSession>>,
         \A i \in ActiveSlots(timers') : i \in ActiveSlots(timers) /\ timers'[i] = timers[i],
         \A i \in ActiveSlots(timers') :
           timers[i].callback # "round_timeout" /\ timers[i].game = s => Quiet(games'[s]),
         DOMAIN games' = DOMAIN games,
         \A t \in DOMAIN games \ {s} : games'[t] = games[t],
         games'[s].round > 0, InOrder(s, games'[s], room, replay'),
         \A t \in SessionIds \ {s} : replay'[t] = replay[t]
  PROVE  RoundInv'
<1>1. ASSUME NEW i \in ActiveSlots(timers'), timers'[i].callback # "round_timeout"
      PROVE  Quiet(games'[timers'[i].game])
  BY <1>1 DEF RoundInv, TimerInv, TimersOwned
<1>2. ASSUME NEW t \in DOMAIN games \ {s}
      PROVE  games'[t].round > 0 /\ InOrder(t, games'[t], room', replay')
  <2>1. games[t].round > 0 /\ InOrder(t, games[t], room, replay)
    BY DEF RoundInv
  <2>2. games'[t] = games[t] /\ room' = room /\ replay'[t] = replay[t]
    BY DEF TypeOK, MemoryTyped
  <2> QED
    BY <2>1, <2>2 DEF InOrder, OpenRowIsCurrent, Scored
<1>3. ASSUME NEW t \in SessionIds
      PROVE  RowsInOrder(t, session', replay', nextSession')
  <2>1. CASE t = s
    BY <2>1 DEF RowsInOrder, Over, DatabaseInv, GamesMatchDatabase, TimerInv, GamesNumbered,
                TypeOK, SessionIds
  <2>2. CASE t # s
    BY <2>2 DEF RoundInv, RowsInOrder
  <2> QED
    BY <2>1, <2>2
<1> QED
  BY <1>1, <1>2, <1>3 DEF RoundInv

\* A handler that has taken its game and the timer of it out of the tables.
LEMMA WorkingOn ==
  ASSUME TypeOK, TimerInv, RoundInv, NEW s \in DOMAIN games, nextSession' = nextSession,
         NEW table, OwnedBut(s, table),
         \A i \in ActiveSlots(table) : i \in ActiveSlots(timers) /\ table[i] = timers[i],
         NEW rows, \A t \in SessionIds \ {s} : rows[t] = replay[t]
  PROVE  Working(s, table, room, session, rows, nextSession') /\ s < nextSession'
<1>1. DOMAIN games \subseteq SessionIds /\ s \in SessionIds
  BY DEF TypeOK, MemoryTyped
<1>2. Working(s, table, room, session, replay, nextSession')
  BY DEF RoundInv, Working
<1>3. s < nextSession'
  BY DEF TimerInv, GamesNumbered
<1> QED
  BY <1>1, <1>2, <1>3, RowsElsewhere

\* A round is closed: its row gets its end, or is one of those that failed to get
\* it, and nobody has still to answer.
LEMMA ClosedInOrder ==
  ASSUME NEW s \in SessionIds, NEW g \in Game, NEW rooms, NEW rp \in [SessionIds -> Replay],
         InOrder(s, g, rooms, rp), NEW ended \in BOOLEAN, NEW h,
         h.round = g.round, h.done = g.done, h.config = g.config, h.room = g.room,
         h.players = g.players, h.eliminated = g.eliminated, h.score = g.score,
         \A u \in g.players : h.answered[u] \in {NotAnswered, g.round},
         h.rowOpen = FALSE, Late(h) = {}
  PROVE  InOrder(s, h, rooms, CloseRow(rp, s, g, ended)) /\ Quiet(h)
<1> DEFINE rows == CloseRow(rp, s, g, ended)
<1>1. rows[s].gained = rp[s].gained
  BY DEF CloseRow, Replay
<1>2. /\ rp[s] \in Replay /\ g.round \in Nat
      /\ rp[s].open = rp[s].unended \cup (IF g.rowOpen THEN {g.round} ELSE {})
      /\ \A n \in rp[s].unended : n <= g.round /\ (g.rowOpen => n # g.round)
  BY DEF InOrder, OpenRowIsCurrent, Game
<1>3. rows[s].open = rows[s].unended /\ \A n \in rows[s].unended : n <= g.round
  <2>1. CASE g.rowOpen /\ ended
    <3>1. rows[s].open = rp[s].open \ {g.round} /\ rows[s].unended = rp[s].unended
      BY <1>2, <2>1 DEF CloseRow, Replay
    <3> QED
      BY <1>2, <2>1, <3>1
  <2>2. CASE g.rowOpen /\ ~ended
    <3>1. rows[s].open = rp[s].open /\ rows[s].unended = rp[s].unended \cup {g.round}
      BY <1>2, <2>2 DEF CloseRow, Replay
    <3> QED
      BY <1>2, <2>2, <3>1
  <2>3. CASE ~g.rowOpen
    <3>1. rows[s] = rp[s]
      BY <2>3 DEF CloseRow
    <3> QED
      BY <1>2, <2>3, <3>1
  <2> QED
    BY <2>1, <2>2, <2>3
<1> HIDE DEF rows
<1>4. Counted(h) /\ KeptInRoom(h, rooms)
  BY DEF InOrder, Counted, KeptInRoom
<1>5. OpenRowIsCurrent(s, h, rows)
  BY <1>3 DEF OpenRowIsCurrent
<1>6. Scored(s, h, rows)
  BY <1>1 DEF InOrder, Scored
<1> QED
  BY <1>4, <1>5, <1>6 DEF InOrder, Quiet, rows

\* An answer leaves the game and its question as they are.
LEMMA AnsweredKeeps ==
  ASSUME NEW g \in Game, NEW u \in Users, NEW correct \in BOOLEAN, NEW percent \in 0..100
  PROVE  LET h == Answered(g, u, correct, percent)
         IN  /\ h.round = g.round /\ h.done = g.done /\ h.config = g.config
             /\ h.room = g.room /\ h.players = g.players /\ h.eliminated = g.eliminated
             /\ h.timer = g.timer /\ h.rowOpen = g.rowOpen /\ h.difficulty = g.difficulty
BY DEF Answered, Game

\* It is marked with the round, and for the player who gave it.
LEMMA AnsweredMarked ==
  ASSUME NEW g \in Game, NEW u \in Users, NEW correct \in BOOLEAN, NEW percent \in 0..100
  PROVE  LET h == Answered(g, u, correct, percent)
         IN  /\ h.answered[u] = g.round
             /\ \A v \in Users : v # u => h.answered[v] = g.answered[v]
             /\ \A v \in Users : v # u => h.score[v] = g.score[v]
BY DEF Answered, Game

\* The points of an answer are the same in the record and in the answer row.
LEMMA AnsweredOnce ==
  ASSUME NEW g \in Game, g.difficulty \in Difficulties, NEW u \in Users,
         NEW correct \in BOOLEAN, NEW percent \in 0..100
  PROVE  LET h == Answered(g, u, correct, percent)
             gained == ScoreGained(h, u, correct, percent)
         IN  gained \in Nat /\ h.score[u] = g.score[u] + gained
<1> DEFINE h == Answered(g, u, correct, percent)
           gained == ScoreGained(h, u, correct, percent)
           points == CalculateScore(g.difficulty, percent, g.streak[u])
<1>1. h.difficulty = g.difficulty
  BY AnsweredKeeps
<1>2. points \in Nat
  <2>1. g.streak[u] \in Int
    BY DEF Game
  <2> QED
    BY <2>1, CalculateScoreType
<1>3. CASE correct
  <2>1. h.score[u] = g.score[u] + points /\ h.streak[u] = g.streak[u] + 1
    BY <1>3 DEF Answered, Game
  <2>2. g.streak[u] \in Nat
    BY DEF Game
  <2> HIDE DEF h
  <2>3. h.streak[u] - 1 = g.streak[u]
    BY <2>1, <2>2
  <2>4. gained = points
    BY <1>1, <1>3, <2>3 DEF ScoreGained
  <2> HIDE DEF points, gained
  <2>5. gained \in Nat /\ h.score[u] = g.score[u] + gained
    BY <1>2, <2>1, <2>4
  <2> QED
    BY <2>5 DEF h, gained
<1>4. CASE ~correct
  <2>1. h.score = g.score
    BY <1>4 DEF Answered, Game
  <2>2. gained = 0
    BY <1>4 DEF ScoreGained
  <2>3. g.score[u] \in Nat
    BY DEF Game
  <2> HIDE DEF h, gained
  <2>4. gained \in Nat /\ h.score[u] = g.score[u] + gained
    BY <2>1, <2>2, <2>3
  <2> QED
    BY <2>4 DEF h, gained
<1> QED
  BY <1>3, <1>4

\* The row of an answer keeps the replay in step with the score: it is saved
\* whenever the answer scores, unless the database fails
\* (dao_onevn_save_player_answer).
LEMMA AnswerSaved ==
  ASSUME NEW s \in SessionIds, NEW g \in Game, NEW rooms, replay \in [SessionIds -> Replay],
         g.round > 0, InOrder(s, g, rooms, replay), NEW u \in Late(g), NEW h \in Game,
         NEW gained \in Nat,
         h.score[u] = g.score[u] + gained,
         \A v \in Users : v # u => h.score[v] = g.score[v],
         h.answered[u] = g.round,
         \A v \in Users : v # u => h.answered[v] = g.answered[v],
         h.round = g.round, h.done = g.done, h.config = g.config, h.room = g.room,
         h.players = g.players, h.eliminated = g.eliminated, h.rowOpen = g.rowOpen,
         NEW stored \in BOOLEAN, ~RowsMayFail => stored
  PROVE  LET rp == SaveAnswer(s, h, u, gained, stored)
         IN  /\ rp \in [SessionIds -> Replay]
             /\ \A t \in SessionIds \ {s} : rp[t] = replay[t]
             /\ InOrder(s, h, rooms, rp)
<1> DEFINE rp == SaveAnswer(s, h, u, gained, stored)
           gains == [replay[s].gained EXCEPT ![u] = @ + gained]
<1>1. replay[s] \in Replay
  OBVIOUS
<1>2. g.score \in [Users -> Nat] /\ g.answered \in [Users -> Nat \cup {NotAnswered}]
      /\ g.players \subseteq Users /\ u \in Users /\ u \in g.players
  BY DEF Game, Late, Active
<1>3. gains \in [Users -> Nat]
  <2>1. replay[s].gained \in [Users -> Nat]
    BY <1>1 DEF Replay
  <2> QED
    BY <1>2, <2>1
<1>4. [replay EXCEPT ![s].gained[u] = @ + gained]
        = [replay EXCEPT ![s] = [replay[s] EXCEPT !.gained = gains]]
  BY <1>1 DEF Replay
<1> HIDE DEF gains
<1>5. \A row \in Replay : /\ [row EXCEPT !.gained = gains] \in Replay
                          /\ [row EXCEPT !.gained = gains].gained = gains
                          /\ [row EXCEPT !.gained = gains].open = row.open
                          /\ [row EXCEPT !.gained = gains].unended = row.unended
  BY <1>3 DEF Replay
<1>6. /\ rp \in [SessionIds -> Replay]
      /\ rp[s].open = replay[s].open /\ rp[s].unended = replay[s].unended
      /\ \A t \in SessionIds \ {s} : rp[t] = replay[t]
      /\ rp[s].gained = IF h.rowOpen /\ stored THEN gains ELSE replay[s].gained
  <2>1. CASE h.rowOpen /\ stored
    <3>1. rp = [replay EXCEPT ![s] = [replay[s] EXCEPT !.gained = gains]]
      BY <1>4, <2>1 DEF SaveAnswer
    <3>2. rp[s] = [replay[s] EXCEPT !.gained = gains]
      BY <3>1
    <3>3. /\ rp[s] \in Replay /\ rp[s].gained = gains
          /\ rp[s].open = replay[s].open /\ rp[s].unended = replay[s].unended
      BY <1>1, <1>5, <3>2
    <3>4. \A t \in SessionIds \ {s} : rp[t] = replay[t]
      BY <3>1
    <3>5. rp \in [SessionIds -> Replay]
      BY <3>1, <3>2, <3>3
    <3> QED
      BY <2>1, <3>3, <3>4, <3>5
  <2>2. CASE ~(h.rowOpen /\ stored)
    <3>1. rp = replay
      BY <2>2 DEF SaveAnswer
    <3> QED
      BY <2>2, <3>1
  <2> QED
    BY <2>1, <2>2
<1> HIDE DEF rp
<1>7. \A v \in g.players : h.answered[v] \in {NotAnswered, g.round}
  BY <1>2 DEF InOrder, Counted
<1>8. Counted(h) /\ OpenRowIsCurrent(s, h, rp) /\ KeptInRoom(h, rooms)
  BY <1>6, <1>7 DEF InOrder, Counted, OpenRowIsCurrent, KeptInRoom
<1>9. ~RowsMayFail => g.rowOpen /\ stored
  BY DEF InOrder, Scored
<1>10. ASSUME NEW v \in Users
       PROVE  IF RowsMayFail THEN rp[s].gained[v] <= h.score[v]
                           ELSE rp[s].gained[v] = h.score[v]
  <2>1. IF RowsMayFail THEN replay[s].gained[v] <= g.score[v]
                     ELSE replay[s].gained[v] = g.score[v]
    BY DEF InOrder, Scored
  <2>2. /\ replay[s].gained \in [Users -> Nat]
        /\ gains[v] = replay[s].gained[v] + (IF v = u THEN gained ELSE 0)
        /\ h.score[v] = g.score[v] + (IF v = u THEN gained ELSE 0)
    BY <1>1, <1>2 DEF Replay, gains
  <2>3. replay[s].gained[v] \in Nat /\ g.score[v] \in Nat
    BY <1>2, <2>2
  <2>4. CASE h.rowOpen /\ stored
    BY <1>6, <2>1, <2>2, <2>3, <2>4
  <2>5. CASE ~(h.rowOpen /\ stored)
    <3>1. RowsMayFail
      BY <1>9, <2>5
    <3>2. rp[s].gained[v] = replay[s].gained[v]
      BY <1>6, <2>5
    <3> QED
      BY <2>1, <2>2, <2>3, <3>1, <3>2
  <2> QED
    BY <2>4, <2>5
<1>11. ~RowsMayFail => h.rowOpen
  BY <1>9
<1>12. Scored(s, h, rp)
  BY <1>10, <1>11 DEF Scored
<1> QED
  BY <1>6, <1>8, <1>12 DEF InOrder, rp

\* Slots that are freed are gone, the others stay (game_timer_cancel).
LEMMA SlotsFreed ==
  ASSUME NEW id, NEW i \in TimerSlots, timers \in [TimerSlots -> Slot]
  PROVE  /\ \A j \in ActiveSlots(CancelTimer(timers, id)) :
              j \in ActiveSlots(timers) /\ CancelTimer(timers, id)[j] = timers[j]
         /\ \A j \in ActiveSlots(ReleaseSlot(timers, i)) :
              j \in ActiveSlots(timers) /\ ReleaseSlot(timers, i)[j] = timers[j]
<1>1. \A j \in TimerSlots : \/ CancelTimer(timers, id)[j] = timers[j]
                            \/ CancelTimer(timers, id)[j] = FreeSlot
  BY DEF CancelTimer
<1>2. \A j \in TimerSlots : \/ ReleaseSlot(timers, i)[j] = timers[j]
                            \/ ReleaseSlot(timers, i)[j] = FreeSlot
  BY DEF ReleaseSlot
<1> QED
  BY <1>1, <1>2 DEF ActiveSlots, FreeSlot

\* handle_submit_answer.
LEMMA SubmitAnswerInOrder ==
  ASSUME TypeOK, TypeOK', TimerInv, DatabaseInv, DatabaseInv', RoundInv,
         NEW u \in Users, NEW s \in SessionIds,
         NEW correct \in BOOLEAN, NEW percent \in 0..100,
         SubmitAnswer(u, s, correct, percent)
  PROVE  RoundInv'
<1> DEFINE old == games[s]
           g == Answered(old, u, correct, percent)
           gained == ScoreGained(g, u, correct, percent)
           closed == [g EXCEPT !.timer = NoTimer, !.rowOpen = FALSE]
           table == CancelTimer(timers, g.timer)
<1>1. /\ s \in DOMAIN games /\ old \in Game /\ old.difficulty \in Difficulties
      /\ u \in Late(old) /\ nextSession' = nextSession
  BY DEF SubmitAnswer, Late, TypeOK, MemoryTyped, Game
<1>2. /\ replay \in [SessionIds -> Replay] /\ timers \in [TimerSlots -> Slot]
      /\ old.round > 0 /\ InOrder(s, old, room, replay)
  BY <1>1 DEF TypeOK, RowsTyped, MemoryTyped, RoundInv
<1>4. g \in Game
  BY <1>1, AnsweredType
<1> HIDE DEF old
<1>5. /\ gained \in Nat
      /\ g.score[u] = old.score[u] + gained
      /\ \A v \in Users : v # u => g.score[v] = old.score[v]
      /\ g.answered[u] = old.round
      /\ \A v \in Users : v # u => g.answered[v] = old.answered[v]
      /\ g.round = old.round /\ g.done = old.done /\ g.config = old.config
      /\ g.room = old.room /\ g.players = old.players /\ g.eliminated = old.eliminated
      /\ g.timer = old.timer /\ g.rowOpen = old.rowOpen
  <2>1. gained \in Nat /\ g.score[u] = old.score[u] + gained
    BY <1>1, AnsweredOnce
  <2>2. /\ g.round = old.round /\ g.done = old.done /\ g.config = old.config
        /\ g.room = old.room /\ g.players = old.players /\ g.eliminated = old.eliminated
        /\ g.timer = old.timer /\ g.rowOpen = old.rowOpen
    BY <1>1, AnsweredKeeps
  <2>3. /\ g.answered[u] = old.round
        /\ \A v \in Users : v # u => g.answered[v] = old.answered[v]
        /\ \A v \in Users : v # u => g.score[v] = old.score[v]
    BY <1>1, AnsweredMarked
  <2> HIDE DEF g, gained
  <2> QED
    BY <2>1, <2>2, <2>3
<1> HIDE DEF g, gained
<1>3. ASSUME NEW saved \in BOOLEAN, ~RowsMayFail => saved
      PROVE  LET rows == SaveAnswer(s, g, u, gained, saved)
             IN  /\ rows \in [SessionIds -> Replay]
                 /\ \A t \in SessionIds \ {s} : rows[t] = replay[t]
                 /\ InOrder(s, g, room, rows)
  BY <1>1, <1>2, <1>3, <1>4, <1>5, AnswerSaved
<1> PICK stored \in Outcomes("save_player_answer"), ended \in Outcomes("end_round") :
      LET rp == SaveAnswer(s, g, u, gained, stored)
      IN  IF Late(g) = {}
          THEN PauseThenAdvance(s, closed, table, CloseRow(rp, s, g, ended))
          ELSE /\ games' = Put(games, s, g)
               /\ replay' = rp
               /\ UNCHANGED <<room, session, stats, timers, nextTimer>>
  BY DEF SubmitAnswer, g, gained, old
<1> DEFINE rp == SaveAnswer(s, g, u, gained, stored)
<1>6. /\ rp \in [SessionIds -> Replay]
      /\ \A t \in SessionIds \ {s} : rp[t] = replay[t]
      /\ InOrder(s, g, room, rp)
  <2>1. stored \in BOOLEAN /\ (~RowsMayFail => stored)
    BY DEF Outcomes, RowsMayFail
  <2> QED
    BY <1>3, <2>1
<1>9. ended \in BOOLEAN
  BY DEF Outcomes
<1> HIDE DEF rp
<1>7. CASE Late(g) = {}
  <2>1. PauseThenAdvance(s, closed, table, CloseRow(rp, s, g, ended))
    BY <1>7 DEF rp
  <2>2. /\ closed \in Game /\ closed.timer = NoTimer /\ closed.rowOpen = FALSE
        /\ closed.round = g.round /\ closed.done = g.done /\ closed.config = g.config
        /\ closed.room = g.room /\ closed.players = g.players
        /\ closed.eliminated = g.eliminated /\ closed.score = g.score
        /\ closed.answered = g.answered
    BY <1>4 DEF Game, NoTimer
  <2> HIDE DEF closed
  <2>3. Late(closed) = {}
    BY <1>7, <2>2 DEF Late, Active
  <2>4. \A v \in g.players : closed.answered[v] \in {NotAnswered, g.round}
    BY <1>6, <2>2 DEF InOrder, Counted
  <2>5. InOrder(s, closed, room, CloseRow(rp, s, g, ended)) /\ Quiet(closed)
    BY <1>4, <1>6, <1>9, <2>2, <2>3, <2>4, ClosedInOrder
  <2>6. /\ CloseRow(rp, s, g, ended) \in [SessionIds -> Replay]
        /\ \A t \in SessionIds \ {s} : CloseRow(rp, s, g, ended)[t] = rp[t]
    <3>1. CloseRow(rp, s, g, ended) \in [SessionIds -> Replay]
      BY <1>4, <1>6, CloseRowType
    <3>2. \A t \in SessionIds \ {s} : CloseRow(rp, s, g, ended)[t] = rp[t]
      BY <1>6 DEF CloseRow
    <3> QED
      BY <3>1, <3>2
  <2>7. OwnedBut(s, table)
    BY <1>1, <1>5, CancelOwn DEF old
  <2>8. table \in [TimerSlots -> Slot]
    BY <1>2, TableType
  <2>9. \A i \in ActiveSlots(table) : i \in ActiveSlots(timers) /\ table[i] = timers[i]
    <3>1. ASSUME NEW i \in TimerSlots
          PROVE  i \in ActiveSlots(table) => i \in ActiveSlots(timers) /\ table[i] = timers[i]
      BY <1>2, SlotsFreed
    <3> QED
      BY <3>1 DEF ActiveSlots
  <2> HIDE DEF table
  <2> DEFINE rows == CloseRow(rp, s, g, ended)
  <2>10. \A t \in SessionIds \ {s} : rows[t] = replay[t]
    BY <1>6, <2>6
  <2> HIDE DEF rows
  <2>11. Working(s, table, room, session, rows, nextSession') /\ s < nextSession'
    BY <1>1, <2>7, <2>9, <2>10, WorkingOn
  <2>12. closed.round > 0
    BY <1>2, <1>5, <2>2
  <2> QED
    BY <2>1, <2>2, <2>5, <2>6, <2>8, <2>11, <2>12, PauseThenAdvanceInOrder DEF rows
<1>8. CASE Late(g) # {}
  <2>1. /\ games' = Put(games, s, g)
        /\ replay' = rp
        /\ UNCHANGED <<room, session, stats, timers, nextTimer>>
    BY <1>8 DEF rp
  <2>2. /\ DOMAIN games' = DOMAIN games
        /\ games'[s] = g
        /\ \A t \in DOMAIN games \ {s} : games'[t] = games[t]
    BY <1>1, <2>1 DEF Put
  <2>3. \A i \in ActiveSlots(timers) :
          timers[i].callback # "round_timeout" => timers[i].game # s
    BY <1>1 DEF RoundInv, Quiet, old
  <2> QED
    BY <1>1, <1>2, <1>5, <1>6, <2>1, <2>2, <2>3, GameWritten
<1> QED
  BY <1>7, <1>8

\* handle_use_lifeline: nothing but the count of the player changes.
LEMMA UseLifelineInOrder ==
  ASSUME TypeOK, TypeOK', TimerInv, DatabaseInv, RoundInv,
         NEW u \in Users, NEW s \in SessionIds, UseLifeline(u, s)
  PROVE  RoundInv'
<1> DEFINE g == games[s]
           used == [g.lifelines EXCEPT ![u] = @ + 1]
           h == [g EXCEPT !.lifelines = used]
<1>1. s \in DOMAIN games /\ g \in Game /\ u \in Late(g)
  BY DEF UseLifeline, Late, TypeOK, MemoryTyped
<1>2. g.round > 0 /\ InOrder(s, g, room, replay)
  BY <1>1 DEF RoundInv
<1>3. games' = [games EXCEPT ![s] = h]
  BY <1>1 DEF UseLifeline, Game
<1>4. \A i \in ActiveSlots(timers) :
        timers[i].callback # "round_timeout" => timers[i].game # s
  BY <1>1 DEF RoundInv, Quiet
<1> HIDE DEF used, g
<1>5. /\ h.round = g.round /\ h.done = g.done /\ h.config = g.config
      /\ h.players = g.players /\ h.answered = g.answered /\ h.eliminated = g.eliminated
      /\ h.score = g.score /\ h.room = g.room /\ h.rowOpen = g.rowOpen
  BY <1>1 DEF Game
<1> HIDE DEF h
<1>6. Late(h) = Late(g)
  BY <1>5 DEF Late, Active
<1>7. h.round > 0 /\ InOrder(s, h, room, replay)
  BY <1>2, <1>5, <1>6 DEF InOrder, Counted, OpenRowIsCurrent, KeptInRoom, Scored
<1>8. /\ DOMAIN games' = DOMAIN games /\ games'[s] = h
      /\ \A t \in DOMAIN games \ {s} : games'[t] = games[t]
  BY <1>1, <1>3
<1>9. UNCHANGED <<room, session, nextSession, replay, timers>>
  BY DEF UseLifeline, dbVars
<1> QED
  BY <1>1, <1>4, <1>7, <1>8, <1>9, GameWritten

\* round_timeout_callback: who is late counts as having answered.
LEMMA TimedOutFields ==
  ASSUME NEW g \in Game
  PROVE  LET h == TimedOut(g)
         IN  /\ h.round = g.round /\ h.done = g.done /\ h.config = g.config
             /\ h.room = g.room /\ h.players = g.players /\ h.eliminated = g.eliminated
             /\ h.score = g.score /\ h.timer = NoTimer /\ h.rowOpen = FALSE
BY DEF TimedOut, Game

\* Nobody is late any more.
LEMMA TimedOutAnswers ==
  ASSUME NEW g \in Game, Counted(g)
  PROVE  /\ Late(TimedOut(g)) = {}
         /\ \A u \in g.players : TimedOut(g).answered[u] \in {NotAnswered, g.round}
<1> DEFINE h == TimedOut(g)
<1>1. \A u \in Users : h.answered[u] = IF u \in Late(g) THEN g.round ELSE g.answered[u]
  BY DEF TimedOut, Game
<1>2. h.round = g.round /\ h.players = g.players /\ h.eliminated = g.eliminated
  BY TimedOutFields
<1>3. g.players \subseteq Users
  BY DEF Game
<1> HIDE DEF h
<1>4. Late(h) = {}
  BY <1>1, <1>2, <1>3 DEF Late, Active
<1>5. \A u \in g.players : h.answered[u] \in {NotAnswered, g.round}
  BY <1>1, <1>3 DEF Counted
<1> QED
  BY <1>4, <1>5 DEF h

\* round_timeout_callback.
LEMMA RoundTimeoutInOrder ==
  ASSUME TypeOK, TypeOK', TimerInv, DatabaseInv, DatabaseInv', RoundInv,
         NEW i \in TimerSlots, RoundTimeout(i)
  PROVE  RoundInv'
<1> DEFINE s == timers[i].game
           g == games[s]
           freed == ReleaseSlot(timers, i)
           h == TimedOut(g)
<1>1. /\ i \in ActiveSlots(timers) /\ s \in DOMAIN games /\ s \in SessionIds /\ g \in Game
      /\ nextSession' = nextSession
  BY DEF RoundTimeout, Due, ActiveSlots, TypeOK, MemoryTyped
<1>2. /\ replay \in [SessionIds -> Replay] /\ timers \in [TimerSlots -> Slot]
      /\ g.round > 0 /\ InOrder(s, g, room, replay)
  BY <1>1 DEF TypeOK, RowsTyped, MemoryTyped, RoundInv
<1>3. OwnedBut(s, freed) /\ CancelTimer(freed, g.timer) = freed
  BY <1>1, ReleaseOwn
<1>4. freed \in [TimerSlots -> Slot]
  BY <1>2, TableType
<1>5. \A j \in ActiveSlots(freed) : j \in ActiveSlots(timers) /\ freed[j] = timers[j]
  BY <1>2, SlotsFreed
<1>6. \A j \in ActiveSlots(freed) : freed[j].game # s
  BY <1>3 DEF OwnedBut
<1> PICK ended \in Outcomes("end_round") :
        \/ /\ games' = [games EXCEPT ![s].timer = NoTimer]
           /\ timers' = freed
           /\ UNCHANGED <<room, session, replay>>
        \/ EndGame(s, h, freed, room, session, CloseRow(replay, s, g, ended))
        \/ PauseThenAdvance(s, h, freed, CloseRow(replay, s, g, ended))
  BY <1>3 DEF RoundTimeout
<1> DEFINE rp == CloseRow(replay, s, g, ended)
<1>7. \/ /\ games' = [games EXCEPT ![s].timer = NoTimer]
         /\ timers' = freed
         /\ UNCHANGED <<room, session, replay>>
      \/ EndGame(s, h, freed, room, session, rp)
      \/ PauseThenAdvance(s, h, freed, rp)
  OBVIOUS
<1>18. ended \in BOOLEAN
  BY DEF Outcomes
<1>8. CASE /\ games' = [games EXCEPT ![s].timer = NoTimer]
           /\ timers' = freed
           /\ UNCHANGED <<room, session, replay>>
  <2>1. /\ DOMAIN games' = DOMAIN games /\ games'[s] = [g EXCEPT !.timer = NoTimer]
        /\ \A t \in DOMAIN games \ {s} : games'[t] = games[t]
    BY <1>1, <1>8
  <2> HIDE DEF g, s, freed
  <2>2. games'[s].round > 0 /\ InOrder(s, games'[s], room, replay)
    BY <1>1, <1>2, <2>1, TimerAside
  <2> QED
    BY <1>1, <1>5, <1>6, <1>8, <2>1, <2>2, GameWritten
<1> HIDE DEF g, s, freed
<1>9. h \in Game
  BY <1>1, TimedOutType
<1>10. /\ h.round = g.round /\ h.done = g.done /\ h.config = g.config
       /\ h.room = g.room /\ h.players = g.players /\ h.eliminated = g.eliminated
       /\ h.score = g.score /\ h.timer = NoTimer /\ h.rowOpen = FALSE
  BY <1>1, TimedOutFields
<1>11. Late(h) = {} /\ \A u \in g.players : h.answered[u] \in {NotAnswered, g.round}
  BY <1>1, <1>2, TimedOutAnswers DEF InOrder
<1> HIDE DEF h
<1>12. InOrder(s, h, room, rp) /\ Quiet(h)
  BY <1>1, <1>2, <1>10, <1>11, <1>18, ClosedInOrder
<1>13. rp \in [SessionIds -> Replay]
  BY <1>1, <1>2, CloseRowType
<1>14. \A t \in SessionIds \ {s} : rp[t] = replay[t]
  BY <1>2 DEF CloseRow
<1> HIDE DEF rp
<1>15. Working(s, freed, room, session, rp, nextSession') /\ s < nextSession'
  BY <1>1, <1>3, <1>5, <1>14, WorkingOn
<1>16. CASE EndGame(s, h, freed, room, session, rp)
  <2>1. rp[s].open = rp[s].unended
    BY <1>12 DEF InOrder, OpenRowIsCurrent, Quiet
  <2>2. room \in [Rooms -> Room]
    BY DEF TypeOK, RowsTyped
  <2> QED
    BY <1>1, <1>4, <1>9, <1>10, <1>15, <1>16, <2>1, <2>2, EndGameInOrder
<1>17. CASE PauseThenAdvance(s, h, freed, rp)
  BY <1>1, <1>2, <1>4, <1>9, <1>10, <1>12, <1>13, <1>15, <1>17, PauseThenAdvanceInOrder
<1> QED
  BY <1>7, <1>8, <1>16, <1>17

\* delayed_question_callback: the last round is closed when it runs.
LEMMA DelayedQuestionInOrder ==
  ASSUME TypeOK, TypeOK', TimerInv, DatabaseInv, DatabaseInv', RoundInv,
         NEW i \in TimerSlots, DelayedQuestion(i)
  PROVE  RoundInv'
<1> DEFINE s == timers[i].game
           g == games[s]
           freed == ReleaseSlot(timers, i)
           idle == [g EXCEPT !.timer = NoTimer]
<1>1. /\ i \in ActiveSlots(timers) /\ s \in DOMAIN games /\ s \in SessionIds /\ g \in Game
      /\ nextSession' = nextSession
  BY DEF DelayedQuestion, Due, ActiveSlots, TypeOK, MemoryTyped
<1>2. /\ replay \in [SessionIds -> Replay] /\ timers \in [TimerSlots -> Slot]
      /\ room \in [Rooms -> Room]
      /\ InOrder(s, g, room, replay)
  BY <1>1 DEF TypeOK, RowsTyped, MemoryTyped, RoundInv
<1>3. OwnedBut(s, freed)
  BY <1>1, ReleaseOwn
<1>4. freed \in [TimerSlots -> Slot]
  BY <1>2, TableType
<1>5. \A j \in ActiveSlots(freed) : j \in ActiveSlots(timers) /\ freed[j] = timers[j]
  BY <1>2, SlotsFreed
<1>6. ~g.rowOpen
  BY <1>1 DEF DelayedQuestion, Due, RoundInv, Quiet
<1>7. SendNextQuestion(s, idle, freed, room, session, replay)
  BY DEF DelayedQuestion
<1> HIDE DEF g, s, freed
<1>8. idle \in Game /\ idle.timer = NoTimer /\ idle.rowOpen = g.rowOpen
  BY <1>1 DEF Game, NoTimer
<1>9. InOrder(s, idle, room, replay)
  BY <1>1, <1>2, TimerAside
<1> HIDE DEF idle
<1>10. Working(s, freed, room, session, replay, nextSession') /\ s < nextSession'
  BY <1>1, <1>3, <1>5, WorkingOn
<1> QED
  BY <1>1, <1>2, <1>4, <1>6, <1>7, <1>8, <1>9, <1>10, SendNextQuestionInOrder

-----------------------------------------------------------------------------
(* The rounds of every live game are in order, in every reachable state.    *)

\* Every step of the server keeps rounds, rows, scores and pauses of all live
\* games in order, whatever the players do and whichever statements fail.
THEOREM RoundsInOrder == Spec => []RoundInv
<1>1. Init => RoundInv
  <2> SUFFICES ASSUME Init PROVE RoundInv
    OBVIOUS
  <2>1. ASSUME NEW t \in SessionIds PROVE RowsInOrder(t, session, replay, nextSession)
    BY DEF Init, RowsInOrder, NoReplay
  <2>2. ActiveSlots(timers) = {} /\ DOMAIN games = {}
    BY DEF Init, EmptyTable, FreeSlot, ActiveSlots
  <2> QED
    BY <2>1, <2>2 DEF RoundInv
<1>2. /\ TypeOK /\ TypeOK' /\ TimerInv /\ DatabaseInv /\ DatabaseInv'
      /\ RoundInv /\ [Next]_vars
      => RoundInv'
  <2> SUFFICES ASSUME TypeOK, TypeOK', TimerInv, DatabaseInv, DatabaseInv', RoundInv,
                      [Next]_vars
               PROVE  RoundInv'
    OBVIOUS
  <2>1. CASE RoomRequest
    BY <2>1, RoomWritten, LeaveDuringGameInOrder, StartGameInOrder DEF RoomRequest
  <2>2. CASE GameRequest
    <3>1. 0 \in 0..100 /\ TimePercents \subseteq 0..100
      BY OneVNAssumption DEF OneVNAssumption
    <3>2. ASSUME NEW u \in Users, NEW s \in SessionIds,
                 NEW correct \in BOOLEAN, NEW percent \in 0..100,
                 SubmitAnswer(u, s, correct, percent)
          PROVE  RoundInv'
      BY <3>2, SubmitAnswerInOrder
    <3>3. ASSUME NEW u \in Users, NEW s \in SessionIds, UseLifeline(u, s)
          PROVE  RoundInv'
      BY <3>3, UseLifelineInOrder
    <3> QED
      BY <2>2, <3>1, <3>2, <3>3 DEF GameRequest
  <2>3. CASE \E i \in TimerSlots : TimerFires(i)
    BY <2>3, RoundTimeoutInOrder, DelayedQuestionInOrder DEF TimerFires
  <2>4. CASE Restart
    BY <2>4 DEF Restart, dbVars, Restrict, RoundInv, EmptyTable, FreeSlot, ActiveSlots
  <2>5. CASE UNCHANGED vars
    BY <2>5 DEF vars, RoundInv
  <2> QED
    BY <2>1, <2>2, <2>3, <2>4, <2>5 DEF Next
<1> QED
  BY <1>1, <1>2, TypeCorrect, TimersAndGames, GamesAndRows, PTL DEF Spec

\* In the pause between two rounds nobody can answer (delayed_question_callback).
THEOREM PauseIsQuietAlways == Spec => []PauseIsQuiet
<1>1. RoundInv => PauseIsQuiet
  BY DEF RoundInv, PauseIsQuiet, Quiet
<1> QED
  BY <1>1, RoundsInOrder, PTL

\* The round number counts the questions asked and keeps to the configuration
\* (send_next_question).
THEOREM RoundsCountedAlways == Spec => []RoundsCounted
<1>1. RoundInv => RoundsCounted
  BY DEF RoundInv, InOrder, Counted, RoundsCounted
<1> QED
  BY <1>1, RoundsInOrder, PTL

\* A round row is open only as that of the current round of a live game, or because
\* the statement that closes it has failed (dao_onevn_end_round).
THEOREM RoundRowsClosedAlways == Spec => []RoundRowsClosed
<1>1. RoundInv => RoundRowsClosed
  BY DEF RoundInv, RowsInOrder, Over, InOrder, OpenRowIsCurrent, RoundRowsClosed
<1> QED
  BY <1>1, RoundsInOrder, PTL

\* The answer rows of a player add up to the live score, or to less when some
\* could not be stored (dao_onevn_save_player_answer).
THEOREM ReplayMatchesScoreAlways == Spec => []ReplayMatchesScore
<1>1. RoundInv => ReplayMatchesScore
  BY DEF RoundInv, InOrder, Scored, ReplayMatchesScore
<1> QED
  BY <1>1, RoundsInOrder, PTL

-----------------------------------------------------------------------------
(* A free slot for every game *)

GamesFit == Cardinality(DOMAIN games) <= MaxGames

\* The table of games is finite.
LEMMA GamesFinite ==
  ASSUME TypeOK
  PROVE  IsFiniteSet(DOMAIN games) /\ Cardinality(DOMAIN games) \in Nat
<1>1. MaxSessions \in Nat
  BY OneVNAssumption DEF OneVNAssumption
<1>2. IsFiniteSet(SessionIds)
  BY <1>1, FS_Interval DEF SessionIds
<1>3. DOMAIN games \in SUBSET SessionIds
  BY DEF TypeOK, MemoryTyped
<1>4. IsFiniteSet(DOMAIN games)
  BY <1>2, <1>3, FS_Subset
<1> QED
  BY <1>4, FS_CardinalityType

\* The handler of a game, its own timer released, finds a free slot: the other
\* games hold one at most (game_timer_create).
LEMMA SlotFree ==
  ASSUME TypeOK, GamesFit, MaxGames <= MaxTimers, NEW s, NEW table,
         OwnedBut(s, table),
         s \in DOMAIN games \/ Cardinality(DOMAIN games) < MaxGames
  PROVE  FreeSlots(table) # {}
<1> DEFINE others == DOMAIN games \ {s}
<1>1. IsFiniteSet(others) /\ Cardinality(others) < MaxTimers
  <2>1. MaxGames \in Nat /\ MaxTimers \in Nat
    BY OneVNAssumption, TimersAssumption DEF OneVNAssumption
  <2>2. /\ IsFiniteSet(others)
        /\ Cardinality(others) = IF s \in DOMAIN games THEN Cardinality(DOMAIN games) - 1
                                 ELSE Cardinality(DOMAIN games)
    BY GamesFinite, FS_RemoveElement
  <2> QED
    BY <2>1, <2>2, GamesFinite DEF GamesFit
<1>2. SUFFICES ASSUME FreeSlots(table) = {} PROVE FALSE
  OBVIOUS
<1>3. ActiveSlots(table) = TimerSlots
  BY <1>2 DEF FreeSlots, ActiveSlots
<1> DEFINE f == [i \in TimerSlots |-> table[i].game]
<1>4. f \in Injection(TimerSlots, others)
  <2>1. f \in [TimerSlots -> others]
    BY <1>3 DEF OwnedBut
  <2>2. \A i, j \in TimerSlots : f[i] = f[j] => i = j
    BY <1>3 DEF OwnedBut
  <2> QED
    BY <2>1, <2>2 DEF Injection, IsInjective
<1>5. Cardinality(TimerSlots) = MaxTimers
  <2>1. MaxTimers \in Nat
    BY TimersAssumption
  <2>2. Cardinality(1..MaxTimers) = IF 1 > MaxTimers THEN 0 ELSE MaxTimers - 1 + 1
    BY <2>1, FS_Interval
  <2> QED
    BY <2>1, <2>2 DEF TimerSlots
<1>6. Cardinality(TimerSlots) <= Cardinality(others)
  BY <1>1, <1>4, FS_Injection
<1>7. Cardinality(others) \in Nat /\ MaxTimers \in Nat
  BY <1>1, TimersAssumption, FS_CardinalityType
<1> QED
  BY <1>1, <1>5, <1>6, <1>7

-----------------------------------------------------------------------------
(* The clock of a game.  As long as all players stay, its timer is pending; *)
(* while that is the clock of a round, somebody has still to answer.        *)

HasClock(t, table) == \E i \in ActiveSlots(table) : /\ table[i].game = t
                                                    /\ table[i].callback = "round_timeout"

Clocked(t, g, table) ==
  /\ g.players # {}
  /\ Late(g) # {} => HasClock(t, table)
  /\ g.eliminated = {} => g.timer # NoTimer
  /\ g.eliminated = {} /\ HasClock(t, table) => Late(g) # {}

ClockInv == GamesFit /\ \A t \in DOMAIN games : Clocked(t, games[t], timers)

\* The same of all games but s, while a handler works on s.
ClockedBut(s, table) ==
  OwnedBut(s, table) /\ \A t \in DOMAIN games \ {s} : Clocked(t, games[t], table)

\* The other games keep their clocks when the timer of one is released.
LEMMA OthersClocked ==
  ASSUME TypeOK, TimerInv, ClockInv, NEW s, NEW table, OwnedBut(s, table),
         \A i \in ActiveSlots(table) : i \in ActiveSlots(timers) /\ table[i] = timers[i]
  PROVE  ClockedBut(s, table)
<1>1. ASSUME NEW t \in DOMAIN games \ {s}, HasClock(t, timers) PROVE HasClock(t, table)
  <2> PICK i \in ActiveSlots(timers) : /\ timers[i].game = t
                                       /\ timers[i].callback = "round_timeout"
    BY <1>1 DEF HasClock
  <2>1. games[t].timer = timers[i].id /\ games[t].timer # NoTimer
    BY DEF TimerInv, TimersOwned, TimersNumbered, NoTimer, TypeOK, MemoryTyped
  <2> PICK j \in ActiveSlots(table) : table[j].game = t /\ table[j].id = games[t].timer
    BY <2>1 DEF OwnedBut
  <2>2. j = i
    BY <2>1 DEF TimerInv, TimersNumbered
  <2> QED
    BY <2>2 DEF HasClock
<1>2. ASSUME NEW t, HasClock(t, table) PROVE HasClock(t, timers)
  BY <1>2 DEF HasClock
<1>3. ASSUME NEW t \in DOMAIN games \ {s} PROVE Clocked(t, games[t], table)
  BY <1>1, <1>2 DEF ClockInv, Clocked
<1> QED
  BY <1>3 DEF ClockedBut

\* The game is put back with a timer of its own (game_timer_create).
LEMMA ArmTimerClocked ==
  ASSUME TypeOK, NEW s, NEW g \in Game, NEW table \in [TimerSlots -> Slot], NEW callback,
         ClockedBut(s, table), FreeSlots(table) # {}, g.players # {},
         IF callback = "round_timeout" THEN g.eliminated = {} => Late(g) # {}
                                       ELSE Late(g) = {},
         ArmTimer(s, g, table, callback)
  PROVE  \A t \in DOMAIN games' : Clocked(t, games'[t], timers')
<1> PICK i \in TimerSlots : /\ IsFirstFree(table, i)
                            /\ games' = Put(games, s, [g EXCEPT !.timer = nextTimer])
                            /\ timers' = CreateTimer(table, i, nextTimer, callback, s)
  BY DEF ArmTimer
<1> DEFINE h == [g EXCEPT !.timer = nextTimer]
<1>1. /\ h.timer # NoTimer /\ h.players = g.players /\ h.eliminated = g.eliminated
      /\ Late(h) = Late(g)
  <2>1. /\ h.timer = nextTimer /\ h.players = g.players /\ h.eliminated = g.eliminated
        /\ h.answered = g.answered /\ h.round = g.round
    BY DEF Game
  <2>2. nextTimer # NoTimer
    BY DEF TypeOK, MemoryTyped, NoTimer
  <2> HIDE DEF h
  <2> QED
    BY <2>1, <2>2 DEF Late, Active
<1>2. /\ DOMAIN games' = DOMAIN games \cup {s}
      /\ games'[s] = h
      /\ \A t \in DOMAIN games \ {s} : games'[t] = games[t]
  BY DEF Put
<1> HIDE DEF h
<1>3. i \notin ActiveSlots(table)
  BY DEF IsFirstFree, FreeSlots
<1>4. /\ timers'[i].active /\ timers'[i].game = s /\ timers'[i].callback = callback
      /\ \A j \in TimerSlots \ {i} : timers'[j] = table[j]
  BY DEF CreateTimer
<1>5. ActiveSlots(timers') = ActiveSlots(table) \cup {i}
  BY <1>4 DEF ActiveSlots
<1>6. \A j \in ActiveSlots(table) : timers'[j] = table[j] /\ table[j].game # s
  BY <1>3, <1>4 DEF ActiveSlots, ClockedBut, OwnedBut
<1>7. ASSUME NEW t, t # s PROVE HasClock(t, timers') <=> HasClock(t, table)
  BY <1>4, <1>5, <1>6, <1>7 DEF HasClock
<1>8. HasClock(s, timers') <=> callback = "round_timeout"
  BY <1>4, <1>5, <1>6 DEF HasClock
<1>9. Clocked(s, h, timers')
  BY <1>1, <1>8 DEF Clocked
<1>10. ASSUME NEW t \in DOMAIN games \ {s} PROVE Clocked(t, games'[t], timers')
  BY <1>2, <1>7 DEF ClockedBut, Clocked
<1> QED
  BY <1>2, <1>9, <1>10

\* end_game.
LEMMA EndGameClocked ==
  ASSUME TypeOK, NEW s, NEW g, g.timer = NoTimer, NEW table \in [TimerSlots -> Slot],
         NEW rooms, NEW sessions, NEW rp, ClockedBut(s, table),
         EndGame(s, g, table, rooms, sessions, rp)
  PROVE  \A t \in DOMAIN games' : Clocked(t, games'[t], timers')
<1>1. \A i \in ActiveSlots(table) : table[i].id # NoTimer
  BY DEF ClockedBut, OwnedBut, NoTimer, TypeOK, MemoryTyped
<1>2. timers' = table
  BY <1>1, CancelNobody DEF EndGame
<1>3. /\ DOMAIN games' = DOMAIN games \ {s}
      /\ \A t \in DOMAIN games \ {s} : games'[t] = games[t]
  BY DEF EndGame, Restrict
<1> QED
  BY <1>2, <1>3 DEF ClockedBut

\* send_next_question: the new round has a clock, and everybody in the game
\* has still to answer.
LEMMA SendNextQuestionClocked ==
  ASSUME TypeOK, NEW s, NEW g \in Game, g.timer = NoTimer, g.players # {},
         NEW table \in [TimerSlots -> Slot], NEW rooms, NEW sessions, NEW rp,
         ClockedBut(s, table), FreeSlots(table) # {},
         SendNextQuestion(s, g, table, rooms, sessions, rp)
  PROVE  \A t \in DOMAIN games' : Clocked(t, games'[t], timers')
<1> DEFINE n == NextRound(g)
<1>1. n \in Game /\ n.timer = NoTimer /\ n.difficulty \in Difficulties
  BY NextRoundType
<1>2. \/ EndGame(s, g, table, rooms, sessions, rp)
      \/ EndGame(s, n, table, rooms, sessions, rp)
      \/ AskQuestion(s, n, table, rooms, sessions, rp)
  BY DEF SendNextQuestion
<1>3. CASE AskQuestion(s, n, table, rooms, sessions, rp)
  <2>1. CancelTimer(table, n.timer) = table
    <3>1. \A i \in ActiveSlots(table) : table[i].id # NoTimer
      BY DEF ClockedBut, OwnedBut, NoTimer, TypeOK, MemoryTyped
    <3> QED
      BY <1>1, <3>1, CancelNobody
  <2> HIDE DEF n
  <2> PICK stored \in Outcomes("create_round") : ArmTimer(s, Asked(n, stored), table, "round_timeout")
    BY <1>3, <2>1 DEF AskQuestion
  <2> DEFINE h == Asked(n, stored)
  <2>2. stored \in BOOLEAN
    BY DEF Outcomes
  <2>3. h \in Game
    BY <1>1, <2>2, AskedType
  <2>4. /\ h.round = g.round + 1 /\ h.answered = [u \in Users |-> NotAnswered]
        /\ h.done = [g.done EXCEPT ![NextDifficulty(g)] = @ + 1]
        /\ h.players = g.players /\ h.eliminated = g.eliminated
    BY <2>2, NextAsked DEF n
  <2>5. ArmTimer(s, h, table, "round_timeout")
    OBVIOUS
  <2> HIDE DEF h
  <2>6. g.players \subseteq Users /\ g.round \in Nat
    BY DEF Game
  <2>7. h.eliminated = {} => Late(h) # {}
    BY <2>4, <2>6 DEF Late, Active, NotAnswered
  <2> QED
    BY <2>3, <2>4, <2>5, <2>7, ArmTimerClocked
<1> HIDE DEF n
<1>4. CASE EndGame(s, g, table, rooms, sessions, rp)
  BY <1>4, EndGameClocked
<1>5. CASE EndGame(s, n, table, rooms, sessions, rp)
  BY <1>1, <1>5, EndGameClocked
<1> QED
  BY <1>2, <1>3, <1>4, <1>5

\* The pause after a round gets its timer, so nothing is asked at once.
LEMMA PauseClocked ==
  ASSUME TypeOK, NEW s, NEW g \in Game, g.players # {}, Late(g) = {},
         NEW table \in [TimerSlots -> Slot], NEW rp,
         ClockedBut(s, table), FreeSlots(table) # {},
         PauseThenAdvance(s, g, table, rp)
  PROVE  \A t \in DOMAIN games' : Clocked(t, games'[t], timers')
BY ArmTimerClocked DEF PauseThenAdvance

-----------------------------------------------------------------------------
(* The handlers *)

\* Only START_GAME adds a game, and only to a table that is not full.
LEMMA GamesAdded ==
  ASSUME TypeOK, [Next]_vars
  PROVE  \/ DOMAIN games' \subseteq DOMAIN games
         \/ /\ Cardinality(DOMAIN games) < MaxGames
            /\ DOMAIN games' \subseteq DOMAIN games \cup {nextSession}
<1>1. ASSUME NEW u \in Users, NEW r \in Rooms, StartGame(u, r)
      PROVE  \/ DOMAIN games' \subseteq DOMAIN games
             \/ /\ Cardinality(DOMAIN games) < MaxGames
                /\ DOMAIN games' \subseteq DOMAIN games \cup {nextSession}
  BY <1>1, NoOtherGame DEF StartGame, memVars
<1>2. ASSUME NEW u \in Users, NEW r \in Rooms,
             \/ \E c \in Configs : CreateRoom(u, r, c)
             \/ JoinRoom(u, r) \/ LeaveRoom(u, r) \/ StartRefused(u, r)
             \/ LeaveDuringGame(u, r)
      PROVE  DOMAIN games' \subseteq DOMAIN games
  BY <1>2 DEF CreateRoom, JoinRoom, LeaveRoom, StartRefused, memVars, LeaveDuringGame,
              PlayerEliminated
<1>3. ASSUME NEW u \in Users, NEW s \in SessionIds, NEW correct, NEW percent,
             SubmitAnswer(u, s, correct, percent)
      PROVE  DOMAIN games' \subseteq DOMAIN games
  <2>1. s \in DOMAIN games
    BY <1>3 DEF SubmitAnswer
  <2>2. DOMAIN games' \subseteq DOMAIN games \cup {s}
    BY <1>3, NoOtherGame DEF SubmitAnswer, Put
  <2> QED
    BY <2>1, <2>2
<1>4. ASSUME NEW u \in Users, NEW s \in SessionIds, UseLifeline(u, s)
      PROVE  DOMAIN games' \subseteq DOMAIN games
  BY <1>4 DEF UseLifeline
<1>5. ASSUME NEW i \in TimerSlots, TimerFires(i)
      PROVE  DOMAIN games' \subseteq DOMAIN games
  <2>1. timers[i].game \in DOMAIN games
    BY <1>5 DEF TimerFires, RoundTimeout, DelayedQuestion, Due
  <2>2. DOMAIN games' \subseteq DOMAIN games \cup {timers[i].game}
    BY <1>5, NoOtherGame DEF TimerFires, RoundTimeout, DelayedQuestion
  <2> QED
    BY <2>1, <2>2
<1>6. CASE Restart
  BY <1>6 DEF Restart, Restrict
<1>7. CASE UNCHANGED vars
  BY <1>7 DEF vars
<1>8. CASE RoomRequest
  BY <1>1, <1>2, <1>8 DEF RoomRequest
<1>9. CASE GameRequest
  BY <1>3, <1>4, <1>9 DEF GameRequest
<1> QED
  BY <1>5, <1>6, <1>7, <1>8, <1>9 DEF Next

\* So there are never more games than MAX_GAMES.
LEMMA GamesFitStep ==
  ASSUME TypeOK, GamesFit, [Next]_vars
  PROVE  GamesFit'
<1>1. IsFiniteSet(DOMAIN games) /\ Cardinality(DOMAIN games) \in Nat
  BY GamesFinite
<1>2. MaxGames \in Nat
  BY OneVNAssumption DEF OneVNAssumption
<1>3. CASE DOMAIN games' \subseteq DOMAIN games
  <2>1. IsFiniteSet(DOMAIN games') /\ Cardinality(DOMAIN games') <= Cardinality(DOMAIN games)
    BY <1>1, <1>3, FS_Subset
  <2>2. Cardinality(DOMAIN games') \in Nat
    BY <2>1, FS_CardinalityType
  <2> QED
    BY <1>1, <1>2, <2>1, <2>2 DEF GamesFit
<1>4. CASE /\ Cardinality(DOMAIN games) < MaxGames
           /\ DOMAIN games' \subseteq DOMAIN games \cup {nextSession}
  <2> DEFINE more == DOMAIN games \cup {nextSession}
  <2>1. /\ IsFiniteSet(more)
        /\ \/ Cardinality(more) = Cardinality(DOMAIN games)
           \/ Cardinality(more) = Cardinality(DOMAIN games) + 1
    BY <1>1, FS_AddElement
  <2>2. IsFiniteSet(DOMAIN games') /\ Cardinality(DOMAIN games') <= Cardinality(more)
    BY <1>4, <2>1, FS_Subset
  <2>3. Cardinality(DOMAIN games') \in Nat
    BY <2>2, FS_CardinalityType
  <2> HIDE DEF more
  <2> QED
    BY <1>1, <1>2, <1>4, <2>1, <2>2, <2>3 DEF GamesFit
<1> QED
  BY <1>3, <1>4, GamesAdded

\* handle_leave_room during a game: one late player fewer at most.
LEMMA LeaveDuringGameClocked ==
  ASSUME TypeOK, ClockInv, NEW u \in Users, NEW r \in Rooms, LeaveDuringGame(u, r)
  PROVE  \A t \in DOMAIN games' : Clocked(t, games'[t], timers')
<1> SUFFICES ASSUME NEW t \in DOMAIN games' PROVE Clocked(t, games'[t], timers')
  OBVIOUS
<1> DEFINE g == games[t]
           h == games'[t]
<1>1. t \in DOMAIN games /\ timers' = timers
  BY DEF LeaveDuringGame, PlayerEliminated
<1>2. g \in Game /\ Clocked(t, g, timers)
  BY <1>1 DEF TypeOK, MemoryTyped, ClockInv
<1>3. h = g \/ h = [g EXCEPT !.eliminated = @ \cup {u}]
  BY <1>1 DEF LeaveDuringGame, PlayerEliminated
<1> HIDE DEF g, h
<1>4. /\ h.players = g.players /\ h.answered = g.answered /\ h.round = g.round
      /\ h.timer = g.timer
      /\ h.eliminated = g.eliminated \/ h.eliminated = g.eliminated \cup {u}
  BY <1>2, <1>3 DEF Game
<1>5. Late(h) \subseteq Late(g)
  BY <1>4 DEF Late, Active
<1>6. h.eliminated = {} => Late(h) = Late(g) /\ g.eliminated = {}
  BY <1>4 DEF Late, Active
<1>7. Clocked(t, h, timers')
  BY <1>1, <1>2, <1>4, <1>5, <1>6 DEF Clocked
<1> QED
  BY <1>7 DEF h

\* handle_start_game.
LEMMA StartGameClocked ==
  ASSUME TypeOK, TimerInv, ClockInv, MaxGames <= MaxTimers,
         NEW u \in Users, NEW r \in Rooms, StartGame(u, r)
  PROVE  \A t \in DOMAIN games' : Clocked(t, games'[t], timers')
<1> DEFINE s == nextSession
           config == StartConfig(r)
           players == FirstMembers(room[r].members)
           g == NewGame(r, config, players)
           rooms == SetRoomStatus([room EXCEPT ![r].config = config], r, "IN_PROGRESS")
           sessions == [session EXCEPT ![s] = [room |-> r, status |-> "IN_PROGRESS",
                                               winner |-> NoUser]]
<1>1. Cardinality(players) >= 2
  BY DEF StartGame
<1>2. \/ /\ Cardinality(DOMAIN games) < MaxGames
         /\ SendNextQuestion(s, g, timers, rooms, sessions, replay)
      \/ UNCHANGED memVars
  BY DEF StartGame
<1>3. players \in SUBSET Users /\ config \in [Difficulties -> Int]
  BY OneVNAssumption DEF OneVNAssumption, StartConfig, FirstMembers, Room, TypeOK, RowsTyped
<1>4. players # {}
  BY <1>1, FS_EmptySet
<1>5. g \in Game
  BY <1>3, NewGameType
<1>6. g.timer = NoTimer /\ g.players # {}
  BY <1>4 DEF NewGame
<1>7. s \notin DOMAIN games
  BY DEF TimerInv, GamesNumbered, TypeOK
<1>8. OwnedBut(s, timers)
  BY <1>7 DEF OwnedBut, TimerInv, TimersOwned, TimersNumbered
<1>9. ClockedBut(s, timers) /\ timers \in [TimerSlots -> Slot]
  BY <1>8 DEF ClockedBut, ClockInv, TypeOK, MemoryTyped
<1> HIDE DEF s, g, rooms, sessions
<1>10. CASE /\ Cardinality(DOMAIN games) < MaxGames
            /\ SendNextQuestion(s, g, timers, rooms, sessions, replay)
  <2>1. FreeSlots(timers) # {}
    BY <1>8, <1>10, SlotFree DEF ClockInv
  <2> QED
    BY <1>5, <1>6, <1>9, <1>10, <2>1, SendNextQuestionClocked
<1>11. CASE UNCHANGED memVars
  BY <1>11 DEF memVars, ClockInv
<1> QED
  BY <1>2, <1>10, <1>11

\* handle_submit_answer: the last answer of a round starts the pause.
LEMMA SubmitAnswerClocked ==
  ASSUME TypeOK, TimerInv, ClockInv, MaxGames <= MaxTimers,
         NEW u \in Users, NEW s \in SessionIds,
         NEW correct \in BOOLEAN, NEW percent \in 0..100,
         SubmitAnswer(u, s, correct, percent)
  PROVE  \A t \in DOMAIN games' : Clocked(t, games'[t], timers')
<1> DEFINE old == games[s]
           g == Answered(old, u, correct, percent)
           closed == [g EXCEPT !.timer = NoTimer, !.rowOpen = FALSE]
           table == CancelTimer(timers, g.timer)
<1>1. /\ s \in DOMAIN games /\ old \in Game /\ old.difficulty \in Difficulties
      /\ u \in Late(old) /\ timers \in [TimerSlots -> Slot]
  BY DEF SubmitAnswer, Late, TypeOK, MemoryTyped, Game
<1>2. Clocked(s, old, timers)
  BY <1>1 DEF ClockInv
<1>3. g \in Game
  BY <1>1, AnsweredType
<1>4. \/ Late(g) = {} /\ \E rp : PauseThenAdvance(s, closed, table, rp)
      \/ Late(g) # {} /\ games' = Put(games, s, g) /\ timers' = timers
  BY DEF SubmitAnswer
<1> HIDE DEF old
<1>5. /\ g.round = old.round /\ g.players = old.players /\ g.eliminated = old.eliminated
      /\ g.timer = old.timer
  BY <1>1, AnsweredKeeps
<1>6. /\ g.answered[u] = old.round
      /\ \A v \in Users : v # u => g.answered[v] = old.answered[v]
      /\ \A v \in Users : v # u => g.score[v] = old.score[v]
  BY <1>1, AnsweredMarked
<1>7. table = CancelTimer(timers, games[s].timer)
  BY <1>5 DEF old
<1> HIDE DEF g, table
<1>8. CASE Late(g) = {} /\ \E rp : PauseThenAdvance(s, closed, table, rp)
  <2> PICK rp : PauseThenAdvance(s, closed, table, rp)
    BY <1>8
  <2>1. /\ closed \in Game /\ closed.round = g.round /\ closed.players = g.players
        /\ closed.eliminated = g.eliminated /\ closed.answered = g.answered
    BY <1>3 DEF Game, NoTimer
  <2> HIDE DEF closed
  <2>2. Late(closed) = {} /\ closed.players # {}
    BY <1>5, <1>8, <1>2, <2>1 DEF Late, Active, Clocked
  <2>3. OwnedBut(s, table)
    BY <1>1, <1>7, CancelOwn
  <2>4. table \in [TimerSlots -> Slot]
    BY <1>1, <1>7, TableType
  <2>5. \A i \in ActiveSlots(table) : i \in ActiveSlots(timers) /\ table[i] = timers[i]
    <3>1. ASSUME NEW i \in TimerSlots
          PROVE  i \in ActiveSlots(table) => i \in ActiveSlots(timers) /\ table[i] = timers[i]
      BY <1>1, <1>7, SlotsFreed
    <3> QED
      BY <3>1 DEF ActiveSlots
  <2>6. ClockedBut(s, table)
    BY <2>3, <2>5, OthersClocked
  <2>7. FreeSlots(table) # {}
    BY <1>1, <2>3, SlotFree DEF ClockInv
  <2> QED
    BY <2>1, <2>2, <2>4, <2>6, <2>7, PauseClocked
<1>9. CASE Late(g) # {} /\ games' = Put(games, s, g) /\ timers' = timers
  <2>1. /\ DOMAIN games' = DOMAIN games
        /\ games'[s] = g
        /\ \A t \in DOMAIN games \ {s} : games'[t] = games[t]
    BY <1>1, <1>9 DEF Put
  <2>2. Clocked(s, g, timers')
    BY <1>1, <1>5, <1>9, <1>2 DEF Clocked
  <2> QED
    BY <1>9, <2>1, <2>2 DEF ClockInv
<1> QED
  BY <1>4, <1>8, <1>9

\* handle_use_lifeline.
LEMMA UseLifelineClocked ==
  ASSUME TypeOK, ClockInv, NEW u \in Users, NEW s \in SessionIds, UseLifeline(u, s)
  PROVE  \A t \in DOMAIN games' : Clocked(t, games'[t], timers')
<1> DEFINE g == games[s]
           used == [g.lifelines EXCEPT ![u] = @ + 1]
           h == [g EXCEPT !.lifelines = used]
<1>1. s \in DOMAIN games /\ g \in Game /\ Clocked(s, g, timers) /\ timers' = timers
  BY DEF UseLifeline, TypeOK, MemoryTyped, ClockInv
<1>2. games' = [games EXCEPT ![s] = h]
  BY <1>1 DEF UseLifeline, Game
<1> HIDE DEF used, g
<1>3. /\ h.round = g.round /\ h.players = g.players /\ h.answered = g.answered
      /\ h.eliminated = g.eliminated /\ h.timer = g.timer
  BY <1>1 DEF Game
<1> HIDE DEF h
<1>4. Late(h) = Late(g)
  BY <1>3 DEF Late, Active
<1>5. Clocked(s, h, timers')
  BY <1>1, <1>3, <1>4 DEF Clocked
<1> QED
  BY <1>1, <1>2, <1>5 DEF ClockInv

\* round_timeout_callback: it returns early only in a game somebody has left.
LEMMA RoundTimeoutClocked ==
  ASSUME TypeOK, TimerInv, RoundInv, ClockInv, MaxGames <= MaxTimers,
         NEW i \in TimerSlots, RoundTimeout(i)
  PROVE  \A t \in DOMAIN games' : Clocked(t, games'[t], timers')
<1> DEFINE s == timers[i].game
           g == games[s]
           freed == ReleaseSlot(timers, i)
           h == TimedOut(g)
<1>1. /\ i \in ActiveSlots(timers) /\ timers[i].callback = "round_timeout"
      /\ s \in DOMAIN games /\ g \in Game /\ timers \in [TimerSlots -> Slot]
      /\ Clocked(s, g, timers)
  BY DEF RoundTimeout, Due, ActiveSlots, TypeOK, MemoryTyped, ClockInv
<1>2. OwnedBut(s, freed) /\ CancelTimer(freed, g.timer) = freed
  BY <1>1, ReleaseOwn
<1>3. freed \in [TimerSlots -> Slot]
  BY <1>1, TableType
<1>4. \A j \in ActiveSlots(freed) : j \in ActiveSlots(timers) /\ freed[j] = timers[j]
  BY <1>1, SlotsFreed
<1>5. ~(g.timer < 0)
  BY <1>1 DEF TimerInv, TimersOwned, TimersNumbered, TypeOK, MemoryTyped
<1>6. HasClock(s, timers) /\ Counted(g)
  BY <1>1 DEF HasClock, RoundInv, InOrder
<1> PICK rp :
        \/ /\ Late(g) = {}
           /\ games' = [games EXCEPT ![s].timer = NoTimer]
           /\ timers' = freed
        \/ EndGame(s, h, freed, room, session, rp)
        \/ PauseThenAdvance(s, h, freed, rp)
  BY <1>2, <1>5 DEF RoundTimeout
<1>7. \/ /\ Late(g) = {}
         /\ games' = [games EXCEPT ![s].timer = NoTimer]
         /\ timers' = freed
      \/ EndGame(s, h, freed, room, session, rp)
      \/ PauseThenAdvance(s, h, freed, rp)
  OBVIOUS
<1> HIDE DEF g, s, freed
<1>8. h \in Game
  BY <1>1, TimedOutType
<1>9. h.players = g.players /\ h.timer = NoTimer /\ Late(h) = {}
  BY <1>1, <1>6, TimedOutFields, TimedOutAnswers
<1> HIDE DEF h
<1>10. ClockedBut(s, freed)
  BY <1>2, <1>4, OthersClocked
<1>11. FreeSlots(freed) # {}
  BY <1>1, <1>2, SlotFree DEF ClockInv
<1>12. h.players # {}
  BY <1>1, <1>9 DEF Clocked
<1>13. CASE /\ Late(g) = {}
            /\ games' = [games EXCEPT ![s].timer = NoTimer]
            /\ timers' = freed
  <2> DEFINE idle == [g EXCEPT !.timer = NoTimer]
  <2>1. /\ DOMAIN games' = DOMAIN games
        /\ games'[s] = idle
        /\ \A t \in DOMAIN games \ {s} : games'[t] = games[t]
    BY <1>1, <1>13 DEF g
  <2>2. Late(idle) = {}
    BY <1>1, <1>13, TimerAside
  <2>3. idle.players = g.players /\ idle.eliminated = g.eliminated
    BY <1>1 DEF Game
  <2> HIDE DEF idle
  <2>4. idle.eliminated # {} /\ idle.players # {}
    BY <1>1, <1>6, <1>13, <2>3 DEF Clocked
  <2>5. Clocked(s, idle, timers')
    BY <2>2, <2>4 DEF Clocked
  <2> QED
    BY <1>10, <1>13, <2>1, <2>5 DEF ClockedBut
<1>14. CASE EndGame(s, h, freed, room, session, rp)
  BY <1>3, <1>9, <1>10, <1>14, EndGameClocked
<1>15. CASE PauseThenAdvance(s, h, freed, rp)
  BY <1>3, <1>8, <1>9, <1>10, <1>11, <1>12, <1>15, PauseClocked
<1> QED
  BY <1>7, <1>13, <1>14, <1>15

\* delayed_question_callback.
LEMMA DelayedQuestionClocked ==
  ASSUME TypeOK, TimerInv, ClockInv, MaxGames <= MaxTimers,
         NEW i \in TimerSlots, DelayedQuestion(i)
  PROVE  \A t \in DOMAIN games' : Clocked(t, games'[t], timers')
<1> DEFINE s == timers[i].game
           g == games[s]
           freed == ReleaseSlot(timers, i)
           idle == [g EXCEPT !.timer = NoTimer]
<1>1. /\ i \in ActiveSlots(timers) /\ s \in DOMAIN games /\ g \in Game
      /\ timers \in [TimerSlots -> Slot] /\ Clocked(s, g, timers)
  BY DEF DelayedQuestion, Due, ActiveSlots, TypeOK, MemoryTyped, ClockInv
<1>2. OwnedBut(s, freed)
  BY <1>1, ReleaseOwn
<1>3. freed \in [TimerSlots -> Slot]
  BY <1>1, TableType
<1>4. \A j \in ActiveSlots(freed) : j \in ActiveSlots(timers) /\ freed[j] = timers[j]
  BY <1>1, SlotsFreed
<1>5. SendNextQuestion(s, idle, freed, room, session, replay)
  BY DEF DelayedQuestion
<1> HIDE DEF g, s, freed
<1>6. idle \in Game /\ idle.timer = NoTimer /\ idle.players = g.players
  BY <1>1 DEF Game, NoTimer
<1> HIDE DEF idle
<1>7. idle.players # {}
  BY <1>1, <1>6 DEF Clocked
<1>8. ClockedBut(s, freed)
  BY <1>2, <1>4, OthersClocked
<1>9. FreeSlots(freed) # {}
  BY <1>1, <1>2, SlotFree DEF ClockInv
<1> QED
  BY <1>3, <1>5, <1>6, <1>7, <1>8, <1>9, SendNextQuestionClocked

-----------------------------------------------------------------------------
(* The clocks of every live game, in every reachable state                  *)

\* With a timer slot for every entry of the table of games, as in the code,
\* every step of the server keeps the clocks of all live games.
THEOREM ClocksInOrder == ASSUME MaxGames <= MaxTimers PROVE Spec => []ClockInv
<1>1. Init => ClockInv
  <2> SUFFICES ASSUME Init PROVE ClockInv
    OBVIOUS
  <2>1. DOMAIN games = {}
    BY DEF Init
  <2>2. MaxGames \in Nat
    BY OneVNAssumption DEF OneVNAssumption
  <2>3. Cardinality(DOMAIN games) = 0
    BY <2>1, FS_EmptySet
  <2> QED
    BY <2>1, <2>2, <2>3 DEF ClockInv, GamesFit
<1>2. TypeOK /\ TimerInv /\ RoundInv /\ ClockInv /\ [Next]_vars => ClockInv'
  <2> SUFFICES ASSUME TypeOK, TimerInv, RoundInv, ClockInv, [Next]_vars
               PROVE  ClockInv'
    OBVIOUS
  <2>1. SUFFICES \A t \in DOMAIN games' : Clocked(t, games'[t], timers')
    BY GamesFitStep DEF ClockInv
  <2>2. ASSUME NEW u \in Users, NEW r \in Rooms,
               \/ \E c \in Configs : CreateRoom(u, r, c)
               \/ JoinRoom(u, r) \/ LeaveRoom(u, r) \/ StartRefused(u, r)
        PROVE  \A t \in DOMAIN games' : Clocked(t, games'[t], timers')
    BY <2>2 DEF CreateRoom, JoinRoom, LeaveRoom, StartRefused, memVars, ClockInv
  <2>3. CASE RoomRequest
    BY <2>2, <2>3, LeaveDuringGameClocked, StartGameClocked DEF RoomRequest
  <2>4. CASE GameRequest
    <3>1. 0 \in 0..100 /\ TimePercents \subseteq 0..100
      BY OneVNAssumption DEF OneVNAssumption
    <3>2. ASSUME NEW u \in Users, NEW s \in SessionIds,
                 NEW correct \in BOOLEAN, NEW percent \in 0..100,
                 SubmitAnswer(u, s, correct, percent)
          PROVE  \A t \in DOMAIN games' : Clocked(t, games'[t], timers')
      BY <3>2, SubmitAnswerClocked
    <3>3. ASSUME NEW u \in Users, NEW s \in SessionIds, UseLifeline(u, s)
          PROVE  \A t \in DOMAIN games' : Clocked(t, games'[t], timers')
      BY <3>3, UseLifelineClocked
    <3> QED
      BY <2>4, <3>1, <3>2, <3>3 DEF GameRequest
  <2>5. CASE \E i \in TimerSlots : TimerFires(i)
    BY <2>5, RoundTimeoutClocked, DelayedQuestionClocked DEF TimerFires
  <2>6. CASE Restart
    BY <2>6 DEF Restart, Restrict
  <2>7. CASE UNCHANGED vars
    BY <2>7 DEF vars, ClockInv
  <2> QED
    BY <2>3, <2>4, <2>5, <2>6, <2>7 DEF Next
<1> QED
  BY <1>1, <1>2, TypeCorrect, TimersAndGames, RoundsInOrder, PTL DEF Spec

\* Whoever still has to answer plays against a running clock (send_next_question,
\* round_timeout_callback).
THEOREM LateHaveAClockAlways == ASSUME MaxGames <= MaxTimers PROVE Spec => []LateHaveAClock
<1>1. ClockInv => LateHaveAClock
  BY DEF ClockInv, Clocked, HasClock, LateHaveAClock
<1> QED
  BY <1>1, ClocksInOrder, PTL

\* A live game has a timer as long as nobody has left it (onevn_service.c).
THEOREM ClockUnlessSomeoneLeftAlways ==
  ASSUME MaxGames <= MaxTimers PROVE Spec => []ClockUnlessSomeoneLeft
<1>1. ClockInv => ClockUnlessSomeoneLeft
  BY DEF ClockInv, Clocked, ClockUnlessSomeoneLeft
<1> QED
  BY <1>1, ClocksInOrder, PTL

-----------------------------------------------------------------------------
(* What a step may do to rounds and scores                                  *)

\* Game t keeps its round and its scores in a step, or ends.
Untouched(t) == t \in DOMAIN games' => /\ games'[t].round = games[t].round
                                       /\ games'[t].score = games[t].score

\* game_timer_create: only the timer_id of the game changes.
LEMMA ArmTimerEffect ==
  ASSUME NEW s, NEW g \in Game, NEW table, NEW callback, ArmTimer(s, g, table, callback)
  PROVE  /\ \A t \in DOMAIN games \ {s} : games'[t] = games[t]
         /\ games'[s].round = g.round /\ games'[s].score = g.score
         /\ games'[s].answered = g.answered
<1> PICK id : games' = Put(games, s, [g EXCEPT !.timer = id])
  BY DEF ArmTimer
<1>1. games'[s] = [g EXCEPT !.timer = id] /\ \A t \in DOMAIN games \ {s} : games'[t] = games[t]
  BY DEF Put
<1> QED
  BY <1>1 DEF Game

\* send_next_question: one round more with the same scores, or the end.
LEMMA SendNextQuestionEffect ==
  ASSUME NEW s, NEW g \in Game, NEW table, NEW rooms, NEW sessions, NEW rp,
         SendNextQuestion(s, g, table, rooms, sessions, rp)
  PROVE  /\ \A t \in DOMAIN games \ {s} : games'[t] = games[t]
         /\ s \in DOMAIN games' => /\ games'[s].round = g.round + 1
                                   /\ games'[s].score = g.score
<1> DEFINE n == NextRound(g)
<1>1. n \in Game /\ n.difficulty \in Difficulties
  BY NextRoundType
<1>2. ASSUME NEW h, EndGame(s, h, table, rooms, sessions, rp)
      PROVE  s \notin DOMAIN games' /\ \A t \in DOMAIN games \ {s} : games'[t] = games[t]
  BY <1>2 DEF EndGame, Restrict
<1>3. CASE AskQuestion(s, n, table, rooms, sessions, rp)
  <2> PICK stored \in Outcomes("create_round") :
        ArmTimer(s, Asked(n, stored), CancelTimer(table, n.timer), "round_timeout")
    BY <1>3 DEF AskQuestion
  <2> DEFINE h == Asked(n, stored)
  <2>1. stored \in BOOLEAN
    BY DEF Outcomes
  <2>2. h \in Game
    BY <1>1, <2>1, AskedType
  <2>3. /\ h.round = g.round + 1
        /\ h.done = [g.done EXCEPT ![NextDifficulty(g)] = @ + 1]
        /\ h.answered = [u \in Users |-> NotAnswered]
        /\ h.score = g.score
    BY <2>1, NextAsked
  <2>4. \E rest : ArmTimer(s, h, rest, "round_timeout")
    OBVIOUS
  <2> HIDE DEF h, n
  <2> QED
    BY <2>2, <2>3, <2>4, ArmTimerEffect
<1> HIDE DEF n
<1> QED
  BY <1>2, <1>3 DEF SendNextQuestion, n

\* The pause after a round: the round and its answers stay, or, without a free
\* timer, the next question is out.
LEMMA PauseEffect ==
  ASSUME NEW s, NEW g \in Game, NEW table, NEW rp, PauseThenAdvance(s, g, table, rp)
  PROVE  /\ \A t \in DOMAIN games \ {s} : games'[t] = games[t]
         /\ s \in DOMAIN games' =>
              /\ games'[s].score = g.score
              /\ \/ games'[s].round = g.round /\ games'[s].answered = g.answered
                 \/ games'[s].round = g.round + 1 /\ FreeSlots(table) = {}
<1>1. CASE FreeSlots(table) = {}
  <2> DEFINE idle == [g EXCEPT !.timer = NoTimer]
  <2>1. SendNextQuestion(s, idle, table, room, session, rp)
    BY <1>1 DEF PauseThenAdvance
  <2>2. idle \in Game /\ idle.round = g.round /\ idle.score = g.score
    BY DEF Game, NoTimer
  <2> HIDE DEF idle
  <2> QED
    BY <1>1, <2>1, <2>2, SendNextQuestionEffect
<1>2. CASE FreeSlots(table) # {}
  <2>1. ArmTimer(s, g, table, "delayed_question")
    BY <1>2 DEF PauseThenAdvance
  <2> QED
    BY <2>1, ArmTimerEffect
<1> QED
  BY <1>1, <1>2

\* Room requests: a new game is no game that was live before.
LEMMA RoomRequestEffect ==
  ASSUME TypeOK, TimerInv, RoomRequest
  PROVE  \A t \in DOMAIN games : Untouched(t)
<1>1. ASSUME NEW u \in Users, NEW r \in Rooms,
             \/ \E c \in Configs : CreateRoom(u, r, c)
             \/ JoinRoom(u, r) \/ LeaveRoom(u, r) \/ StartRefused(u, r)
      PROVE  \A t \in DOMAIN games : Untouched(t)
  BY <1>1 DEF CreateRoom, JoinRoom, LeaveRoom, StartRefused, memVars, Untouched
<1>2. ASSUME NEW u \in Users, NEW r \in Rooms, LeaveDuringGame(u, r), NEW t \in DOMAIN games
      PROVE  Untouched(t)
  <2>1. games[t] \in Game
    BY DEF TypeOK, MemoryTyped
  <2>2. games'[t] = games[t] \/ games'[t] = [games[t] EXCEPT !.eliminated = @ \cup {u}]
    BY <1>2 DEF LeaveDuringGame, PlayerEliminated
  <2> QED
    BY <2>1, <2>2 DEF Untouched, Game
<1>3. ASSUME NEW u \in Users, NEW r \in Rooms, StartGame(u, r)
      PROVE  \A t \in DOMAIN games : Untouched(t)
  <2> DEFINE players == FirstMembers(room[r].members)
             g == NewGame(r, StartConfig(r), players)
  <2>1. \/ \E rooms, sessions : SendNextQuestion(nextSession, g, timers, rooms, sessions, replay)
        \/ UNCHANGED memVars
    BY <1>3 DEF StartGame
  <2>2. players \in SUBSET Users /\ StartConfig(r) \in [Difficulties -> Int]
    BY OneVNAssumption DEF OneVNAssumption, StartConfig, FirstMembers, Room, TypeOK, RowsTyped
  <2>3. g \in Game
    BY <2>2, NewGameType
  <2>4. nextSession \notin DOMAIN games
    BY DEF TimerInv, GamesNumbered, TypeOK
  <2> HIDE DEF g
  <2>5. \A t \in DOMAIN games : games'[t] = games[t]
    BY <2>1, <2>3, <2>4, SendNextQuestionEffect DEF memVars
  <2> QED
    BY <2>5 DEF Untouched
<1> QED
  BY <1>1, <1>2, <1>3 DEF RoomRequest

\* handle_use_lifeline.
LEMMA UseLifelineEffect ==
  ASSUME TypeOK, NEW u \in Users, NEW s \in SessionIds, UseLifeline(u, s)
  PROVE  \A t \in DOMAIN games : Untouched(t)
<1> DEFINE g == games[s]
           used == [g.lifelines EXCEPT ![u] = @ + 1]
           h == [g EXCEPT !.lifelines = used]
<1>1. g \in Game /\ s \in DOMAIN games
  BY DEF UseLifeline, TypeOK, MemoryTyped
<1>2. games' = [games EXCEPT ![s] = h]
  BY <1>1 DEF UseLifeline, Game
<1> HIDE DEF used
<1>3. h.round = g.round /\ h.score = g.score
  BY <1>1 DEF Game
<1> HIDE DEF h
<1> QED
  BY <1>1, <1>2, <1>3 DEF Untouched

\* handle_submit_answer.
LEMMA SubmitAnswerEffect ==
  ASSUME TypeOK, NEW u \in Users, NEW s \in SessionIds,
         NEW correct \in BOOLEAN, NEW percent \in 0..100,
         SubmitAnswer(u, s, correct, percent)
  PROVE  LET g == games[s]
             h == Answered(g, u, correct, percent)
         IN  /\ s \in DOMAIN games /\ u \in Late(g)
             /\ \A t \in DOMAIN games \ {s} : Untouched(t)
             /\ s \in DOMAIN games' =>
                  /\ games'[s].score = h.score
                  /\ \/ games'[s].round = g.round /\ games'[s].answered = h.answered
                     \/ /\ games'[s].round = g.round + 1
                        /\ FreeSlots(CancelTimer(timers, g.timer)) = {}
<1> DEFINE g == games[s]
           h == Answered(g, u, correct, percent)
           closed == [h EXCEPT !.timer = NoTimer, !.rowOpen = FALSE]
<1>1. s \in DOMAIN games /\ g \in Game /\ g.difficulty \in Difficulties /\ u \in Late(g)
  BY DEF SubmitAnswer, Late, TypeOK, MemoryTyped, Game
<1>2. h \in Game
  BY <1>1, AnsweredType
<1>3. \/ \E rp : PauseThenAdvance(s, closed, CancelTimer(timers, h.timer), rp)
      \/ games' = Put(games, s, h)
  BY DEF SubmitAnswer
<1>4. h.round = g.round /\ h.timer = g.timer
  BY <1>1, AnsweredKeeps
<1> HIDE DEF g, h
<1>5. /\ closed \in Game /\ closed.round = h.round /\ closed.score = h.score
      /\ closed.answered = h.answered
  BY <1>2 DEF Game, NoTimer
<1> HIDE DEF closed
<1>6. CASE \E rp : PauseThenAdvance(s, closed, CancelTimer(timers, h.timer), rp)
  <2> PICK rp : PauseThenAdvance(s, closed, CancelTimer(timers, h.timer), rp)
    BY <1>6
  <2>1. /\ \A t \in DOMAIN games \ {s} : games'[t] = games[t]
        /\ s \in DOMAIN games' =>
             /\ games'[s].score = closed.score
             /\ \/ games'[s].round = closed.round /\ games'[s].answered = closed.answered
                \/ /\ games'[s].round = closed.round + 1
                   /\ FreeSlots(CancelTimer(timers, h.timer)) = {}
    BY <1>5, PauseEffect
  <2> QED
    BY <1>1, <1>4, <1>5, <2>1 DEF Untouched, g, h
<1>7. CASE games' = Put(games, s, h)
  <2>1. games'[s] = h /\ \A t \in DOMAIN games \ {s} : games'[t] = games[t]
    BY <1>7 DEF Put
  <2> QED
    BY <1>1, <1>4, <2>1 DEF Untouched, g, h
<1> QED
  BY <1>3, <1>6, <1>7

\* round_timeout_callback.
LEMMA RoundTimeoutEffect ==
  ASSUME TypeOK, TimerInv, NEW i \in TimerSlots, RoundTimeout(i)
  PROVE  LET s == timers[i].game
         IN  /\ \A t \in DOMAIN games \ {s} : Untouched(t)
             /\ s \in DOMAIN games' =>
                  /\ games'[s].score = games[s].score
                  /\ \/ games'[s].round = games[s].round
                     \/ FreeSlots(ReleaseSlot(timers, i)) = {}
<1> DEFINE s == timers[i].game
           g == games[s]
           freed == ReleaseSlot(timers, i)
           h == TimedOut(g)
<1>1. i \in ActiveSlots(timers) /\ s \in DOMAIN games /\ g \in Game
  BY DEF RoundTimeout, Due, ActiveSlots, TypeOK, MemoryTyped
<1>2. CancelTimer(freed, g.timer) = freed
  BY <1>1, ReleaseOwn
<1>3. \/ games' = [games EXCEPT ![s].timer = NoTimer]
      \/ \E rp : EndGame(s, h, freed, room, session, rp)
      \/ \E rp : PauseThenAdvance(s, h, freed, rp)
  BY <1>2 DEF RoundTimeout
<1>4. h \in Game /\ h.round = g.round /\ h.score = g.score
  BY <1>1, TimedOutType, TimedOutFields
<1>5. CASE games' = [games EXCEPT ![s].timer = NoTimer]
  <2>1. /\ games'[s] = [g EXCEPT !.timer = NoTimer]
        /\ \A t \in DOMAIN games \ {s} : games'[t] = games[t]
    BY <1>1, <1>5
  <2> HIDE DEF g, h, s
  <2>2. games'[s].score = g.score /\ games'[s].round = g.round
    BY <1>1, <2>1 DEF Game
  <2> QED
    BY <2>1, <2>2 DEF Untouched, g, s
<1> HIDE DEF h
<1>6. CASE \E rp : EndGame(s, h, freed, room, session, rp)
  BY <1>6 DEF EndGame, Restrict, Untouched
<1>7. CASE \E rp : PauseThenAdvance(s, h, freed, rp)
  <2>1. /\ \A t \in DOMAIN games \ {s} : games'[t] = games[t]
        /\ s \in DOMAIN games' => /\ games'[s].score = h.score
                                  /\ games'[s].round = h.round \/ FreeSlots(freed) = {}
    BY <1>4, <1>7, PauseEffect
  <2> QED
    BY <1>4, <2>1 DEF Untouched
<1> QED
  BY <1>3, <1>5, <1>6, <1>7

\* delayed_question_callback.
LEMMA DelayedQuestionEffect ==
  ASSUME TypeOK, RoundInv, NEW i \in TimerSlots, DelayedQuestion(i)
  PROVE  LET s == timers[i].game
         IN  /\ \A t \in DOMAIN games \ {s} : Untouched(t)
             /\ Quiet(games[s])
             /\ s \in DOMAIN games' => /\ games'[s].score = games[s].score
                                       /\ games'[s].round = games[s].round + 1
<1> DEFINE s == timers[i].game
           g == games[s]
           idle == [g EXCEPT !.timer = NoTimer]
<1>1. s \in DOMAIN games /\ g \in Game
  BY DEF DelayedQuestion, Due, TypeOK, MemoryTyped
<1>2. Quiet(g)
  BY DEF DelayedQuestion, Due, ActiveSlots, RoundInv
<1>3. SendNextQuestion(s, idle, ReleaseSlot(timers, i), room, session, replay)
  BY DEF DelayedQuestion
<1>4. idle \in Game /\ idle.round = g.round /\ idle.score = g.score
  BY <1>1 DEF Game, NoTimer
<1> HIDE DEF idle
<1>5. /\ \A t \in DOMAIN games \ {s} : games'[t] = games[t]
      /\ s \in DOMAIN games' => /\ games'[s].round = idle.round + 1
                                /\ games'[s].score = idle.score
  BY <1>3, <1>4, SendNextQuestionEffect
<1> QED
  BY <1>2, <1>4, <1>5 DEF Untouched

\* The next question never cuts a round short (send_next_question): without a
\* free timer it would go out at once, while others may still answer.
THEOREM RoundsRunTheirTime == ASSUME MaxGames <= MaxTimers PROVE Spec => NoRoundCutShort
<1> DEFINE Kept == \A s \in DOMAIN games \cap DOMAIN games' :
                     games'[s].round # games[s].round =>
                       /\ games'[s].round = games[s].round + 1
                       /\ Late(games[s]) = {}
                       /\ ~games[s].rowOpen
<1>1. TypeOK /\ TimerInv /\ RoundInv /\ ClockInv /\ [Next]_vars => Kept
  <2> SUFFICES ASSUME TypeOK, TimerInv, RoundInv, ClockInv, [Next]_vars,
                      NEW s \in DOMAIN games \cap DOMAIN games',
                      games'[s].round # games[s].round
               PROVE  games'[s].round = games[s].round + 1 /\ Quiet(games[s])
    BY DEF Quiet
  <2>1. ~Untouched(s)
    BY DEF Untouched
  <2>2. CASE RoomRequest
    BY <2>1, <2>2, RoomRequestEffect
  <2>3. CASE GameRequest
    <3>1. 0 \in 0..100 /\ TimePercents \subseteq 0..100
      BY OneVNAssumption DEF OneVNAssumption
    <3>2. ASSUME NEW u \in Users, NEW t \in SessionIds,
                 NEW correct \in BOOLEAN, NEW percent \in 0..100,
                 SubmitAnswer(u, t, correct, percent)
          PROVE  FALSE
      <4>1. s = t /\ t \in DOMAIN games /\ FreeSlots(CancelTimer(timers, games[t].timer)) = {}
        BY <2>1, <3>2, SubmitAnswerEffect
      <4>2. OwnedBut(t, CancelTimer(timers, games[t].timer))
        BY <4>1, CancelOwn
      <4> QED
        BY <4>1, <4>2, SlotFree DEF ClockInv
    <3>3. ASSUME NEW u \in Users, NEW t \in SessionIds, UseLifeline(u, t) PROVE FALSE
      BY <2>1, <3>3, UseLifelineEffect
    <3> QED
      BY <2>3, <3>1, <3>2, <3>3 DEF GameRequest
  <2>4. ASSUME NEW i \in TimerSlots, RoundTimeout(i) PROVE FALSE
    <3>1. s = timers[i].game /\ FreeSlots(ReleaseSlot(timers, i)) = {}
      BY <2>1, <2>4, RoundTimeoutEffect
    <3>2. i \in ActiveSlots(timers)
      BY <2>4 DEF RoundTimeout, Due, ActiveSlots
    <3>3. OwnedBut(s, ReleaseSlot(timers, i))
      BY <3>1, <3>2, ReleaseOwn
    <3> QED
      BY <3>1, <3>3, SlotFree DEF ClockInv
  <2>5. ASSUME NEW i \in TimerSlots, DelayedQuestion(i)
        PROVE  games'[s].round = games[s].round + 1 /\ Quiet(games[s])
    BY <2>1, <2>5, DelayedQuestionEffect
  <2>6. CASE Restart
    BY <2>6 DEF Restart, Restrict
  <2>7. CASE UNCHANGED vars
    BY <2>1, <2>7 DEF vars, Untouched
  <2> QED
    BY <2>2, <2>3, <2>4, <2>5, <2>6, <2>7 DEF Next, TimerFires
<1>2. TypeOK /\ TimerInv /\ RoundInv /\ ClockInv /\ [Next]_vars => [Kept]_vars
  BY <1>1
<1> QED
  BY <1>2, TypeCorrect, TimersAndGames, RoundsInOrder, ClocksInOrder, PTL
  DEF Spec, NoRoundCutShort

\* An answer changes no score but that of who gave it (handle_submit_answer).
LEMMA OthersKeepScores ==
  ASSUME NEW g \in Game, NEW v \in Users, NEW correct \in BOOLEAN, NEW percent \in 0..100
  PROVE  LET h == Answered(g, v, correct, percent)
         IN  h.answered[v] = g.round /\ \A w \in Users \ {v} : h.score[w] = g.score[w]
<1> DEFINE h == Answered(g, v, correct, percent)
<1>1. /\ h.answered[v] = g.round
      /\ \A w \in Users : w # v => h.answered[w] = g.answered[w]
      /\ \A w \in Users : w # v => h.score[w] = g.score[w]
  BY AnsweredMarked
<1> HIDE DEF h
<1> QED
  BY <1>1 DEF h

\* A player scores at most once in a round (handle_submit_answer), with as many
\* or as few timers as there may be.
THEOREM ScoredOncePerRound == Spec => OneAnswerPerRound
<1> DEFINE Once(s, u) ==
             /\ games'[s].score[u] > games[s].score[u]
             /\ u \in Active(games[s])
             /\ games[s].answered[u] # games[s].round
             /\ \/ games'[s].answered[u] = games[s].round
                \/ games'[s].round = games[s].round + 1
           Kept == \A s \in DOMAIN games \cap DOMAIN games', u \in Users :
                     games'[s].score[u] # games[s].score[u] => Once(s, u)
<1>1. TypeOK /\ TimerInv /\ RoundInv /\ [Next]_vars => Kept
  <2> SUFFICES ASSUME TypeOK, TimerInv, RoundInv, [Next]_vars,
                      NEW s \in DOMAIN games \cap DOMAIN games', NEW u \in Users,
                      games'[s].score[u] # games[s].score[u]
               PROVE  Once(s, u)
    OBVIOUS
  <2>1. ~Untouched(s) /\ games'[s].score # games[s].score
    BY DEF Untouched
  <2>2. CASE RoomRequest
    BY <2>1, <2>2, RoomRequestEffect
  <2>3. CASE GameRequest
    <3>1. 0 \in 0..100 /\ TimePercents \subseteq 0..100
      BY OneVNAssumption DEF OneVNAssumption
    <3>2. ASSUME NEW v \in Users, NEW t \in SessionIds,
                 NEW correct \in BOOLEAN, NEW percent \in 0..100,
                 SubmitAnswer(v, t, correct, percent)
          PROVE  Once(s, u)
      <4> DEFINE g == games[t]
                 h == Answered(g, v, correct, percent)
                 gained == ScoreGained(h, v, correct, percent)
      <4>1. /\ s = t /\ v \in Late(g)
            /\ games'[t].score = h.score
            /\ \/ games'[t].round = g.round /\ games'[t].answered = h.answered
               \/ games'[t].round = g.round + 1
        BY <2>1, <3>2, SubmitAnswerEffect
      <4>2. g \in Game /\ g.difficulty \in Difficulties
        BY <4>1 DEF TypeOK, MemoryTyped, Game
      <4>3. gained \in Nat /\ h.score[v] = g.score[v] + gained
        BY <4>2, AnsweredOnce
      <4>4. h.answered[v] = g.round /\ \A w \in Users \ {v} : h.score[w] = g.score[w]
        BY <4>2, OthersKeepScores
      <4> HIDE DEF g, h, gained
      <4>5. u = v
        BY <4>1, <4>4 DEF g
      <4>6. g.score[v] \in Nat
        BY <4>2 DEF Game
      <4>7. games'[s].score[u] > games[s].score[u]
        BY <4>1, <4>3, <4>5, <4>6 DEF g
      <4> QED
        BY <4>1, <4>4, <4>5, <4>7 DEF g, Late
    <3>3. ASSUME NEW v \in Users, NEW t \in SessionIds, UseLifeline(v, t) PROVE FALSE
      BY <2>1, <3>3, UseLifelineEffect
    <3> QED
      BY <2>3, <3>1, <3>2, <3>3 DEF GameRequest
  <2>4. ASSUME NEW i \in TimerSlots, RoundTimeout(i) PROVE FALSE
    BY <2>1, <2>4, RoundTimeoutEffect
  <2>5. ASSUME NEW i \in TimerSlots, DelayedQuestion(i) PROVE FALSE
    BY <2>1, <2>5, DelayedQuestionEffect
  <2>6. CASE Restart
    BY <2>6 DEF Restart, Restrict
  <2>7. CASE UNCHANGED vars
    BY <2>1, <2>7 DEF vars, Untouched
  <2> QED
    BY <2>2, <2>3, <2>4, <2>5, <2>6, <2>7 DEF Next, TimerFires
<1>2. TypeOK /\ TimerInv /\ RoundInv /\ [Next]_vars => [Kept]_vars
  BY <1>1
<1> QED
  BY <1>2, TypeCorrect, TimersAndGames, RoundsInOrder, PTL DEF Spec, OneAnswerPerRound
=============================================================================
