------------------------ MODULE OneVNMatch_proofs ------------------------
(***************************************************************************)
(* The engine implements Match, for any players, rooms, table sizes and    *)
(* numbers of rounds.  The shared tails of the handlers come first: each   *)
(* changes the match of one session only; then one step for each request,  *)
(* timer and restart.  What the database says of wins follows from the     *)
(* abstract match, who wins when from the rounds of the engine.  Then the  *)
(* flags of the member rows, which outlive a game.  Last, the engine with  *)
(* its clients implements the engine alone.                                *)
(***************************************************************************)
EXTENDS OneVNMatch, OneVNAnswers, OneVNRounds_proofs, FiniteSetTheorems

\* The match of s is still played, by these players, or it has ended.
GoesOn(s, r, players, winner) ==
  /\ Matches' = [Matches EXCEPT ![s] = M!Match("played", r, players, winner)]
  /\ Wins' = Wins

Ends(s, r, players) ==
  \/ M!NotWon(s, r, "aborted")
  \/ \E u \in players : M!Won(s, r, u)

\* Nothing the other matches are made of has changed.
OthersStay(s, sessions) == \A t \in SessionIds \ {s} : sessions[t] = session[t]

-----------------------------------------------------------------------------
(* Matches from rows and games *)

\* The stages of the rows, by status.
LEMMA Stages ==
  /\ StageOfRow["NONE"] = "none"
  /\ StageOfRow["IN_PROGRESS"] = "lost"
  /\ StageOfRow["FINISHED"] = "won"
  /\ StageOfRow["ABORTED"] = "aborted"
BY DEF StageOfRow

\* Only a row in progress tells of a lost match, and none of a played one.
LEMMA StageOfRowInverse ==
  ASSUME TypeOK, NEW t \in SessionIds
  PROVE  /\ StageOfRow[session[t].status] # "played"
         /\ StageOfRow[session[t].status] = "lost" => session[t].status = "IN_PROGRESS"
<1>1. session[t].status \in {"NONE", "IN_PROGRESS", "FINISHED", "ABORTED"}
  BY DEF TypeOK, RowsTyped, Session
<1> QED
  BY <1>1, Stages

\* A match depends on its row and its game only.
LEMMA SameMatch ==
  ASSUME NEW t \in SessionIds, session'[t] = session[t],
         t \in DOMAIN games' <=> t \in DOMAIN games,
         t \in DOMAIN games => games'[t].players = games[t].players
  PROVE  MatchOf(t)' = MatchOf(t)
BY DEF MatchOf, StageOf

\* Putting a game under its session leaves the match played.
LEMMA PutMatch ==
  ASSUME NEW s \in SessionIds, NEW g, games' = Put(games, s, g),
         OthersStay(s, session'), UNCHANGED stats
  PROVE  GoesOn(s, session'[s].room, g.players, session'[s].winner)
<1>1. /\ DOMAIN games' = DOMAIN games \cup {s}
      /\ games'[s] = g
      /\ \A t \in DOMAIN games \ {s} : games'[t] = games[t]
  BY DEF Put
<1>2. \A t \in SessionIds \ {s} : MatchOf(t)' = MatchOf(t)
  BY <1>1, SameMatch DEF OthersStay
<1>3. MatchOf(s)' = M!Match("played", session'[s].room, g.players, session'[s].winner)
  BY <1>1, Stages DEF MatchOf, StageOf, M!Match
<1> QED
  BY <1>2, <1>3 DEF GoesOn, Matches, Wins

\* end_game ends the match, with a winner among its players or without.
LEMMA EndGameMatch ==
  ASSUME TypeOK, NEW s \in SessionIds, NEW g \in Game, NEW table, NEW rooms,
         NEW sessions \in [SessionIds -> Session], NEW rp,
         OthersStay(s, sessions),
         EndGame(s, g, table, rooms, sessions, rp)
  PROVE  Ends(s, sessions[s].room, g.players)
<1> PICK w \in Winners(g) : /\ session' = SessionEnded(sessions, s, w)
                            /\ stats' = GameCounted(g, w)
                            /\ games' = Restrict(games, DOMAIN games \ {s})
  BY DEF EndGame
<1>1. /\ DOMAIN games' = DOMAIN games \ {s}
      /\ \A t \in DOMAIN games \ {s} : games'[t] = games[t]
  BY DEF Restrict
<1>2. /\ session'[s] = [room |-> sessions[s].room, winner |-> w,
                        status |-> IF w # NoUser THEN "FINISHED" ELSE "ABORTED"]
      /\ \A t \in SessionIds \ {s} : session'[t] = session[t]
  BY DEF SessionEnded, OthersStay
<1>3. \A t \in SessionIds \ {s} : MatchOf(t)' = MatchOf(t)
  BY <1>1, <1>2, SameMatch
<1>4. g.players \subseteq Users /\ NoUser \notin Users
  BY OneVNAssumption DEF Game, OneVNAssumption, NoUser
<1>5. w \in g.players \/ w = NoUser
  BY DEF Winners
<1>6. CASE w = NoUser
  <2>1. MatchOf(s)' = M!Match("aborted", sessions[s].room, {}, NoUser)
    BY <1>1, <1>2, <1>6, Stages DEF MatchOf, StageOf, M!Match
  <2>2. \A u \in Users : stats'[u].wins = stats[u].wins
    <3>1. ASSUME NEW u \in Users PROVE stats'[u].wins = stats[u].wins
      <4>1. u # w /\ stats[u].wins \in Nat
        BY <1>4, <1>6 DEF TypeOK, RowsTyped
      <4> QED
        BY <4>1 DEF GameCounted
    <3> QED
      BY <3>1
  <2> QED
    BY <1>3, <2>1, <2>2 DEF Ends, M!NotWon, Matches, Wins
<1>7. CASE w \in g.players
  <2>1. w # NoUser /\ w \in Users
    BY <1>4, <1>7
  <2>2. MatchOf(s)' = M!Match("won", sessions[s].room, {}, w)
    BY <1>1, <1>2, <2>1, Stages DEF MatchOf, StageOf, M!Match
  <2>3. Wins' = [Wins EXCEPT ![w] = @ + 1]
    <3>1. ASSUME NEW u \in Users
          PROVE  stats'[u].wins = IF u = w THEN stats[u].wins + 1 ELSE stats[u].wins
      <4>1. stats[u].wins \in Nat
        BY DEF TypeOK, RowsTyped
      <4> QED
        BY <1>7, <4>1 DEF GameCounted
    <3> QED
      BY <3>1 DEF Wins
  <2>4. M!Won(s, sessions[s].room, w)
    BY <1>3, <2>2, <2>3 DEF M!Won, Matches
  <2> QED
    BY <1>7, <2>4 DEF Ends
<1> QED
  BY <1>5, <1>6, <1>7

\* send_next_question: the match goes on or ends.
LEMMA SendNextQuestionMatch ==
  ASSUME TypeOK, NEW s \in SessionIds, NEW g \in Game, NEW table, NEW rooms,
         NEW sessions \in [SessionIds -> Session], NEW rp,
         OthersStay(s, sessions),
         SendNextQuestion(s, g, table, rooms, sessions, rp)
  PROVE  \/ GoesOn(s, sessions[s].room, g.players, sessions[s].winner)
         \/ Ends(s, sessions[s].room, g.players)
<1> DEFINE next == NextRound(g)
<1>1. next \in Game /\ next.players = g.players
  <2>1. next.players = g.players
    BY DEF NextRound, Game
  <2> QED
    BY <2>1, NextRoundType
<1>2. \/ EndGame(s, g, table, rooms, sessions, rp)
      \/ AskQuestion(s, next, table, rooms, sessions, rp)
      \/ EndGame(s, next, table, rooms, sessions, rp)
  BY DEF SendNextQuestion
<1> HIDE DEF next
<1>3. CASE AskQuestion(s, next, table, rooms, sessions, rp)
  <2> PICK stored \in Outcomes("create_round") :
        /\ ArmTimer(s, Asked(next, stored), CancelTimer(table, next.timer), "round_timeout")
        /\ session' = sessions
        /\ UNCHANGED stats
    BY <1>3 DEF AskQuestion
  <2>1. \E id : games' = Put(games, s, [Asked(next, stored) EXCEPT !.timer = id])
    BY DEF ArmTimer
  <2>2. \A id : [Asked(next, stored) EXCEPT !.timer = id].players = g.players
    BY <1>1 DEF Asked, Game
  <2> QED
    BY <2>1, <2>2, PutMatch
<1> QED
  BY <1>1, <1>2, <1>3, EndGameMatch

\* The end of a round.
LEMMA PauseThenAdvanceMatch ==
  ASSUME TypeOK, NEW s \in SessionIds, NEW g \in Game, NEW table, NEW rp,
         PauseThenAdvance(s, g, table, rp)
  PROVE  \/ GoesOn(s, session[s].room, g.players, session[s].winner)
         \/ Ends(s, session[s].room, g.players)
<1> DEFINE idle == [g EXCEPT !.timer = NoTimer]
<1>1. idle \in Game /\ idle.players = g.players
  BY DEF Game
<1>2. OthersStay(s, session) /\ session \in [SessionIds -> Session]
  BY DEF OthersStay, TypeOK, RowsTyped
<1>3. \/ SendNextQuestion(s, idle, table, room, session, rp)
      \/ /\ ArmTimer(s, g, table, "delayed_question")
         /\ UNCHANGED <<session, stats>>
  BY DEF PauseThenAdvance
<1> HIDE DEF idle
<1>4. CASE SendNextQuestion(s, idle, table, room, session, rp)
  BY <1>1, <1>2, <1>4, SendNextQuestionMatch
<1>5. CASE ArmTimer(s, g, table, "delayed_question") /\ UNCHANGED <<session, stats>>
  <2>1. \E id : games' = Put(games, s, [g EXCEPT !.timer = id])
    BY <1>5 DEF ArmTimer
  <2>2. \A id : [g EXCEPT !.timer = id].players = g.players
    BY DEF Game
  <2> QED
    BY <1>2, <1>5, <2>1, <2>2, PutMatch DEF OthersStay
<1> QED
  BY <1>3, <1>4, <1>5

-----------------------------------------------------------------------------
(* Every step of the engine is a step of Match, or leaves the matches.      *)

\* Nothing a match is made of has changed.
LEMMA MatchesStay ==
  ASSUME TypeOK, UNCHANGED <<session, stats>>, DOMAIN games' = DOMAIN games,
         \A s \in DOMAIN games : games'[s].players = games[s].players
  PROVE  UNCHANGED M!vars
<1>1. \A t \in SessionIds : MatchOf(t)' = MatchOf(t)
  BY SameMatch
<1> QED
  BY <1>1 DEF M!vars, Matches, Wins

\* The match of a live game as the rows tell it.
LEMMA MatchOfGame ==
  ASSUME TypeOK, DatabaseInv, NEW s \in DOMAIN games
  PROVE  /\ s \in SessionIds
         /\ Matches[s] = M!Match("played", session[s].room, games[s].players,
                                 session[s].winner)
BY DEF TypeOK, MemoryTyped, Matches, MatchOf, StageOf, M!Match

\* What a handler of a live game does to its match.
LEMMA GameStep ==
  ASSUME TypeOK, DatabaseInv, NEW s \in DOMAIN games, NEW g, g.players = games[s].players,
         \/ GoesOn(s, session[s].room, g.players, session[s].winner)
         \/ Ends(s, session[s].room, g.players)
  PROVE  [M!Next]_M!vars
<1>1. /\ s \in SessionIds
      /\ Matches[s] = M!Match("played", session[s].room, g.players, session[s].winner)
  BY MatchOfGame
<1>2. CASE GoesOn(s, session[s].room, g.players, session[s].winner)
  <2>1. UNCHANGED <<Matches, Wins>>
    BY <1>1, <1>2 DEF GoesOn, Matches
  <2> QED
    BY <2>1 DEF M!vars
<1>3. CASE Ends(s, session[s].room, g.players)
  <2>1. M!End(s)
    BY <1>1, <1>3 DEF Ends, M!End, M!Match
  <2> QED
    BY <1>1, <2>1 DEF M!Next
<1> QED
  BY <1>2, <1>3

\* Room requests but START_GAME leave the matches.
LEMMA RoomRequestMatch ==
  ASSUME TypeOK, NEW u \in Users, NEW r \in Rooms,
         \/ \E c \in Configs : CreateRoom(u, r, c)
         \/ JoinRoom(u, r)
         \/ LeaveDuringGame(u, r)
         \/ LeaveRoom(u, r)
         \/ StartRefused(u, r)
  PROVE  UNCHANGED M!vars
<1>1. UNCHANGED <<session, stats>>
  BY DEF CreateRoom, JoinRoom, LeaveDuringGame, LeaveRoom, StartRefused
<1>2. CASE LeaveDuringGame(u, r)
  <2>1. DOMAIN games' = DOMAIN games
    BY <1>2 DEF LeaveDuringGame, PlayerEliminated
  <2>2. ASSUME NEW s \in DOMAIN games PROVE games'[s].players = games[s].players
    <3>1. games[s] \in Game
      BY DEF TypeOK, MemoryTyped
    <3>2. [games[s] EXCEPT !.eliminated = @ \cup {u}].players = games[s].players
      BY <3>1 DEF Game
    <3> QED
      BY <1>2, <3>2 DEF LeaveDuringGame, PlayerEliminated
  <2> QED
    BY <1>1, <2>1, <2>2, MatchesStay
<1>3. CASE UNCHANGED games
  BY <1>1, <1>3, MatchesStay
<1> QED
  BY <1>2, <1>3 DEF CreateRoom, JoinRoom, LeaveRoom, StartRefused, memVars

\* START_GAME begins a match of two players at least, the only open one of its
\* room, and may end it at once or lose it to a full table.
LEMMA StartGameMatch ==
  ASSUME TypeOK, DatabaseInv, NEW u \in Users, NEW r \in Rooms, StartGame(u, r)
  PROVE  M!Next
<1> PICK s \in SessionIds : s = nextSession
  BY DEF StartGame
<1> DEFINE players == FirstMembers(room[r].members)
           g == NewGame(r, StartConfig(r), players)
           rooms == SetRoomStatus([room EXCEPT ![r].config = StartConfig(r)],
                                  r, "IN_PROGRESS")
           sessions == [session EXCEPT ![s] = [room |-> r, status |-> "IN_PROGRESS",
                                               winner |-> NoUser]]
<1>1. /\ ~HasActiveSession(r)
      /\ Cardinality(players) >= 2
      /\ \/ SendNextQuestion(s, g, timers, rooms, sessions, replay)
         \/ session' = sessions /\ UNCHANGED <<stats, games>>
  BY DEF StartGame, memVars
<1>2. players \in SUBSET Users
  BY DEF FirstMembers, Room, TypeOK, RowsTyped
<1>3. \E a, b \in players : a # b
  <2> HIDE DEF players
  <2>1. players # {}
    BY <1>1, FS_EmptySet
  <2>2. \A a : players # {a}
    BY <1>1, FS_Singleton
  <2> QED
    BY <2>1, <2>2
<1>4. g \in Game /\ g.players = players
  <2>1. StartConfig(r) \in [Difficulties -> Int]
    BY OneVNAssumption DEF OneVNAssumption, StartConfig, Room, TypeOK, RowsTyped
  <2> QED
    BY <1>2, <2>1, NewGameType DEF NewGame
<1>5. /\ sessions \in [SessionIds -> Session]
      /\ sessions[s].room = r /\ sessions[s].winner = NoUser
      /\ sessions[s].status = "IN_PROGRESS"
      /\ OthersStay(s, sessions)
  BY <1>1 DEF Session, OthersStay, TypeOK, RowsTyped
<1> HIDE DEF players, g, rooms, sessions
<1>6. s \notin DOMAIN games /\ Matches[s].stage = "none"
  <2>1. session[s].status = "NONE"
    BY <1>1 DEF DatabaseInv, SessionsNumbered, SessionIds
  <2>2. s \notin DOMAIN games
    BY <2>1 DEF DatabaseInv, GamesMatchDatabase
  <2> QED
    BY <1>1, <2>1, <2>2, Stages DEF Matches, MatchOf, StageOf
<1>7. M!Open(r) = {}
  <2>1. ASSUME NEW t \in SessionIds, Matches[t].room = r,
               Matches[t].stage \in {"played", "lost"}
        PROVE  FALSE
    <3>1. session[t].room = r
      BY <2>1 DEF Matches, MatchOf
    <3>2. session[t].status = "IN_PROGRESS"
      <4>1. CASE t \in DOMAIN games
        BY <4>1 DEF DatabaseInv, GamesMatchDatabase
      <4>2. CASE t \notin DOMAIN games
        BY <2>1, <4>2, StageOfRowInverse DEF Matches, MatchOf, StageOf
      <4> QED
        BY <4>1, <4>2
    <3> QED
      BY <1>1, <3>1, <3>2 DEF HasActiveSession
  <2> QED
    BY <2>1 DEF M!Open
<1>8. CASE SendNextQuestion(s, g, timers, rooms, sessions, replay)
  <2>1. \/ GoesOn(s, r, players, NoUser)
        \/ Ends(s, r, players)
    BY <1>1, <1>4, <1>5, <1>8, SendNextQuestionMatch
  <2>2. \/ M!Played(s, r, players)
        \/ M!NotWon(s, r, "aborted")
        \/ \E w \in players : M!Won(s, r, w)
    BY <2>1 DEF GoesOn, Ends, M!Played
  <2>3. M!Begin(s, r, players)
    BY <1>3, <1>6, <1>7, <2>2 DEF M!Begin
  <2> QED
    BY <1>1, <1>2, <2>3 DEF M!Next
<1>9. CASE session' = sessions /\ UNCHANGED <<stats, games>>
  <2>1. \A t \in SessionIds \ {s} : MatchOf(t)' = MatchOf(t)
    BY <1>5, <1>9, SameMatch DEF OthersStay
  <2>2. MatchOf(s)' = M!Match("lost", r, {}, NoUser)
    BY <1>5, <1>6, <1>9, Stages DEF MatchOf, StageOf, M!Match
  <2>3. M!NotWon(s, r, "lost")
    BY <1>9, <2>1, <2>2 DEF M!NotWon, Matches, Wins
  <2>4. M!Begin(s, r, players)
    BY <1>3, <1>6, <1>7, <2>3 DEF M!Begin
  <2> QED
    BY <1>1, <1>2, <2>4 DEF M!Next
<1> QED
  BY <1>1, <1>8, <1>9

\* Answers and lifelines.
LEMMA GameRequestMatch ==
  ASSUME TypeOK, DatabaseInv, GameRequest
  PROVE  [M!Next]_M!vars
<1>1. ASSUME NEW u \in Users, NEW s \in SessionIds,
             NEW correct \in BOOLEAN, NEW percent \in 0..100,
             SubmitAnswer(u, s, correct, percent)
      PROVE  [M!Next]_M!vars
  <2> DEFINE g == Answered(games[s], u, correct, percent)
             closed == [g EXCEPT !.timer = NoTimer, !.rowOpen = FALSE]
  <2>1. /\ s \in DOMAIN games /\ games[s] \in Game
        /\ games[s].difficulty \in Difficulties
    BY <1>1 DEF SubmitAnswer, TypeOK, MemoryTyped, Game
  <2>2. g \in Game
    BY <2>1, AnsweredType
  <2>3. g.players = games[s].players
    BY <2>1 DEF Answered, Game
  <2>4. \/ \E table, rp : PauseThenAdvance(s, closed, table, rp)
        \/ games' = Put(games, s, g) /\ UNCHANGED <<session, stats>>
    BY <1>1 DEF SubmitAnswer
  <2> HIDE DEF g
  <2>5. closed \in Game /\ closed.players = games[s].players
    BY <2>2, <2>3 DEF Game, NoTimer
  <2> HIDE DEF closed
  <2>6. ASSUME NEW table, NEW rp, PauseThenAdvance(s, closed, table, rp)
        PROVE  [M!Next]_M!vars
    BY <2>1, <2>5, <2>6, PauseThenAdvanceMatch, GameStep
  <2>7. CASE games' = Put(games, s, g) /\ UNCHANGED <<session, stats>>
    <3>1. UNCHANGED M!vars
      BY <2>1, <2>3, <2>7, MatchesStay DEF Put
    <3> QED
      BY <3>1
  <2> QED
    BY <2>4, <2>6, <2>7
<1>2. ASSUME NEW u \in Users, NEW s \in SessionIds, UseLifeline(u, s)
      PROVE  [M!Next]_M!vars
  <2>1. s \in DOMAIN games /\ games[s] \in Game
    BY <1>2 DEF UseLifeline, TypeOK, MemoryTyped
  <2>2. [games[s] EXCEPT !.lifelines[u] = @ + 1].players = games[s].players
    BY <2>1 DEF Game
  <2>3. games' = [games EXCEPT ![s] = [games[s] EXCEPT !.lifelines[u] = @ + 1]]
    BY <1>2 DEF UseLifeline
  <2>4. \A t \in DOMAIN games : games'[t].players = games[t].players
    BY <2>1, <2>2, <2>3
  <2>5. UNCHANGED M!vars
    BY <1>2, <2>3, <2>4, MatchesStay DEF UseLifeline, dbVars
  <2> QED
    BY <2>5
<1>3. 0 \in 0..100 /\ TimePercents \subseteq 0..100
  BY OneVNAssumption DEF OneVNAssumption
<1> QED
  BY <1>1, <1>2, <1>3 DEF GameRequest

\* Timer callbacks.
LEMMA TimerFiresMatch ==
  ASSUME TypeOK, DatabaseInv, NEW i \in TimerSlots, TimerFires(i)
  PROVE  [M!Next]_M!vars
<1> DEFINE s == timers[i].game
           g == games[s]
<1>1. s \in DOMAIN games /\ s \in SessionIds /\ g \in Game
  BY DEF TimerFires, RoundTimeout, DelayedQuestion, Due, TypeOK, MemoryTyped
<1>2. OthersStay(s, session) /\ session \in [SessionIds -> Session]
  BY DEF OthersStay, TypeOK, RowsTyped
<1>3. CASE RoundTimeout(i)
  <2>1. TimedOut(g) \in Game
    BY <1>1, TimedOutType
  <2>2. TimedOut(g).players = g.players
    BY DEF TimedOut
  <2>3. \/ games' = [games EXCEPT ![s].timer = NoTimer] /\ UNCHANGED <<session, stats>>
        \/ \E table, rp : EndGame(s, TimedOut(g), table, room, session, rp)
        \/ \E table, rp : PauseThenAdvance(s, TimedOut(g), table, rp)
    BY <1>3 DEF RoundTimeout
  <2>4. CASE games' = [games EXCEPT ![s].timer = NoTimer] /\ UNCHANGED <<session, stats>>
    <3>1. [g EXCEPT !.timer = NoTimer].players = g.players
      <4> HIDE DEF g
      <4> QED
        BY <1>1 DEF Game
    <3>2. \A t \in DOMAIN games : games'[t].players = games[t].players
      BY <1>1, <2>4, <3>1
    <3>3. UNCHANGED M!vars
      BY <1>1, <2>4, <3>2, MatchesStay
    <3> QED
      BY <3>3
  <2>5. ASSUME NEW out \in Game, out.players = games[s].players,
               \/ \E table, rp : EndGame(s, out, table, room, session, rp)
               \/ \E table, rp : PauseThenAdvance(s, out, table, rp)
        PROVE  [M!Next]_M!vars
    <3> HIDE DEF s
    <3>1. \/ GoesOn(s, session[s].room, out.players, session[s].winner)
          \/ Ends(s, session[s].room, out.players)
      BY <1>1, <1>2, <2>5, EndGameMatch, PauseThenAdvanceMatch
    <3> QED
      BY <1>1, <2>5, <3>1, GameStep
  <2> QED
    BY <2>1, <2>2, <2>3, <2>4, <2>5
<1>4. CASE DelayedQuestion(i)
  <2> DEFINE idle == [g EXCEPT !.timer = NoTimer]
             table == ReleaseSlot(timers, i)
  <2>1. idle \in Game /\ idle.players = games[s].players
    <3> HIDE DEF s
    <3> QED
      BY <1>1 DEF Game, NoTimer
  <2>2. SendNextQuestion(s, idle, table, room, session, replay)
    BY <1>4 DEF DelayedQuestion
  <2> HIDE DEF s, idle, table
  <2>3. \/ GoesOn(s, session[s].room, idle.players, session[s].winner)
        \/ Ends(s, session[s].room, idle.players)
    BY <1>1, <1>2, <2>1, <2>2, SendNextQuestionMatch
  <2> QED
    BY <1>1, <2>1, <2>3, GameStep
<1> QED
  BY <1>3, <1>4 DEF TimerFires

\* A restart loses the matches that are played.
LEMMA RestartMatch ==
  ASSUME TypeOK, DatabaseInv, Restart
  PROVE  M!Lose
<1>1. DOMAIN games' = {} /\ UNCHANGED <<session, stats>>
  BY DEF Restart, Restrict, dbVars
<1>2. ASSUME NEW t \in SessionIds
      PROVE  MatchOf(t)' = IF MatchOf(t).stage = "played"
                           THEN [MatchOf(t) EXCEPT !.stage = "lost", !.players = {}]
                           ELSE MatchOf(t)
  <2>1. CASE t \in DOMAIN games
    <3>1. session[t].status = "IN_PROGRESS"
      BY <2>1 DEF DatabaseInv, GamesMatchDatabase
    <3> QED
      BY <1>1, <2>1, <3>1, Stages DEF MatchOf, StageOf
  <2>2. CASE t \notin DOMAIN games
    <3>1. MatchOf(t)' = MatchOf(t)
      BY <1>1, <2>2, SameMatch
    <3>2. MatchOf(t).stage # "played"
      BY <2>2, StageOfRowInverse DEF MatchOf, StageOf
    <3> QED
      BY <3>1, <3>2
  <2> QED
    BY <2>1, <2>2
<1> QED
  BY <1>1, <1>2 DEF M!Lose, Matches, Wins

\* Each step of the server is a step of the abstract match, or none of it.
LEMMA MatchStep ==
  ASSUME TypeOK, DatabaseInv, [Next]_vars
  PROVE  [M!Next]_M!vars
<1>1. CASE RoomRequest
  BY <1>1, RoomRequestMatch, StartGameMatch DEF RoomRequest
<1>2. CASE GameRequest
  BY <1>2, GameRequestMatch
<1>3. CASE \E i \in TimerSlots : TimerFires(i)
  BY <1>3, TimerFiresMatch
<1>4. CASE Restart
  BY <1>4, RestartMatch DEF M!Next
<1>5. CASE UNCHANGED vars
  BY <1>5, MatchesStay DEF vars
<1> QED
  BY <1>1, <1>2, <1>3, <1>4, <1>5 DEF Next

\* The engine implements the abstract match: every session begins and ends
\* once, is won by one of its players, and the win is counted with its result,
\* for any number of players, rooms, games, timers and restarts.
THEOREM OneVNImplementsMatch == Spec => ImplementsMatch
<1>1. Init => M!Init
  <2> SUFFICES ASSUME Init PROVE M!Init
    OBVIOUS
  <2>1. \A t \in SessionIds : MatchOf(t) = M!Match("none", NoUser, {}, NoUser)
    BY Stages DEF Init, MatchOf, StageOf, M!Match, NoSession, NoUser
  <2> QED
    BY <2>1 DEF Init, M!Init, Matches, Wins
<1>2. TypeOK /\ DatabaseInv /\ [Next]_vars => [M!Next]_M!vars
  BY MatchStep
<1> QED
  BY <1>1, <1>2, TypeCorrect, GamesAndRows, PTL DEF Spec, ImplementsMatch, M!Spec

-----------------------------------------------------------------------------
(* Wins, by way of the abstract match                                       *)

\* Only a match that is won has a winner, and wins are counted.
ResultsInv ==
  /\ \A s \in SessionIds : session[s].winner # NoUser => StageOf(s) = "won"
  /\ WinsMatchSessions

WonBy(u) == {s \in SessionIds : session[s].winner = u}

\* The abstract match changes nothing but one result (end_game).
LEMMA WonCounted ==
  ASSUME TypeOK, ResultsInv, NEW s \in SessionIds, NEW r, NEW w \in Users,
         StageOf(s) # "won", M!Won(s, r, w)
  PROVE  ResultsInv'
<1>1. Matches' = [Matches EXCEPT ![s] = M!Match("won", r, {}, w)]
      /\ Wins' = [Wins EXCEPT ![w] = @ + 1]
  BY DEF M!Won
<1>2. \A t \in SessionIds : /\ MatchOf(t)' = Matches'[t]
                            /\ MatchOf(t) = Matches[t]
  BY DEF Matches
<1>3. MatchOf(s)' = M!Match("won", r, {}, w)
  BY <1>1, <1>2 DEF Matches
<1>4. \A t \in SessionIds \ {s} : MatchOf(t)' = MatchOf(t)
  BY <1>1, <1>2 DEF Matches
<1>5. session'[s].winner = w /\ StageOf(s)' = "won"
  BY <1>3 DEF MatchOf, M!Match
<1>6. \A t \in SessionIds \ {s} : /\ session'[t].winner = session[t].winner
                                  /\ StageOf(t)' = StageOf(t)
  BY <1>4 DEF MatchOf
<1>7. \A u \in Users : stats'[u].wins = stats[u].wins + (IF u = w THEN 1 ELSE 0)
  <2>1. stats \in [Users -> [games : Nat, wins : Nat]]
    BY DEF TypeOK, RowsTyped
  <2> SUFFICES ASSUME NEW u \in Users
               PROVE  stats'[u].wins = stats[u].wins + (IF u = w THEN 1 ELSE 0)
    OBVIOUS
  <2>2. Wins'[u] = stats'[u].wins /\ Wins[u] = stats[u].wins /\ stats[u].wins \in Nat
    BY <2>1 DEF Wins
  <2>3. DOMAIN Wins = Users
    BY DEF Wins
  <2>4. Wins' = [Wins EXCEPT ![w] = Wins[w] + 1]
    BY <1>1
  <2>5. CASE u = w
    BY <2>2, <2>3, <2>4, <2>5
  <2>6. CASE u # w
    <3>1. Wins'[u] = Wins[u]
      BY <2>3, <2>4, <2>6
    <3> QED
      BY <2>2, <2>6, <3>1
  <2> QED
    BY <2>5, <2>6
<1>8. session[s].winner = NoUser /\ w # NoUser
  BY OneVNAssumption DEF OneVNAssumption, NoUser, ResultsInv
<1>9. ASSUME NEW u \in Users PROVE stats'[u].wins = Cardinality(WonBy(u)')
  <2>1. IsFiniteSet(WonBy(u)) /\ Cardinality(WonBy(u)) \in Nat
    <3>1. MaxSessions \in Nat
      BY OneVNAssumption DEF OneVNAssumption
    <3>2. IsFiniteSet(SessionIds)
      BY <3>1, FS_Interval DEF SessionIds
    <3>3. WonBy(u) \in SUBSET SessionIds
      BY DEF WonBy
    <3>4. IsFiniteSet(WonBy(u))
      BY <3>2, <3>3, FS_Subset
    <3> QED
      BY <3>4, FS_CardinalityType
  <2>2. stats[u].wins = Cardinality(WonBy(u))
    BY DEF ResultsInv, WinsMatchSessions, WonBy
  <2>3. CASE u = w
    <3>1. WonBy(u)' = WonBy(u) \cup {s} /\ s \notin WonBy(u)
      BY <1>5, <1>6, <1>8, <2>3 DEF WonBy
    <3>2. Cardinality(WonBy(u) \cup {s}) = Cardinality(WonBy(u)) + 1
      BY <2>1, <3>1, FS_AddElement
    <3> QED
      BY <1>7, <2>2, <2>3, <3>1, <3>2
  <2>4. CASE u # w
    <3>1. u # NoUser
      BY OneVNAssumption DEF OneVNAssumption, NoUser
    <3>2. WonBy(u)' = WonBy(u)
      BY <1>5, <1>6, <1>8, <2>4, <3>1 DEF WonBy
    <3>3. stats'[u].wins = stats[u].wins + 0
      BY <1>7, <2>4
    <3> QED
      BY <2>1, <2>2, <3>2, <3>3
  <2> QED
    BY <2>3, <2>4
<1> QED
  BY <1>5, <1>6, <1>9 DEF ResultsInv, WinsMatchSessions, WonBy

\* All else leaves the winners and the wins as they are.
LEMMA NobodyWon ==
  ASSUME ResultsInv, TypeOK, Wins' = Wins,
         \A t \in SessionIds : /\ MatchOf(t)'.winner = MatchOf(t).winner
                               /\ MatchOf(t).stage = "won" => MatchOf(t)'.stage = "won"
  PROVE  ResultsInv'
<1>1. \A t \in SessionIds : /\ session'[t].winner = session[t].winner
                            /\ StageOf(t) = "won" => StageOf(t)' = "won"
  BY DEF MatchOf
<1>2. \A u \in Users : stats'[u].wins = stats[u].wins
  <2> SUFFICES ASSUME NEW u \in Users PROVE stats'[u].wins = stats[u].wins
    OBVIOUS
  <2>1. Wins'[u] = stats'[u].wins /\ Wins[u] = stats[u].wins
    BY DEF Wins
  <2> QED
    BY <2>1
<1>3. \A u \in Users : WonBy(u)' = WonBy(u)
  BY <1>1 DEF WonBy
<1>4. \A u \in Users : stats'[u].wins = Cardinality(WonBy(u)')
  BY <1>2, <1>3 DEF ResultsInv, WinsMatchSessions, WonBy
<1> QED
  BY <1>1, <1>4 DEF ResultsInv, WinsMatchSessions, WonBy

\* So the wins are counted after any step of the abstract match.
LEMMA ResultsStep ==
  ASSUME TypeOK, ResultsInv, [M!Next]_M!vars
  PROVE  ResultsInv'
<1>1. \A t \in SessionIds : MatchOf(t)' = Matches'[t] /\ MatchOf(t) = Matches[t]
  BY DEF Matches
<1>2. \A t \in SessionIds : Matches[t].stage = StageOf(t) /\ Matches[t].players = MatchOf(t).players
  BY DEF Matches, MatchOf
<1>3. ASSUME NEW s \in SessionIds, NEW r, NEW stage, StageOf(s) # "won",
             M!NotWon(s, r, stage)
      PROVE  ResultsInv'
  <2>1. Matches' = [Matches EXCEPT ![s] = M!Match(stage, r, {}, NoUser)] /\ Wins' = Wins
    BY <1>3 DEF M!NotWon
  <2>2. MatchOf(s)' = M!Match(stage, r, {}, NoUser)
    BY <1>1, <2>1 DEF Matches
  <2>3. \A t \in SessionIds \ {s} : MatchOf(t)' = MatchOf(t)
    BY <1>1, <2>1 DEF Matches
  <2>4. session[s].winner = NoUser
    BY <1>3 DEF ResultsInv
  <2>5. MatchOf(s)'.winner = MatchOf(s).winner /\ MatchOf(s).stage # "won"
    BY <1>3, <2>2, <2>4 DEF MatchOf, M!Match
  <2> QED
    BY <2>1, <2>3, <2>5, NobodyWon
<1>4. ASSUME NEW s \in SessionIds, NEW r, NEW players, StageOf(s) # "won",
             M!Played(s, r, players)
      PROVE  ResultsInv'
  <2>1. Matches' = [Matches EXCEPT ![s] = M!Match("played", r, players, NoUser)] /\ Wins' = Wins
    BY <1>4 DEF M!Played
  <2>2. MatchOf(s)' = M!Match("played", r, players, NoUser)
    BY <1>1, <2>1 DEF Matches
  <2>3. \A t \in SessionIds \ {s} : MatchOf(t)' = MatchOf(t)
    BY <1>1, <2>1 DEF Matches
  <2>4. session[s].winner = NoUser
    BY <1>4 DEF ResultsInv
  <2>5. MatchOf(s)'.winner = MatchOf(s).winner /\ MatchOf(s).stage # "won"
    BY <1>4, <2>2, <2>4 DEF MatchOf, M!Match
  <2> QED
    BY <2>1, <2>3, <2>5, NobodyWon
<1>5. ASSUME NEW s \in SessionIds, NEW r \in Rooms, NEW players \in SUBSET Users,
             M!Begin(s, r, players)
      PROVE  ResultsInv'
  <2>1. StageOf(s) # "won"
    BY <1>5, <1>2 DEF M!Begin
  <2> QED
    BY <1>3, <1>4, <1>5, <2>1, WonCounted DEF M!Begin
<1>6. ASSUME NEW s \in SessionIds, M!End(s) PROVE ResultsInv'
  <2>1. StageOf(s) = "played"
    BY <1>6, <1>2 DEF M!End
  <2>2. MatchOf(s).players \subseteq Users
    BY DEF MatchOf, TypeOK, MemoryTyped, Game
  <2> QED
    BY <1>3, <1>6, <1>2, <2>1, <2>2, WonCounted DEF M!End
<1>7. CASE M!Lose
  <2>1. Wins' = Wins
    BY <1>7 DEF M!Lose
  <2>2. ASSUME NEW t \in SessionIds
        PROVE  /\ MatchOf(t)'.winner = MatchOf(t).winner
               /\ MatchOf(t).stage = "won" => MatchOf(t)'.stage = "won"
    <3>1. MatchOf(t)' = IF MatchOf(t).stage = "played"
                        THEN [MatchOf(t) EXCEPT !.stage = "lost", !.players = {}]
                        ELSE MatchOf(t)
      BY <1>1, <1>7 DEF M!Lose
    <3> QED
      BY <3>1 DEF MatchOf
  <2> QED
    BY <2>1, <2>2, NobodyWon
<1>8. CASE UNCHANGED M!vars
  <2>1. Matches' = Matches /\ Wins' = Wins
    BY <1>8 DEF M!vars
  <2>2. \A t \in SessionIds : MatchOf(t)' = MatchOf(t)
    BY <1>1, <2>1
  <2> QED
    BY <2>1, <2>2, NobodyWon
<1> QED
  BY <1>5, <1>6, <1>7, <1>8 DEF M!Next

\* A session without a result has no winner, and results and wins agree.
THEOREM ResultsInOrder == Spec => []ResultsInv
<1>1. Init => ResultsInv
  <2> SUFFICES ASSUME Init PROVE ResultsInv
    OBVIOUS
  <2>1. \A s \in SessionIds : session[s].winner = NoUser
    BY DEF Init, NoSession
  <2>2. \A u \in Users : u # NoUser /\ stats[u].wins = 0
    BY OneVNAssumption DEF OneVNAssumption, NoUser, Init
  <2>3. \A u \in Users : {s \in SessionIds : session[s].winner = u} = {}
    BY <2>1, <2>2
  <2>4. \A u \in Users : stats[u].wins = Cardinality({s \in SessionIds : session[s].winner = u})
    BY <2>2, <2>3, FS_EmptySet
  <2> QED
    BY <2>1, <2>4 DEF ResultsInv, WinsMatchSessions
<1>2. TypeOK /\ DatabaseInv /\ ResultsInv /\ [Next]_vars => ResultsInv'
  BY MatchStep, ResultsStep
<1> QED
  BY <1>1, <1>2, TypeCorrect, GamesAndRows, PTL DEF Spec

\* The wins of a user are the sessions that name him as winner, across restarts
\* (end_game, dao_stats_update_onevn_game).
THEOREM WinsMatchSessionsAlways == Spec => []WinsMatchSessions
<1>1. ResultsInv => WinsMatchSessions
  BY DEF ResultsInv
<1> QED
  BY <1>1, ResultsInOrder, PTL

-----------------------------------------------------------------------------
(* A winner has played all rounds                                           *)

\* A handler that works on session s names a winner only when one round at
\* most is left after those asked so far.
NoEarlyWin(s, asked, config, sessions, rooms) ==
  /\ \A t \in SessionIds \ {s} : session'[t] = sessions[t]
  /\ session'[s].room = sessions[s].room
  /\ session'[s].winner # NoUser => asked + 1 >= Total(config)
  /\ \A q \in Rooms : room'[q].config = rooms[q].config

\* The counts of a game add up to an integer.
LEMMA TotalInt ==
  ASSUME NEW config \in [Difficulties -> Int]
  PROVE  Total(config) \in Int
BY DEF Total, Difficulties

\* end_game: check_game_end compares the rounds.
LEMMA EndGameWin ==
  ASSUME NEW s \in SessionIds, NEW g \in Game, NEW table, NEW rooms \in [Rooms -> Room],
         NEW sessions \in [SessionIds -> Session], NEW rp, NEW asked \in Nat,
         g.round <= asked + 1, EndGame(s, g, table, rooms, sessions, rp)
  PROVE  NoEarlyWin(s, asked, g.config, sessions, rooms)
<1> PICK w \in Winners(g) : /\ session' = SessionEnded(sessions, s, w)
                            /\ room' = SetRoomStatus(rooms, g.room, "FINISHED")
  BY DEF EndGame
<1>1. /\ \A t \in SessionIds \ {s} : session'[t] = sessions[t]
      /\ session'[s].room = sessions[s].room
      /\ session'[s].winner = w
  BY DEF SessionEnded
<1>2. \A q \in Rooms : /\ room'[q].members = rooms[q].members
                       /\ room'[q].gone = rooms[q].gone
                       /\ room'[q].config = rooms[q].config
  <2>1. g.room \in Rooms
    BY DEF Game
  <2> QED
    BY <2>1, StatusAside
<1>3. g.round \in Nat /\ Total(g.config) \in Int
  BY TotalInt DEF Game
<1>4. w # NoUser => g.round >= Total(g.config)
  BY DEF Winners
<1> QED
  BY <1>1, <1>2, <1>3, <1>4 DEF NoEarlyWin

\* send_next_question: the round is counted before its question is fetched.
LEMMA SendNextQuestionWin ==
  ASSUME NEW s \in SessionIds, NEW g \in Game, NEW table, NEW rooms \in [Rooms -> Room],
         NEW sessions \in [SessionIds -> Session], NEW rp, sessions[s].winner = NoUser,
         SendNextQuestion(s, g, table, rooms, sessions, rp)
  PROVE  NoEarlyWin(s, g.round, g.config, sessions, rooms)
<1> DEFINE n == NextRound(g)
<1>1. g.round \in Nat /\ n \in Game
  BY NextRoundType DEF Game
<1>2. n.round = g.round + 1 /\ n.config = g.config
  BY DEF NextRound, Game
<1>3. g.round <= g.round + 1 /\ n.round <= g.round + 1
  BY <1>1, <1>2
<1> HIDE DEF n
<1>4. CASE EndGame(s, g, table, rooms, sessions, rp)
  BY <1>1, <1>4, <1>3, EndGameWin
<1>5. CASE EndGame(s, n, table, rooms, sessions, rp)
  BY <1>1, <1>2, <1>5, <1>3, EndGameWin
<1>6. CASE AskQuestion(s, n, table, rooms, sessions, rp)
  BY <1>6 DEF AskQuestion, NoEarlyWin
<1> QED
  BY <1>4, <1>5, <1>6 DEF SendNextQuestion, n

\* The pause after a round.
LEMMA PauseWin ==
  ASSUME TypeOK, NEW s \in SessionIds, NEW g \in Game, NEW table, NEW rp,
         session[s].winner = NoUser, PauseThenAdvance(s, g, table, rp)
  PROVE  NoEarlyWin(s, g.round, g.config, session, room)
<1>1. room \in [Rooms -> Room] /\ session \in [SessionIds -> Session]
  BY DEF TypeOK, RowsTyped
<1> DEFINE idle == [g EXCEPT !.timer = NoTimer]
<1>2. idle \in Game /\ idle.round = g.round /\ idle.config = g.config
  BY DEF Game, NoTimer
<1>3. \/ SendNextQuestion(s, idle, table, room, session, rp)
      \/ UNCHANGED <<room, session>>
  BY DEF PauseThenAdvance
<1> HIDE DEF idle
<1>4. CASE SendNextQuestion(s, idle, table, room, session, rp)
  BY <1>1, <1>2, <1>4, SendNextQuestionWin
<1>5. CASE UNCHANGED <<room, session>>
  BY <1>5 DEF NoEarlyWin
<1> QED
  BY <1>3, <1>4, <1>5

\* What such a handler does to a game that was live before it.
LEMMA LiveGameWin ==
  ASSUME TypeOK, DatabaseInv, RoundInv, NEW s \in DOMAIN games,
         NoEarlyWin(s, games[s].round, games[s].config, session, room),
         NEW t \in SessionIds, session'[t].winner # session[t].winner,
         session[s].winner = NoUser
  PROVE  t = s /\ games[s].round + 1 >= Total(room'[session'[s].room].config)
<1>1. s \in SessionIds /\ games[s].room \in Rooms
  BY DEF TypeOK, MemoryTyped, Game
<1>2. games[s].room = session[s].room /\ games[s].config = room[games[s].room].config
  BY DEF DatabaseInv, GamesMatchDatabase, RoundInv, InOrder, KeptInRoom
<1> QED
  BY <1>1, <1>2 DEF NoEarlyWin

\* A game that is live has no winner yet.
LEMMA NoWinnerYet ==
  ASSUME TypeOK, ResultsInv, NEW s \in DOMAIN games
  PROVE  s \in SessionIds /\ games[s] \in Game /\ session[s].winner = NoUser
<1>1. s \in SessionIds /\ games[s] \in Game
  BY DEF TypeOK, MemoryTyped
<1>2. StageOf(s) # "won"
  BY DEF StageOf
<1> QED
  BY <1>1, <1>2 DEF ResultsInv

\* Nobody wins a game that was broken off early (check_game_end).
THEOREM NobodyWinsEarly == Spec => NoWinnerEarly
<1> DEFINE Kept == \A s \in SessionIds : session'[s].winner # session[s].winner =>
                     LET asked == IF s \in DOMAIN games THEN games[s].round ELSE 0
                     IN  asked + 1 >= Total(room'[session'[s].room].config)
<1>1. /\ TypeOK /\ TimerInv /\ DatabaseInv /\ RoundInv /\ ResultsInv /\ [Next]_vars
      => Kept
  <2> SUFFICES ASSUME TypeOK, TimerInv, DatabaseInv, RoundInv, ResultsInv, [Next]_vars,
                      NEW t \in SessionIds, session'[t].winner # session[t].winner
               PROVE  (IF t \in DOMAIN games THEN games[t].round ELSE 0) + 1
                        >= Total(room'[session'[t].room].config)
    OBVIOUS
  <2>1. ~UNCHANGED session
    OBVIOUS
  <2>2. ASSUME NEW s \in DOMAIN games,
               NoEarlyWin(s, games[s].round, games[s].config, session, room)
        PROVE  (IF t \in DOMAIN games THEN games[t].round ELSE 0) + 1
                 >= Total(room'[session'[t].room].config)
    BY <2>2, NoWinnerYet, LiveGameWin
  <2>3. room \in [Rooms -> Room] /\ session \in [SessionIds -> Session]
    BY DEF TypeOK, RowsTyped
  <2>4. ASSUME NEW u \in Users, NEW r \in Rooms, StartGame(u, r)
        PROVE  (IF t \in DOMAIN games THEN games[t].round ELSE 0) + 1
                 >= Total(room'[session'[t].room].config)
    <3> DEFINE s == nextSession
               config == StartConfig(r)
               players == FirstMembers(room[r].members)
               g == NewGame(r, config, players)
               configured == [room EXCEPT ![r].config = config]
               rooms == SetRoomStatus(configured, r, "IN_PROGRESS")
               sessions == [session EXCEPT ![s] = [room |-> r, status |-> "IN_PROGRESS",
                                                   winner |-> NoUser]]
    <3>1. s \in SessionIds /\ s \notin DOMAIN games
      BY <2>4 DEF StartGame, TimerInv, GamesNumbered, TypeOK
    <3>2. \/ SendNextQuestion(s, g, timers, rooms, sessions, replay)
          \/ session' = sessions
      BY <2>4 DEF StartGame
    <3>3. players \in SUBSET Users /\ config \in [Difficulties -> Int]
      BY <2>3, OneVNAssumption DEF OneVNAssumption, StartConfig, FirstMembers, Room
    <3>4. g \in Game /\ g.round = 0 /\ g.config = config
      BY <3>3, NewGameType DEF NewGame
    <3>5. session[s] = NoSession
      BY <3>1 DEF RoundInv, RowsInOrder, SessionIds
    <3>6. /\ sessions \in [SessionIds -> Session]
          /\ sessions[s].winner = NoUser /\ sessions[s].room = r
          /\ \A x \in SessionIds \ {s} : sessions[x] = session[x]
      BY <2>3, <3>1 DEF Session
    <3> HIDE DEF config, players, sessions
    <3>7. configured \in [Rooms -> Room] /\ configured[r].config = config
      BY <2>3, <3>3 DEF Room
    <3> HIDE DEF configured
    <3>8. rooms \in [Rooms -> Room]
      BY <3>7, SetRoomStatusType DEF RoomStatuses
    <3>9. \A q \in Rooms : /\ rooms[q].members = configured[q].members
                           /\ rooms[q].gone = configured[q].gone
                           /\ rooms[q].config = configured[q].config
      BY <3>7, StatusAside
    <3> HIDE DEF g, rooms, s
    <3>10. CASE session' = sessions
      BY <3>5, <3>6, <3>10 DEF NoSession
    <3>11. CASE SendNextQuestion(s, g, timers, rooms, sessions, replay)
      <4>1. NoEarlyWin(s, g.round, g.config, sessions, rooms)
        BY <3>1, <3>4, <3>6, <3>8, <3>11, SendNextQuestionWin
      <4>2. t = s
        BY <3>1, <3>6, <4>1 DEF NoEarlyWin
      <4>3. session'[s].winner # NoUser /\ session'[s].room = r
        BY <3>5, <3>6, <4>1, <4>2 DEF NoEarlyWin, NoSession
      <4>4. room'[r].config = config
        BY <3>7, <3>9, <4>1 DEF NoEarlyWin
      <4> QED
        BY <3>1, <3>4, <4>1, <4>2, <4>3, <4>4 DEF NoEarlyWin
    <3> QED
      BY <3>2, <3>10, <3>11
  <2>5. CASE RoomRequest
    BY <2>1, <2>4, <2>5
    DEF RoomRequest, CreateRoom, JoinRoom, LeaveRoom, LeaveDuringGame, StartRefused
  <2>6. CASE GameRequest
    <3>1. 0 \in 0..100 /\ TimePercents \subseteq 0..100
      BY OneVNAssumption DEF OneVNAssumption
    <3>2. ASSUME NEW u \in Users, NEW s \in SessionIds,
                 NEW correct \in BOOLEAN, NEW percent \in 0..100,
                 SubmitAnswer(u, s, correct, percent)
          PROVE  (IF t \in DOMAIN games THEN games[t].round ELSE 0) + 1
                   >= Total(room'[session'[t].room].config)
      <4> DEFINE g == games[s]
                 h == Answered(g, u, correct, percent)
                 closed == [h EXCEPT !.timer = NoTimer, !.rowOpen = FALSE]
      <4>1. s \in DOMAIN games /\ g \in Game /\ g.difficulty \in Difficulties
        BY <3>2 DEF SubmitAnswer, TypeOK, MemoryTyped, Game
      <4>2. h \in Game
        BY <4>1, AnsweredType
      <4>3. h.round = g.round /\ h.config = g.config
        BY <4>1, AnsweredKeeps
      <4>4. \E table, rp : PauseThenAdvance(s, closed, table, rp)
        BY <2>1, <3>2 DEF SubmitAnswer
      <4> HIDE DEF h
      <4>5. closed \in Game /\ closed.round = h.round /\ closed.config = h.config
        BY <4>2 DEF Game, NoTimer
      <4>6. session[s].winner = NoUser
        BY <4>1, NoWinnerYet
      <4> HIDE DEF closed
      <4>7. NoEarlyWin(s, closed.round, closed.config, session, room)
        BY <4>4, <4>5, <4>6, PauseWin
      <4> QED
        BY <2>2, <4>1, <4>3, <4>5, <4>7
    <3>3. ASSUME NEW u \in Users, NEW s \in SessionIds, UseLifeline(u, s) PROVE FALSE
      BY <2>1, <3>3 DEF UseLifeline, dbVars
    <3> QED
      BY <2>6, <3>1, <3>2, <3>3 DEF GameRequest
  <2>7. ASSUME NEW i \in TimerSlots, RoundTimeout(i)
        PROVE  (IF t \in DOMAIN games THEN games[t].round ELSE 0) + 1
                 >= Total(room'[session'[t].room].config)
    <3> DEFINE s == timers[i].game
               g == games[s]
               h == TimedOut(g)
    <3>1. s \in DOMAIN games
      BY <2>7 DEF RoundTimeout, Due
    <3>2. s \in SessionIds /\ g \in Game /\ session[s].winner = NoUser
      BY <3>1, NoWinnerYet
    <3>3. h \in Game /\ h.round = g.round /\ h.config = g.config
      BY <3>2, TimedOutType, TimedOutFields
    <3>4. \/ \E table, rp : EndGame(s, h, table, room, session, rp)
          \/ \E table, rp : PauseThenAdvance(s, h, table, rp)
      BY <2>1, <2>7 DEF RoundTimeout
    <3> HIDE DEF h
    <3>5. h.round \in Nat
      BY <3>3 DEF Game
    <3>6. NoEarlyWin(s, h.round, h.config, session, room)
      BY <2>3, <3>2, <3>3, <3>4, <3>5, EndGameWin, PauseWin
    <3> QED
      BY <2>2, <3>1, <3>3, <3>6
  <2>8. ASSUME NEW i \in TimerSlots, DelayedQuestion(i)
        PROVE  (IF t \in DOMAIN games THEN games[t].round ELSE 0) + 1
                 >= Total(room'[session'[t].room].config)
    <3> DEFINE s == timers[i].game
               g == games[s]
               idle == [g EXCEPT !.timer = NoTimer]
    <3>1. s \in DOMAIN games
      BY <2>8 DEF DelayedQuestion, Due
    <3>2. s \in SessionIds /\ g \in Game /\ session[s].winner = NoUser
      BY <3>1, NoWinnerYet
    <3>3. \E table : SendNextQuestion(s, idle, table, room, session, replay)
      BY <2>8 DEF DelayedQuestion
    <3>4. idle \in Game /\ idle.round = g.round /\ idle.config = g.config
      BY <3>2 DEF Game, NoTimer
    <3> HIDE DEF idle
    <3>5. NoEarlyWin(s, idle.round, idle.config, session, room)
      BY <2>3, <3>2, <3>3, <3>4, SendNextQuestionWin
    <3> QED
      BY <2>2, <3>1, <3>4, <3>5
  <2>9. CASE Restart
    BY <2>1, <2>9 DEF Restart, dbVars
  <2>10. CASE UNCHANGED vars
    BY <2>1, <2>10 DEF vars
  <2> QED
    BY <2>5, <2>6, <2>7, <2>8, <2>9, <2>10 DEF Next, TimerFires
<1>2. /\ TypeOK /\ TimerInv /\ DatabaseInv /\ RoundInv /\ ResultsInv /\ [Next]_vars
      => [Kept]_vars
  BY <1>1
<1> QED
  BY <1>2, TypeCorrect, TimersAndGames, GamesAndRows, RoundsInOrder, ResultsInOrder, PTL
  DEF Spec, NoWinnerEarly

-----------------------------------------------------------------------------
(* The flags of the member rows                                             *)

\* Room r has had a session before session s.
SessionBefore(sessions, r, s) == \E t \in SessionIds : t < s /\ sessions[t].room = r

\* Only a room that was started once has flagged members, and the flags of a live
\* game are of its own leavers, unless its room has had an earlier session.
FlagInv ==
  /\ \A r \in Rooms : room[r].gone # {} \/ room[r].status = "IN_PROGRESS" =>
                        SessionBefore(session, r, nextSession)
  /\ \A s \in DOMAIN games :
       \/ room[games[s].room].gone \cap games[s].players \subseteq games[s].eliminated
       \/ SessionBefore(session, games[s].room, s)

\* A handler that works on session s, with the record g, sets no flag.
LeavesFlags(s, g, rooms, sessions) ==
  /\ \A t \in DOMAIN games' \ {s} : t \in DOMAIN games /\ games'[t] = games[t]
  /\ s \in DOMAIN games' => /\ games'[s].room = g.room
                            /\ games'[s].players = g.players
                            /\ games'[s].eliminated = g.eliminated
  /\ \A q \in Rooms : /\ room'[q].gone = rooms[q].gone
                      /\ room'[q].status = "IN_PROGRESS" => rooms[q].status = "IN_PROGRESS"
  /\ \A t \in SessionIds : session'[t].room = sessions[t].room

\* game_timer_create.
LEMMA ArmTimerFlags ==
  ASSUME NEW s, NEW g \in Game, NEW table, NEW callback,
         ArmTimer(s, g, table, callback)
  PROVE  LeavesFlags(s, g, room', session')
<1> PICK id : games' = Put(games, s, [g EXCEPT !.timer = id])
  BY DEF ArmTimer
<1> DEFINE h == [g EXCEPT !.timer = id]
<1>1. h.room = g.room /\ h.players = g.players /\ h.eliminated = g.eliminated
  BY DEF Game
<1> HIDE DEF h
<1>2. /\ games'[s] = h
      /\ \A t \in DOMAIN games' \ {s} : t \in DOMAIN games /\ games'[t] = games[t]
  BY DEF Put, h
<1> QED
  BY <1>1, <1>2 DEF LeavesFlags

\* end_game.
LEMMA EndGameFlags ==
  ASSUME NEW s \in SessionIds, NEW g \in Game, NEW h, NEW table,
         NEW rooms \in [Rooms -> Room], NEW sessions \in [SessionIds -> Session], NEW rp,
         EndGame(s, g, table, rooms, sessions, rp)
  PROVE  LeavesFlags(s, h, rooms, sessions)
<1> PICK w \in Winners(g) : /\ session' = SessionEnded(sessions, s, w)
                            /\ room' = SetRoomStatus(rooms, g.room, "FINISHED")
                            /\ games' = Restrict(games, DOMAIN games \ {s})
  BY DEF EndGame
<1>1. \A t \in SessionIds : session'[t].room = sessions[t].room
  BY DEF SessionEnded
<1>2. \A q \in Rooms : /\ room'[q].gone = rooms[q].gone
                       /\ room'[q].status = "IN_PROGRESS" => rooms[q].status = "IN_PROGRESS"
  BY DEF SetRoomStatus, Room
<1>3. /\ s \notin DOMAIN games'
      /\ \A t \in DOMAIN games' \ {s} : t \in DOMAIN games /\ games'[t] = games[t]
  BY DEF Restrict
<1> QED
  BY <1>1, <1>2, <1>3 DEF LeavesFlags

\* send_next_question.
LEMMA SendNextQuestionFlags ==
  ASSUME NEW s \in SessionIds, NEW g \in Game, NEW table, NEW rooms \in [Rooms -> Room],
         NEW sessions \in [SessionIds -> Session], NEW rp,
         SendNextQuestion(s, g, table, rooms, sessions, rp)
  PROVE  LeavesFlags(s, g, rooms, sessions)
<1> DEFINE n == NextRound(g)
<1>1. n \in Game /\ n.difficulty \in Difficulties
  BY NextRoundType
<1>2. CASE AskQuestion(s, n, table, rooms, sessions, rp)
  <2> PICK stored \in Outcomes("create_round") :
        ArmTimer(s, Asked(n, stored), CancelTimer(table, n.timer), "round_timeout")
    BY <1>2 DEF AskQuestion
  <2> DEFINE h == Asked(n, stored)
  <2>1. stored \in BOOLEAN
    BY DEF Outcomes
  <2>2. h \in Game
    BY <1>1, <2>1, AskedType
  <2>3. /\ h.done = [g.done EXCEPT ![NextDifficulty(g)] = @ + 1]
        /\ h.answered = [u \in Users |-> NotAnswered]
        /\ h.players = g.players /\ h.eliminated = g.eliminated /\ h.room = g.room
    BY <2>1, NextAsked
  <2>4. \E rest : ArmTimer(s, h, rest, "round_timeout")
    OBVIOUS
  <2>5. room' = rooms /\ session' = sessions
    BY <1>2 DEF AskQuestion
  <2> HIDE DEF h, n
  <2>6. LeavesFlags(s, h, rooms, sessions)
    BY <2>2, <2>4, <2>5, ArmTimerFlags
  <2> QED
    BY <2>3, <2>6 DEF LeavesFlags
<1> HIDE DEF n
<1> QED
  BY <1>1, <1>2, EndGameFlags DEF SendNextQuestion, n

\* The pause after a round.
LEMMA PauseFlags ==
  ASSUME TypeOK, NEW s \in SessionIds, NEW g \in Game, NEW table, NEW rp,
         PauseThenAdvance(s, g, table, rp)
  PROVE  LeavesFlags(s, g, room, session)
<1>1. room \in [Rooms -> Room] /\ session \in [SessionIds -> Session]
  BY DEF TypeOK, RowsTyped
<1>2. CASE FreeSlots(table) = {}
  <2> DEFINE idle == [g EXCEPT !.timer = NoTimer]
  <2>1. SendNextQuestion(s, idle, table, room, session, rp)
    BY <1>2 DEF PauseThenAdvance
  <2>2. /\ idle \in Game /\ idle.players = g.players /\ idle.eliminated = g.eliminated
        /\ idle.room = g.room
    BY DEF Game, NoTimer
  <2> HIDE DEF idle
  <2>3. LeavesFlags(s, idle, room, session)
    BY <1>1, <2>1, <2>2, SendNextQuestionFlags
  <2> QED
    BY <2>2, <2>3 DEF LeavesFlags
<1>3. CASE FreeSlots(table) # {}
  <2>1. ArmTimer(s, g, table, "delayed_question") /\ room' = room /\ session' = session
    BY <1>3 DEF PauseThenAdvance
  <2> QED
    BY <2>1, ArmTimerFlags
<1> QED
  BY <1>2, <1>3

\* Such a handler leaves the flags of all games in order.
LEMMA FlagsLeft ==
  ASSUME TypeOK, FlagInv, NEW s \in DOMAIN games, NEW g, UNCHANGED nextSession,
         g.room = games[s].room, g.players = games[s].players,
         g.eliminated = games[s].eliminated,
         LeavesFlags(s, g, room, session)
  PROVE  FlagInv'
<1>1. \A r, t : SessionBefore(session', r, t) <=> SessionBefore(session, r, t)
  BY DEF LeavesFlags, SessionBefore
<1>2. ASSUME NEW t \in DOMAIN games'
      PROVE  /\ t \in DOMAIN games /\ games[t].room \in Rooms
             /\ games'[t].room = games[t].room
             /\ games'[t].players = games[t].players
             /\ games'[t].eliminated = games[t].eliminated
  BY <1>2 DEF LeavesFlags, TypeOK, MemoryTyped, Game
<1>3. \A q \in Rooms : /\ room'[q].gone = room[q].gone
                       /\ room'[q].status = "IN_PROGRESS" => room[q].status = "IN_PROGRESS"
  BY DEF LeavesFlags
<1>4. ASSUME NEW r \in Rooms, room'[r].gone # {} \/ room'[r].status = "IN_PROGRESS"
      PROVE  SessionBefore(session', r, nextSession')
  BY <1>1, <1>3, <1>4 DEF FlagInv
<1>5. ASSUME NEW t \in DOMAIN games'
      PROVE  \/ room'[games'[t].room].gone \cap games'[t].players \subseteq games'[t].eliminated
             \/ SessionBefore(session', games'[t].room, t)
  BY <1>1, <1>2, <1>3 DEF FlagInv
<1> QED
  BY <1>4, <1>5 DEF FlagInv

\* Requests on rooms set no flag and start no game.
LEMMA RoomFlags ==
  ASSUME TypeOK, FlagInv, NEW u \in Users, NEW r \in Rooms,
         \/ \E c \in Configs : CreateRoom(u, r, c)
         \/ JoinRoom(u, r) \/ LeaveRoom(u, r) \/ StartRefused(u, r)
  PROVE  FlagInv'
<1>1. UNCHANGED <<session, nextSession, games>>
  BY DEF CreateRoom, JoinRoom, LeaveRoom, StartRefused, memVars
<1>2. \A x, t : SessionBefore(session', x, t) <=> SessionBefore(session, x, t)
  BY <1>1 DEF SessionBefore
<1>3. room \in [Rooms -> Room]
  BY DEF TypeOK, RowsTyped
<1>4. \A q \in Rooms : /\ room'[q].gone \subseteq room[q].gone
                       /\ room'[q].status = "IN_PROGRESS" => room[q].status = "IN_PROGRESS"
  <2>1. CASE \E c \in Configs : CreateRoom(u, r, c)
    BY <1>3, <2>1 DEF CreateRoom, RoomCreated
  <2>2. CASE JoinRoom(u, r)
    BY <1>3, <2>2 DEF JoinRoom, MemberAdded, Room
  <2>3. CASE LeaveRoom(u, r)
    <3>1. ASSUME NEW whole \in BOOLEAN, room' = RoomDeleted(room, r, whole)
          PROVE  \A q \in Rooms :
                   /\ room'[q].gone \subseteq room[q].gone
                   /\ room'[q].status = "IN_PROGRESS" => room[q].status = "IN_PROGRESS"
      BY <1>3, <3>1 DEF RoomDeleted, NoRoom, Room
    <3>2. CASE room' = MemberRemoved(room, r, u)
      <4> DEFINE row == [room[r] EXCEPT !.members = @ \ {u}, !.gone = @ \ {u},
                                        !.unflagged = @ \ {u}]
      <4>1. row.gone \subseteq room[r].gone /\ row.status = room[r].status
        BY <1>3 DEF Room
      <4>2. room' = [room EXCEPT ![r] = row]
        BY <3>2 DEF MemberRemoved
      <4> HIDE DEF row
      <4> QED
        BY <1>3, <4>1, <4>2
    <3> QED
      BY <2>3, <3>1, <3>2 DEF LeaveRoom, Outcomes
  <2>4. CASE StartRefused(u, r)
    BY <1>3, <2>4 DEF StartRefused, Room
  <2> QED
    BY <2>1, <2>2, <2>3, <2>4
<1>5. ASSUME NEW q \in Rooms, room'[q].gone # {} \/ room'[q].status = "IN_PROGRESS"
      PROVE  SessionBefore(session', q, nextSession')
  BY <1>1, <1>2, <1>4, <1>5 DEF FlagInv
<1>6. ASSUME NEW t \in DOMAIN games'
      PROVE  \/ room'[games'[t].room].gone \cap games'[t].players \subseteq games'[t].eliminated
             \/ SessionBefore(session', games'[t].room, t)
  BY <1>1, <1>2, <1>4 DEF FlagInv, TypeOK, MemoryTyped, Game
<1> QED
  BY <1>5, <1>6 DEF FlagInv

\* The flag of a leaver is set in his row and in the one live game of the room.
LEMMA LeaveDuringGameFlags ==
  ASSUME TypeOK, DatabaseInv, FlagInv, NEW u \in Users, NEW r \in Rooms,
         LeaveDuringGame(u, r)
  PROVE  FlagInv'
<1>1. UNCHANGED <<session, nextSession>> /\ DOMAIN games' = DOMAIN games
  BY DEF LeaveDuringGame, PlayerEliminated
<1>2. \A x, t : SessionBefore(session', x, t) <=> SessionBefore(session, x, t)
  BY <1>1 DEF SessionBefore
<1>3. /\ \A q \in Rooms \ {r} : room'[q] = room[q]
      /\ room'[r].gone \subseteq room[r].gone \cup {u}
  <2>1. PICK flagged \in BOOLEAN : room' = MemberEliminated(room, r, u, flagged)
    BY DEF LeaveDuringGame, Outcomes
  <2> DEFINE row == room[r]
             flag == {u} \cap row.members
             new == IF flagged
                    THEN [row EXCEPT !.gone = @ \cup flag, !.unflagged = @ \ flag]
                    ELSE [row EXCEPT !.unflagged = @ \cup (flag \ row.gone)]
  <2>2. row \in Room /\ room \in [Rooms -> Room]
    BY DEF TypeOK, RowsTyped
  <2>3. room' = [room EXCEPT ![r] = new]
    BY <2>1 DEF MemberEliminated
  <2>4. new.gone \subseteq row.gone \cup {u}
    BY <2>2 DEF Room
  <2> HIDE DEF new
  <2> QED
    BY <2>2, <2>3, <2>4
<1>4. SessionBefore(session, r, nextSession)
  BY DEF LeaveDuringGame, FlagInv
<1>5. ASSUME NEW q \in Rooms, room'[q].gone # {} \/ room'[q].status = "IN_PROGRESS"
      PROVE  SessionBefore(session', q, nextSession')
  BY <1>1, <1>2, <1>3, <1>4, <1>5 DEF FlagInv
<1>6. ASSUME NEW t \in DOMAIN games'
      PROVE  \/ room'[games'[t].room].gone \cap games'[t].players \subseteq games'[t].eliminated
             \/ SessionBefore(session', games'[t].room, t)
  <2> DEFINE g == games[t]
             h == games'[t]
  <2>1. g \in Game /\ g.room \in Rooms
    BY <1>1 DEF TypeOK, MemoryTyped, Game
  <2>2. g.room = r => IsGameOfRoom(t, r)
    <3>1. \A x \in DOMAIN games : g.room = r /\ games[x].room = r => x = t
      BY <1>1 DEF DatabaseInv, GamesMatchDatabase
    <3>2. t \in Int
      BY <1>1 DEF TypeOK, MemoryTyped, SessionIds
    <3> QED
      BY <1>1, <3>1, <3>2 DEF IsGameOfRoom
  <2>3. h = IF IsGameOfRoom(t, r) /\ u \in g.players
            THEN [g EXCEPT !.eliminated = @ \cup {u}] ELSE g
    BY <1>1 DEF LeaveDuringGame, PlayerEliminated
  <2> HIDE DEF g, h
  <2>4. /\ h.room = g.room /\ h.players = g.players /\ g.eliminated \subseteq h.eliminated
        /\ g.room = r /\ u \in g.players => u \in h.eliminated
    BY <2>1, <2>2, <2>3 DEF Game
  <2>5. room'[g.room].gone \subseteq room[g.room].gone \cup (IF g.room = r THEN {u} ELSE {})
    BY <1>3, <2>1
  <2>6. \/ room[g.room].gone \cap g.players \subseteq g.eliminated
        \/ SessionBefore(session, g.room, t)
    BY <1>1 DEF FlagInv, g
  <2>7. \/ room'[h.room].gone \cap h.players \subseteq h.eliminated
        \/ SessionBefore(session', h.room, t)
    BY <1>2, <2>4, <2>5, <2>6
  <2> QED
    BY <2>7 DEF h
<1> QED
  BY <1>5, <1>6 DEF FlagInv

\* A new game starts with nobody eliminated: flags in the rows of its players are
\* those of an earlier session of the room.
LEMMA StartGameFlags ==
  ASSUME TypeOK, TimerInv, RoundInv, FlagInv, NEW u \in Users, NEW r \in Rooms,
         StartGame(u, r)
  PROVE  FlagInv'
<1> DEFINE s == nextSession
           config == StartConfig(r)
           players == FirstMembers(room[r].members)
           g == NewGame(r, config, players)
           configured == [room EXCEPT ![r].config = config]
           rooms == SetRoomStatus(configured, r, "IN_PROGRESS")
           sessions == [session EXCEPT ![s] = [room |-> r, status |-> "IN_PROGRESS",
                                               winner |-> NoUser]]
<1>1. /\ s \in SessionIds /\ s \in Nat /\ nextSession' = s + 1
      /\ \A t \in DOMAIN games : t \in SessionIds /\ t < s
  BY DEF StartGame, SessionIds, TimerInv, GamesNumbered, TypeOK, MemoryTyped
<1>2. \/ SendNextQuestion(s, g, timers, rooms, sessions, replay)
      \/ UNCHANGED games /\ room' = rooms /\ session' = sessions
  BY DEF StartGame, memVars
<1>3. room \in [Rooms -> Room] /\ session \in [SessionIds -> Session]
  BY DEF TypeOK, RowsTyped
<1>4. players \in SUBSET Users /\ config \in [Difficulties -> Int]
  BY <1>3, OneVNAssumption DEF OneVNAssumption, StartConfig, FirstMembers, Room
<1>5. g \in Game /\ g.room = r /\ g.eliminated = {}
  BY <1>4, NewGameType DEF NewGame
<1>6. /\ sessions \in [SessionIds -> Session]
      /\ sessions[s].room = r
      /\ \A t \in SessionIds \ {s} : sessions[t] = session[t]
  BY <1>1, <1>3 DEF Session
<1> HIDE DEF config, players, g, sessions
<1>7. /\ configured \in [Rooms -> Room]
      /\ \A q \in Rooms : /\ configured[q].gone = room[q].gone
                          /\ configured[q].status = room[q].status
  BY <1>3, <1>4 DEF Room
<1> HIDE DEF configured
<1>8. /\ rooms \in [Rooms -> Room]
      /\ \A q \in Rooms : /\ rooms[q].gone = room[q].gone
                          /\ q # r => rooms[q].status = room[q].status
  <2>1. rooms \in [Rooms -> Room]
    BY <1>7, SetRoomStatusType DEF RoomStatuses
  <2>2. \A q \in Rooms : /\ rooms[q].gone = configured[q].gone
                         /\ q # r => rooms[q].status = configured[q].status
    BY <1>7 DEF SetRoomStatus, Room
  <2> QED
    BY <1>7, <2>1, <2>2
<1> HIDE DEF rooms, s
<1>9. /\ \A q \in Rooms : /\ room'[q].gone = room[q].gone
                          /\ q # r /\ room'[q].status = "IN_PROGRESS"
                               => room[q].status = "IN_PROGRESS"
      /\ \A t \in SessionIds : session'[t].room = sessions[t].room
      /\ \A t \in DOMAIN games' \ {s} : t \in DOMAIN games /\ games'[t] = games[t]
      /\ s \in DOMAIN games' => games'[s].room = r
  <2>1. CASE SendNextQuestion(s, g, timers, rooms, sessions, replay)
    <3>1. LeavesFlags(s, g, rooms, sessions)
      BY <1>1, <1>5, <1>6, <1>8, <2>1, SendNextQuestionFlags
    <3> QED
      BY <1>5, <1>8, <3>1 DEF LeavesFlags
  <2>2. CASE UNCHANGED games /\ room' = rooms /\ session' = sessions
    BY <1>1, <1>8, <2>2
  <2> QED
    BY <1>2, <2>1, <2>2
<1>10. ASSUME NEW q, NEW t \in Int, t <= s, SessionBefore(session, q, t)
       PROVE  SessionBefore(session', q, t)
  <2> PICK x \in SessionIds : x < t /\ session[x].room = q
    BY <1>10 DEF SessionBefore
  <2>1. x # s
    BY <1>1, <1>10 DEF SessionIds
  <2>2. session'[x].room = q
    BY <1>6, <1>9, <2>1
  <2> QED
    BY <2>2 DEF SessionBefore
<1>11. ASSUME NEW q \in Rooms, room'[q].gone # {} \/ room'[q].status = "IN_PROGRESS"
       PROVE  SessionBefore(session', q, nextSession')
  <2>1. CASE q = r
    <3>1. session'[s].room = r /\ s < nextSession'
      BY <1>1, <1>6, <1>9
    <3> QED
      BY <1>1, <2>1, <3>1 DEF SessionBefore
  <2>2. CASE q # r
    <3>1. SessionBefore(session, q, s)
      BY <1>9, <1>11, <2>2 DEF FlagInv, s
    <3>2. PICK x \in SessionIds : x < s /\ session[x].room = q
      BY <3>1 DEF SessionBefore
    <3>3. x # s /\ x < nextSession'
      BY <1>1, <3>2 DEF SessionIds
    <3>4. session'[x].room = q
      BY <1>6, <1>9, <3>2, <3>3
    <3> QED
      BY <3>3, <3>4 DEF SessionBefore
  <2> QED
    BY <2>1, <2>2
<1>12. ASSUME NEW t \in DOMAIN games'
       PROVE  \/ room'[games'[t].room].gone \cap games'[t].players \subseteq games'[t].eliminated
              \/ SessionBefore(session', games'[t].room, t)
  <2>1. CASE t = s
    <3>1. room[r].gone # {} => SessionBefore(session, r, s)
      BY DEF FlagInv, s
    <3>2. room[r].gone # {} => SessionBefore(session', r, s)
      BY <1>1, <1>10, <3>1
    <3>3. games'[t].room = r /\ room'[r].gone = room[r].gone
      BY <1>9, <1>12, <2>1
    <3> QED
      BY <2>1, <3>2, <3>3
  <2>2. CASE t # s
    <3>1. t \in DOMAIN games /\ games'[t] = games[t]
      BY <1>9, <1>12, <2>2
    <3>2. games[t].room \in Rooms /\ t \in Int /\ t <= s
      BY <1>1, <3>1 DEF TypeOK, MemoryTyped, Game, SessionIds
    <3>3. \/ room[games[t].room].gone \cap games[t].players \subseteq games[t].eliminated
          \/ SessionBefore(session, games[t].room, t)
      BY <3>1 DEF FlagInv
    <3>4. SessionBefore(session, games[t].room, t) => SessionBefore(session', games[t].room, t)
      BY <1>10, <3>2
    <3> QED
      BY <1>9, <3>1, <3>2, <3>3, <3>4
  <2> QED
    BY <2>1, <2>2
<1> QED
  BY <1>11, <1>12 DEF FlagInv

\* Answers and timers leave the flags alone.
LEMMA GameFlags ==
  ASSUME TypeOK, FlagInv, GameRequest \/ \E i \in TimerSlots : TimerFires(i)
  PROVE  FlagInv'
<1>1. ASSUME NEW u \in Users, NEW s \in SessionIds,
             NEW correct \in BOOLEAN, NEW percent \in 0..100,
             SubmitAnswer(u, s, correct, percent)
      PROVE  FlagInv'
  <2> DEFINE g == games[s]
             h == Answered(g, u, correct, percent)
             closed == [h EXCEPT !.timer = NoTimer, !.rowOpen = FALSE]
  <2>1. s \in DOMAIN games /\ g \in Game /\ g.difficulty \in Difficulties
    BY <1>1 DEF SubmitAnswer, TypeOK, MemoryTyped, Game
  <2>2. h \in Game
    BY <2>1, AnsweredType
  <2>3. h.room = g.room /\ h.players = g.players /\ h.eliminated = g.eliminated
    BY <2>1, AnsweredKeeps
  <2>4. \/ \E table, rp : PauseThenAdvance(s, closed, table, rp)
        \/ games' = Put(games, s, h) /\ UNCHANGED <<room, session>>
    BY <1>1 DEF SubmitAnswer
  <2>5. UNCHANGED nextSession
    BY <1>1 DEF SubmitAnswer
  <2> HIDE DEF h
  <2>6. /\ closed \in Game /\ closed.players = h.players
        /\ closed.eliminated = h.eliminated /\ closed.room = h.room
    BY <2>2 DEF Game, NoTimer
  <2> HIDE DEF g, closed
  <2>7. CASE \E table, rp : PauseThenAdvance(s, closed, table, rp)
    <3>1. LeavesFlags(s, closed, room, session)
      BY <2>6, <2>7, PauseFlags
    <3> QED
      BY <2>1, <2>3, <2>5, <2>6, <3>1, FlagsLeft DEF g
  <2>8. CASE games' = Put(games, s, h) /\ UNCHANGED <<room, session>>
    <3>1. LeavesFlags(s, h, room, session)
      BY <2>8 DEF LeavesFlags, Put
    <3> QED
      BY <2>1, <2>3, <2>5, <3>1, FlagsLeft DEF g
  <2> QED
    BY <2>4, <2>7, <2>8
<1>2. ASSUME NEW u \in Users, NEW s \in SessionIds, UseLifeline(u, s)
      PROVE  FlagInv'
  <2> DEFINE g == games[s]
             used == [g.lifelines EXCEPT ![u] = @ + 1]
             h == [g EXCEPT !.lifelines = used]
  <2>1. g \in Game /\ s \in DOMAIN games
    BY <1>2 DEF UseLifeline, TypeOK, MemoryTyped
  <2>2. games' = [games EXCEPT ![s] = h] /\ UNCHANGED <<room, session, nextSession>>
    BY <1>2, <2>1 DEF UseLifeline, Game, dbVars
  <2> HIDE DEF used
  <2>3. h.room = g.room /\ h.players = g.players /\ h.eliminated = g.eliminated
    BY <2>1 DEF Game
  <2> HIDE DEF g, h
  <2>4. LeavesFlags(s, h, room, session)
    BY <2>1, <2>2 DEF LeavesFlags
  <2> QED
    BY <2>1, <2>2, <2>3, <2>4, FlagsLeft DEF g
<1>3. ASSUME NEW i \in TimerSlots, RoundTimeout(i) PROVE FlagInv'
  <2> DEFINE s == timers[i].game
             g == games[s]
             h == TimedOut(g)
             idle == [g EXCEPT !.timer = NoTimer]
  <2>1. s \in DOMAIN games /\ s \in SessionIds /\ g \in Game
    BY <1>3 DEF RoundTimeout, Due, TypeOK, MemoryTyped
  <2>2. /\ h \in Game
        /\ h.room = g.room /\ h.players = g.players /\ h.eliminated = g.eliminated
    BY <2>1, TimedOutType, TimedOutFields
  <2>3. \/ games' = [games EXCEPT ![s].timer = NoTimer] /\ UNCHANGED <<room, session>>
        \/ \E table, rp : EndGame(s, h, table, room, session, rp)
        \/ \E table, rp : PauseThenAdvance(s, h, table, rp)
    BY <1>3 DEF RoundTimeout
  <2>4. UNCHANGED nextSession
    BY <1>3 DEF RoundTimeout
  <2>5. room \in [Rooms -> Room] /\ session \in [SessionIds -> Session]
    BY DEF TypeOK, RowsTyped
  <2> HIDE DEF h
  <2>6. idle.room = g.room /\ idle.players = g.players /\ idle.eliminated = g.eliminated
    BY <2>1 DEF Game
  <2>7. CASE games' = [games EXCEPT ![s].timer = NoTimer] /\ UNCHANGED <<room, session>>
    <3>1. games' = [games EXCEPT ![s] = idle]
      BY <2>7
    <3> HIDE DEF idle, g, s
    <3>2. LeavesFlags(s, idle, room, session)
      BY <2>1, <2>7, <3>1 DEF LeavesFlags
    <3> QED
      BY <2>1, <2>4, <2>6, <3>2, FlagsLeft DEF g
  <2> HIDE DEF idle, g, s
  <2>8. CASE \E table, rp : EndGame(s, h, table, room, session, rp)
    <3>1. LeavesFlags(s, h, room, session)
      BY <2>1, <2>2, <2>5, <2>8, EndGameFlags
    <3> QED
      BY <2>1, <2>2, <2>4, <3>1, FlagsLeft DEF g
  <2>9. CASE \E table, rp : PauseThenAdvance(s, h, table, rp)
    <3>1. LeavesFlags(s, h, room, session)
      BY <2>1, <2>2, <2>9, PauseFlags
    <3> QED
      BY <2>1, <2>2, <2>4, <3>1, FlagsLeft DEF g
  <2> QED
    BY <2>3, <2>7, <2>8, <2>9
<1>4. ASSUME NEW i \in TimerSlots, DelayedQuestion(i) PROVE FlagInv'
  <2> DEFINE s == timers[i].game
             g == games[s]
             idle == [g EXCEPT !.timer = NoTimer]
  <2>1. s \in DOMAIN games /\ s \in SessionIds /\ g \in Game
    BY <1>4 DEF DelayedQuestion, Due, TypeOK, MemoryTyped
  <2>2. \E table : SendNextQuestion(s, idle, table, room, session, replay)
    BY <1>4 DEF DelayedQuestion
  <2>3. UNCHANGED nextSession
    BY <1>4 DEF DelayedQuestion
  <2>4. /\ idle \in Game /\ idle.room = g.room /\ idle.players = g.players
        /\ idle.eliminated = g.eliminated
    BY <2>1 DEF Game, NoTimer
  <2>5. room \in [Rooms -> Room] /\ session \in [SessionIds -> Session]
    BY DEF TypeOK, RowsTyped
  <2> HIDE DEF idle, g, s
  <2>6. LeavesFlags(s, idle, room, session)
    BY <2>1, <2>2, <2>4, <2>5, SendNextQuestionFlags
  <2> QED
    BY <2>1, <2>3, <2>4, <2>6, FlagsLeft DEF g
<1>5. 0 \in 0..100 /\ TimePercents \subseteq 0..100
  BY OneVNAssumption DEF OneVNAssumption
<1> QED
  BY <1>1, <1>2, <1>3, <1>4, <1>5 DEF GameRequest, TimerFires

\* Flags are set by leavers only, and are gone only with the rows.
THEOREM FlagsInOrder == Spec => []FlagInv
<1>1. Init => FlagInv
  BY DEF Init, FlagInv, NoRoom
<1>2. TypeOK /\ TimerInv /\ DatabaseInv /\ RoundInv /\ FlagInv /\ [Next]_vars => FlagInv'
  <2> SUFFICES ASSUME TypeOK, TimerInv, DatabaseInv, RoundInv, FlagInv, [Next]_vars
               PROVE  FlagInv'
    OBVIOUS
  <2>1. CASE RoomRequest
    BY <2>1, RoomFlags, LeaveDuringGameFlags, StartGameFlags DEF RoomRequest
  <2>2. CASE GameRequest \/ \E i \in TimerSlots : TimerFires(i)
    BY <2>2, GameFlags
  <2>3. CASE Restart
    BY <2>3 DEF Restart, dbVars, FlagInv, SessionBefore, Restrict
  <2>4. CASE UNCHANGED vars
    BY <2>4 DEF vars, FlagInv, SessionBefore
  <2> QED
    BY <2>1, <2>2, <2>3, <2>4 DEF Next
<1> QED
  BY <1>1, <1>2, TypeCorrect, TimersAndGames, GamesAndRows, RoundsInOrder, PTL DEF Spec

\* The member rows and the game tell the same of who has left it, but for flags
\* that a failed statement has not set and those of an earlier game of the room.
THEOREM MembersTellTheGameAlways == Spec => []MembersTellTheGame
<1>1. RoundInv /\ FlagInv => MembersTellTheGame
  BY DEF RoundInv, InOrder, KeptInRoom, FlagInv, SessionBefore, MembersTellTheGame
<1> QED
  BY <1>1, RoundsInOrder, FlagsInOrder, PTL

-----------------------------------------------------------------------------
(* The engine with its clients *)

\* The answers on their way say whether they are right.
AnswersTyped ==
  \E Answers : /\ \A m \in Answers : m.correct \in BOOLEAN
               /\ pending \in [Users -> Seq(Answers)]

LEMMA AnswersInitTyped == AnswersInit => AnswersTyped
<1> SUFFICES ASSUME AnswersInit PROVE AnswersTyped
  OBVIOUS
<1>1. pending \in [Users -> Seq({})]
  BY DEF AnswersInit
<1> QED  BY <1>1 DEF AnswersTyped

LEMMA OneAnswerLess ==
  ASSUME AnswersTyped, NEW u \in Users, pending[u] # << >>,
         pending' = [pending EXCEPT ![u] = Tail(@)]
  PROVE  AnswersTyped'
<1>1. PICK Answers : /\ \A m \in Answers : m.correct \in BOOLEAN
                     /\ pending \in [Users -> Seq(Answers)]
  BY DEF AnswersTyped
<1>2. pending' \in [Users -> Seq(Answers)]
  BY <1>1
<1> QED  BY <1>1, <1>2 DEF AnswersTyped

LEMMA OneAnswerMore ==
  ASSUME AnswersTyped, NEW u \in Users, NEW correct \in BOOLEAN,
         pending' = [pending EXCEPT ![u] = Append(@, Answer(u, correct))]
  PROVE  AnswersTyped'
<1>1. PICK Answers : /\ \A m \in Answers : m.correct \in BOOLEAN
                     /\ pending \in [Users -> Seq(Answers)]
  BY DEF AnswersTyped
<1> DEFINE a == Answer(u, correct)
           More == Answers \cup {a}
<1>2. a.correct \in BOOLEAN
  BY DEF Answer
<1> HIDE DEF a
<1>3. \A m \in More : m.correct \in BOOLEAN
  BY <1>1, <1>2
<1>4. \A v \in Users : pending[v] \in Seq(More)
  BY <1>1
<1>5. Append(pending[u], a) \in Seq(More)
  <2>1. a \in More
    OBVIOUS
  <2> HIDE DEF More
  <2> QED  BY <1>4, <2>1
<1> HIDE DEF More
<1>6. pending' \in [Users -> Seq(More)]
  BY <1>1, <1>4, <1>5 DEF a
<1> QED  BY <1>3, <1>6 DEF AnswersTyped

LEMMA AnswersStep ==
  ASSUME TypeOK, AnswersTyped, [AnswersNext]_allVars
  PROVE  AnswersTyped' /\ [Next]_vars
<1>1. ASSUME UNCHANGED pending PROVE AnswersTyped'
  BY <1>1 DEF AnswersTyped
<1>2. CASE UNCHANGED allVars
  BY <1>1, <1>2 DEF allVars, clientVars
<1>3. ASSUME NEW i \in TimerSlots, Clock(i) PROVE AnswersTyped' /\ [Next]_vars
  BY <1>1, <1>3 DEF Clock, Next
<1>4. CASE OtherRequest
  <2>1. Next
    BY <1>4 DEF OtherRequest, Next, GameRequest
  <2> QED  BY <1>1, <1>4, <2>1 DEF OtherRequest
<1>5. CASE RestartServer
  <2>1. pending' \in [Users -> Seq({})]
    BY <1>5 DEF RestartServer
  <2> QED  BY <1>5, <2>1 DEF RestartServer, Next, AnswersTyped
<1>6. ASSUME NEW u \in Users, ReceiveAnswer(u) PROVE AnswersTyped' /\ [Next]_vars
  <2>1. AnswersTyped'
    BY <1>6, OneAnswerLess DEF ReceiveAnswer
  <2> DEFINE m == Head(pending[u])
  <2>2. m.correct \in BOOLEAN
    BY <1>6 DEF AnswersTyped, ReceiveAnswer
  <2>3. CASE UNCHANGED vars
    BY <2>1, <2>3
  <2>4. ASSUME NEW percent \in TimePercents, m.session \in DOMAIN games,
               SubmitAnswer(u, m.session, m.correct, IF m.correct THEN percent ELSE 0)
        PROVE  [Next]_vars
    <3>1. m.session \in SessionIds
      BY <2>4 DEF TypeOK, MemoryTyped
    <3>2. CASE m.correct = TRUE
      BY <2>4, <3>1, <3>2 DEF Next, GameRequest
    <3>3. CASE m.correct = FALSE
      BY <2>4, <3>1, <3>3 DEF Next, GameRequest
    <3> QED  BY <2>2, <3>2, <3>3
  <2> QED  BY <1>6, <2>1, <2>3, <2>4 DEF ReceiveAnswer
<1>7. ASSUME NEW u \in Users, LoseAnswer(u) PROVE AnswersTyped' /\ [Next]_vars
  BY <1>7, OneAnswerLess DEF LoseAnswer
<1>8. ASSUME NEW u \in Users, ReadMessage(u) PROVE AnswersTyped' /\ [Next]_vars
  BY <1>1, <1>8 DEF ReadMessage
<1>9. ASSUME NEW u \in Users, NEW correct \in BOOLEAN, PickAnswer(u, correct)
      PROVE  AnswersTyped' /\ [Next]_vars
  BY <1>9, OneAnswerMore DEF PickAnswer
<1>10. ASSUME NEW u \in Users, CountdownEnds(u) PROVE AnswersTyped' /\ [Next]_vars
  BY <1>10, OneAnswerMore DEF CountdownEnds
<1> QED  BY <1>2, <1>3, <1>4, <1>5, <1>6, <1>7, <1>8, <1>9, <1>10 DEF AnswersNext

\* The engine behind its clients is the engine: answers that are late, lost or
\* given twice (OneVNMode.qml, client_session_read_packet) are requests it knows, so
\* that all its invariants hold with them.
THEOREM AnswersUseTheEngine == AnswersSpec => Spec
<1>1. AnswersInit => Init
  BY DEF AnswersInit
<1>2. TypeOK /\ AnswersTyped /\ [AnswersNext]_allVars => (TypeOK /\ AnswersTyped)' /\ [Next]_vars
  BY AnswersStep, TypeStep
<1> QED
  BY AnswersInitTyped, TypeInit, <1>1, <1>2, PTL DEF AnswersSpec, Spec
=============================================================================
