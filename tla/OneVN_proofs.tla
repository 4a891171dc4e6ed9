-------------------------- MODULE OneVN_proofs --------------------------
(***************************************************************************)
(* Theorems about the 1vN engine (module OneVN), for every number of       *)
(* users, rooms, games and timers.                                         *)
(***************************************************************************)
EXTENDS OneVN, TLAPS

-----------------------------------------------------------------------------
(* The helpers return what their callers expect. *)

\* The score of an answer is a natural number: no answer ever takes points
\* away (calculate_score).
LEMMA CalculateScoreType ==
  ASSUME NEW d \in Difficulties, NEW percent \in 0..100, NEW streak \in Int
  PROVE  CalculateScore(d, percent, streak) \in Nat
<1>1. BaseScore[d] \in {1000, 1500, 2000}
  BY DEF BaseScore, Difficulties
<1>2. BaseScore[d] * percent \in Nat
  <2>1. CASE BaseScore[d] = 1000
    BY <2>1
  <2>2. CASE BaseScore[d] = 1500
    BY <2>2
  <2>3. CASE BaseScore[d] = 2000
    BY <2>3
  <2> QED
    BY <1>1, <2>1, <2>2, <2>3
<1>3. (BaseScore[d] * percent) \div 100 \in Nat
  <2> DEFINE n == BaseScore[d] * percent
  <2>1. n \in Nat
    BY <1>2
  <2> HIDE DEF n
  <2>2. n \div 100 \in Nat
    BY <2>1
  <2> QED
    BY <2>2 DEF n
<1>4. StreakBonus(streak) \in Nat
  BY DEF StreakBonus
<1> QED
  BY <1>3, <1>4 DEF CalculateScore

\* The winner is a player or nobody (check_game_end).
LEMMA WinnersType ==
  ASSUME NEW g \in Game, NEW w \in Winners(g)
  PROVE  w \in Users \cup {NoUser}
BY DEF Winners, Game

\* Cancelling and releasing leave a table of slots (game_timer_cancel).
LEMMA TableType ==
  ASSUME NEW table \in [TimerSlots -> Slot]
  PROVE  /\ \A id : CancelTimer(table, id) \in [TimerSlots -> Slot]
         /\ \A i \in TimerSlots : ReleaseSlot(table, i) \in [TimerSlots -> Slot]
BY OneVNAssumption DEF CancelTimer, ReleaseSlot, FreeSlot, Slot

\* Room rows keep their type when their status is set (dao_rooms_update_status).
LEMMA SetRoomStatusType ==
  ASSUME NEW rooms \in [Rooms -> Room], NEW r \in Rooms, NEW status \in RoomStatuses
  PROVE  SetRoomStatus(rooms, r, status) \in [Rooms -> Room]
BY DEF SetRoomStatus, Room

LEMMA CloseRowType ==
  ASSUME NEW rp \in [SessionIds -> Replay], NEW s \in SessionIds, NEW g \in Game, NEW ended
  PROVE  CloseRow(rp, s, g, ended) \in [SessionIds -> Replay]
<1>1. g.round \in Nat
  BY DEF Game
<1> QED
  BY <1>1 DEF CloseRow, Replay

\* The record of a game starts with its type (init_game_state).
LEMMA NewGameType ==
  ASSUME NEW r \in Rooms, NEW config \in [Difficulties -> Int], NEW players \in SUBSET Users
  PROVE  NewGame(r, config, players) \in Game
<1>1. OneVNAssumption
  BY OneVNAssumption
<1>2. 0 \in 0..MaxLifelines
  BY <1>1 DEF OneVNAssumption
<1> QED
  BY <1>2 DEF NewGame, Game, NotAnswered, NoTimer

-----------------------------------------------------------------------------
(* The parts handlers are made of keep types.  What a handler passes on is  *)
(* a record of a game and rows and timers of their types; MemoryTyped and   *)
(* RowsTyped hold for what it leaves.                                       *)

\* ArmTimer leaves typed memory (game_timer_create).
LEMMA ArmTimerType ==
  ASSUME TypeOK,
         NEW s \in SessionIds, NEW g \in Game, g.difficulty # "none",
         NEW table \in [TimerSlots -> Slot], NEW callback \in Callbacks,
         ArmTimer(s, g, table, callback)
  PROVE  MemoryTyped'
<1>1. \A t \in Nat \cup {NoTimer} :
        /\ [g EXCEPT !.timer = t] \in Game
        /\ [g EXCEPT !.timer = t].difficulty # "none"
  BY DEF Game
<1>2. ASSUME NEW t \in Nat \cup {NoTimer}, games' = Put(games, s, [g EXCEPT !.timer = t])
      PROVE  /\ DOMAIN games' \subseteq SessionIds
             /\ \A q \in DOMAIN games' : games'[q] \in Game /\ games'[q].difficulty # "none"
  BY <1>1, <1>2 DEF Put, TypeOK, MemoryTyped
<1>3. CASE games' = Put(games, s, [g EXCEPT !.timer = NoTimer]) /\ timers' = table
           /\ nextTimer' = nextTimer
  BY <1>2, <1>3 DEF TypeOK, MemoryTyped
<1>4. ASSUME NEW i \in TimerSlots,
             games' = Put(games, s, [g EXCEPT !.timer = nextTimer]),
             timers' = CreateTimer(table, i, nextTimer, callback, s),
             nextTimer' = nextTimer + 1
      PROVE  MemoryTyped'
  <2>1. nextTimer \in Nat \ {0}
    BY DEF TypeOK, MemoryTyped
  <2>2. s \in 0..MaxSessions
    BY DEF SessionIds
  <2>3. timers' \in [TimerSlots -> Slot]
    BY <1>4, <2>1, <2>2 DEF CreateTimer, Slot
  <2> QED
    BY <1>2, <1>4, <2>1, <2>3 DEF MemoryTyped
<1> QED
  BY <1>3, <1>4 DEF ArmTimer

\* end_game leaves typed rows and typed memory.
LEMMA EndGameType ==
  ASSUME TypeOK,
         NEW s \in SessionIds, NEW g \in Game,
         NEW table \in [TimerSlots -> Slot], NEW rooms \in [Rooms -> Room],
         NEW sessions \in [SessionIds -> Session], NEW rp \in [SessionIds -> Replay],
         EndGame(s, g, table, rooms, sessions, rp)
  PROVE  RowsTyped' /\ MemoryTyped'
<1> PICK w \in Winners(g) :
         /\ timers' = CancelTimer(table, g.timer)
         /\ session' = SessionEnded(sessions, s, w)
         /\ room' = SetRoomStatus(rooms, g.room, "FINISHED")
         /\ stats' = GameCounted(g, w)
         /\ games' = Restrict(games, DOMAIN games \ {s})
         /\ replay' = rp
         /\ nextTimer' = nextTimer
  BY DEF EndGame
<1>1. w \in Users \cup {NoUser}
  BY WinnersType
<1>2. g.timer \in Int /\ g.room \in Rooms
  BY DEF Game, NoTimer
<1>3. timers' \in [TimerSlots -> Slot]
  BY TableType
<1>4. session' \in [SessionIds -> Session]
  BY <1>1 DEF SessionEnded, Session
<1>5. room' \in [Rooms -> Room]
  BY <1>2, SetRoomStatusType DEF RoomStatuses
<1>6. stats' \in [Users -> [games : Nat, wins : Nat]]
  BY DEF GameCounted, TypeOK, RowsTyped
<1>7. /\ DOMAIN games' \subseteq SessionIds
      /\ \A q \in DOMAIN games' : games'[q] \in Game /\ games'[q].difficulty # "none"
  BY DEF Restrict, TypeOK, MemoryTyped
<1> QED
  BY <1>3, <1>4, <1>5, <1>6, <1>7 DEF RowsTyped, MemoryTyped, TypeOK

\* The record with a new question is typed and keeps its timer.
LEMMA AskedType ==
  ASSUME NEW g \in Game, g.difficulty \in Difficulties, NEW stored \in BOOLEAN
  PROVE  /\ Asked(g, stored) \in Game
         /\ Asked(g, stored).difficulty # "none"
         /\ Asked(g, stored).timer = g.timer
         /\ Asked(g, stored).room = g.room
<1> DEFINE done == [g.done EXCEPT ![g.difficulty] = @ + 1]
           answered == [u \in Users |-> NotAnswered]
           open == stored \/ g.rowOpen
<1>1. done \in [Difficulties -> Nat]
  BY DEF Game
<1>2. answered \in [Users -> Nat \cup {NotAnswered}]
  OBVIOUS
<1>3. open \in BOOLEAN
  BY Zenon
<1>4. g.difficulty # "none"
  BY DEF Difficulties
<1>5. Asked(g, stored) = [g EXCEPT !.done = done, !.answered = answered, !.rowOpen = open]
  BY DEF Game, Asked
<1> HIDE DEF done, answered, open
<1> QED
  BY <1>1, <1>2, <1>3, <1>4, <1>5 DEF Game

\* The record of the next round is typed and keeps its timer.
LEMMA NextRoundType ==
  ASSUME NEW g \in Game
  PROVE  /\ NextRound(g) \in Game
         /\ NextRound(g).difficulty \in Difficulties
         /\ NextRound(g).timer = g.timer
         /\ NextRound(g).room = g.room
<1> DEFINE n == g.round + 1
           d == NextDifficulty(g)
<1>1. n \in Nat
  BY DEF Game
<1>2. d \in Difficulties
  BY DEF NextDifficulty, Difficulties
<1>3. NextRound(g) = [g EXCEPT !.round = n, !.difficulty = d]
  BY DEF NextRound
<1> HIDE DEF n, d
<1> QED
  BY <1>1, <1>2, <1>3 DEF Game

\* Opening a round leaves typed rows and typed memory.
LEMMA AskQuestionType ==
  ASSUME TypeOK,
         NEW s \in SessionIds, NEW g \in Game, g.difficulty \in Difficulties,
         NEW table \in [TimerSlots -> Slot], NEW rooms \in [Rooms -> Room],
         NEW sessions \in [SessionIds -> Session], NEW rp \in [SessionIds -> Replay],
         AskQuestion(s, g, table, rooms, sessions, rp)
  PROVE  RowsTyped' /\ MemoryTyped'
<1> PICK stored \in Outcomes("create_round") :
         /\ ArmTimer(s, Asked(g, stored), CancelTimer(table, g.timer), "round_timeout")
         /\ replay' = IF stored
                      THEN [rp EXCEPT ![s].rounds = @ \cup {g.round},
                                      ![s].open = @ \cup {g.round}]
                      ELSE rp
         /\ room' = rooms
         /\ session' = sessions
         /\ UNCHANGED stats
  BY DEF AskQuestion
<1>1. stored \in BOOLEAN
  BY DEF Outcomes
<1>2. MemoryTyped'
  BY <1>1, AskedType, TableType, ArmTimerType DEF Callbacks
<1>3. replay' \in [SessionIds -> Replay]
  <2>1. g.round \in Nat
    BY DEF Game
  <2> QED
    BY <2>1 DEF Replay
<1> QED
  BY <1>2, <1>3 DEF RowsTyped, TypeOK

\* send_next_question leaves typed rows and typed memory.
LEMMA SendNextQuestionType ==
  ASSUME TypeOK,
         NEW s \in SessionIds, NEW g \in Game,
         NEW table \in [TimerSlots -> Slot], NEW rooms \in [Rooms -> Room],
         NEW sessions \in [SessionIds -> Session], NEW rp \in [SessionIds -> Replay],
         SendNextQuestion(s, g, table, rooms, sessions, rp)
  PROVE  RowsTyped' /\ MemoryTyped'
<1>1. \/ EndGame(s, g, table, rooms, sessions, rp)
      \/ AskQuestion(s, NextRound(g), table, rooms, sessions, rp)
      \/ EndGame(s, NextRound(g), table, rooms, sessions, rp)
  BY DEF SendNextQuestion
<1> QED
  BY <1>1, NextRoundType, EndGameType, AskQuestionType

\* The end of a round leaves typed rows and typed memory.
LEMMA PauseThenAdvanceType ==
  ASSUME TypeOK,
         NEW s \in SessionIds, NEW g \in Game, g.difficulty # "none",
         NEW table \in [TimerSlots -> Slot], NEW rp \in [SessionIds -> Replay],
         PauseThenAdvance(s, g, table, rp)
  PROVE  RowsTyped' /\ MemoryTyped'
<1> DEFINE idle == [g EXCEPT !.timer = NoTimer]
<1>1. idle \in Game
  BY DEF Game
<1>2. \/ SendNextQuestion(s, idle, table, room, session, rp)
      \/ /\ ArmTimer(s, g, table, "delayed_question")
         /\ replay' = rp
         /\ UNCHANGED <<room, session, stats>>
  BY DEF PauseThenAdvance
<1>3. /\ room \in [Rooms -> Room]
      /\ session \in [SessionIds -> Session]
      /\ stats \in [Users -> [games : Nat, wins : Nat]]
  BY DEF TypeOK, RowsTyped
<1> HIDE DEF idle
<1>4. CASE SendNextQuestion(s, idle, table, room, session, rp)
  BY <1>1, <1>3, <1>4, SendNextQuestionType
<1>5. CASE /\ ArmTimer(s, g, table, "delayed_question")
           /\ replay' = rp
           /\ UNCHANGED <<room, session, stats>>
  BY <1>3, <1>5, ArmTimerType DEF Callbacks, RowsTyped
<1> QED
  BY <1>2, <1>4, <1>5

-----------------------------------------------------------------------------
(* Type correctness: one lemma for each action that touches the memory.    *)

\* The rows room requests write keep the type of a room.
LEMMA RoomRequestType ==
  ASSUME TypeOK, NEW u \in Users, NEW r \in Rooms,
         \/ \E c \in Configs : CreateRoom(u, r, c)
         \/ JoinRoom(u, r)
         \/ LeaveRoom(u, r)
         \/ StartRefused(u, r)
  PROVE  TypeOK'
<1>1. ASSUME NEW c \in Configs, CreateRoom(u, r, c) PROVE room' \in [Rooms -> Room]
  <2>1. c \in [Difficulties -> Int]
    BY OneVNAssumption DEF OneVNAssumption
  <2> QED
    BY <1>1, <2>1 DEF CreateRoom, RoomCreated, Room, RoomStatuses, TypeOK, RowsTyped
<1>2. ASSUME JoinRoom(u, r) PROVE room' \in [Rooms -> Room]
  BY <1>2 DEF JoinRoom, MemberAdded, Room, TypeOK, RowsTyped
<1>3. ASSUME LeaveRoom(u, r) PROVE room' \in [Rooms -> Room]
  <2>1. [NoRoom EXCEPT !.status = "DELETED"] \in Room
    BY DEF NoRoom, Room, RoomStatuses, NoConfig
  <2>2. room[r] \in Room
    BY DEF TypeOK, RowsTyped
  <2>3. [room[r] EXCEPT !.members = {}, !.gone = {}, !.unflagged = {}] \in Room
    BY <2>2 DEF Room
  <2>4. [room[r] EXCEPT !.members = @ \ {u}, !.gone = @ \ {u}, !.unflagged = @ \ {u}] \in Room
    BY <2>2 DEF Room
  <2>5. \A whole : RoomDeleted(room, r, whole) \in [Rooms -> Room]
    BY <2>1, <2>3 DEF RoomDeleted, TypeOK, RowsTyped
  <2>6. MemberRemoved(room, r, u) \in [Rooms -> Room]
    BY <2>4 DEF MemberRemoved, TypeOK, RowsTyped
  <2> QED
    BY <1>3, <2>5, <2>6 DEF LeaveRoom
<1>4. ASSUME StartRefused(u, r) PROVE room' \in [Rooms -> Room]
  <2>1. StartConfig(r) \in [Difficulties -> Int]
    BY OneVNAssumption DEF OneVNAssumption, StartConfig, Room, TypeOK, RowsTyped
  <2>2. r \in Rooms => [room[r] EXCEPT !.config = StartConfig(r)] \in Room
    BY <2>1 DEF Room, TypeOK, RowsTyped
  <2>3. room' = [room EXCEPT ![r] = [@ EXCEPT !.config = StartConfig(r)]]
    BY <1>4 DEF StartRefused
  <2> QED
    BY <2>2, <2>3 DEF TypeOK, RowsTyped
<1>5. room' \in [Rooms -> Room]
  BY <1>1, <1>2, <1>3, <1>4
<1>6. UNCHANGED <<session, nextSession, replay, stats, memVars>>
  BY DEF CreateRoom, JoinRoom, LeaveRoom, StartRefused
<1> QED
  BY <1>5, <1>6 DEF TypeOK, RowsTyped, MemoryTyped, memVars

\* Elimination keeps types.
LEMMA LeaveDuringGameType ==
  ASSUME TypeOK, NEW u \in Users, NEW r \in Rooms, LeaveDuringGame(u, r)
  PROVE  TypeOK'
<1>1. room' \in [Rooms -> Room]
  <2>1. PICK flagged \in BOOLEAN : room' = MemberEliminated(room, r, u, flagged)
    BY DEF LeaveDuringGame, Outcomes
  <2>2. room[r] \in Room
    BY DEF TypeOK, RowsTyped
  <2> DEFINE flag == {u} \cap room[r].members
  <2>3. /\ [room[r] EXCEPT !.gone = @ \cup flag, !.unflagged = @ \ flag] \in Room
        /\ [room[r] EXCEPT !.unflagged = @ \cup (flag \ room[r].gone)] \in Room
    BY <2>2 DEF Room
  <2> QED
    BY <2>1, <2>3 DEF MemberEliminated, TypeOK, RowsTyped
<1>2. ASSUME NEW g \in Game
      PROVE  /\ [g EXCEPT !.eliminated = @ \cup {u}] \in Game
             /\ [g EXCEPT !.eliminated = @ \cup {u}].difficulty = g.difficulty
  BY DEF Game
<1>3. /\ DOMAIN games' \subseteq SessionIds
      /\ \A s \in DOMAIN games' : games'[s] \in Game /\ games'[s].difficulty # "none"
  BY <1>2 DEF LeaveDuringGame, PlayerEliminated, TypeOK, MemoryTyped
<1> QED
  BY <1>1, <1>3 DEF LeaveDuringGame, TypeOK, RowsTyped, MemoryTyped

\* handle_start_game keeps types.
LEMMA StartGameType ==
  ASSUME TypeOK, NEW u \in Users, NEW r \in Rooms, StartGame(u, r)
  PROVE  TypeOK'
<1> DEFINE players == FirstMembers(room[r].members)
           s == nextSession
           config == StartConfig(r)
           rooms == SetRoomStatus([room EXCEPT ![r].config = config], r, "IN_PROGRESS")
           sessions == [session EXCEPT ![s] = [room |-> r, status |-> "IN_PROGRESS",
                                               winner |-> NoUser]]
<1>1. s \in SessionIds /\ nextSession' = s + 1
  BY DEF StartGame
<1>2. nextSession' \in 1..(MaxSessions + 1)
  BY <1>1, OneVNAssumption DEF SessionIds, OneVNAssumption
<1>3. config \in [Difficulties -> Int]
  BY OneVNAssumption DEF OneVNAssumption, StartConfig, Room, TypeOK, RowsTyped
<1>4. players \in SUBSET Users
  BY DEF FirstMembers, Room, TypeOK, RowsTyped
<1>5. rooms \in [Rooms -> Room]
  <2> HIDE DEF config
  <2>1. [room EXCEPT ![r].config = config] \in [Rooms -> Room]
    BY <1>3 DEF Room, TypeOK, RowsTyped
  <2> QED
    BY <2>1, SetRoomStatusType DEF RoomStatuses
<1>6. sessions \in [SessionIds -> Session]
  BY DEF Session, TypeOK, RowsTyped
<1>7. NewGame(r, config, players) \in Game
  BY <1>3, <1>4, NewGameType
<1>8. /\ replay \in [SessionIds -> Replay]
      /\ timers \in [TimerSlots -> Slot]
      /\ stats \in [Users -> [games : Nat, wins : Nat]]
  BY DEF TypeOK, RowsTyped, MemoryTyped
<1>9. \/ SendNextQuestion(s, NewGame(r, config, players), timers, rooms, sessions, replay)
      \/ /\ room' = rooms
         /\ session' = sessions
         /\ UNCHANGED <<replay, stats, memVars>>
  BY DEF StartGame
<1> HIDE DEF players, config, rooms, sessions
<1>10. CASE SendNextQuestion(s, NewGame(r, config, players), timers, rooms, sessions, replay)
  BY <1>1, <1>2, <1>5, <1>6, <1>7, <1>8, <1>10, SendNextQuestionType DEF TypeOK
<1>11. CASE /\ room' = rooms
            /\ session' = sessions
            /\ UNCHANGED <<replay, stats, memVars>>
  BY <1>2, <1>5, <1>6, <1>11 DEF TypeOK, RowsTyped, MemoryTyped, memVars
<1> QED
  BY <1>9, <1>10, <1>11

\* The record after an answer is typed.
LEMMA AnsweredType ==
  ASSUME NEW g \in Game, g.difficulty \in Difficulties, NEW u \in Users,
         NEW correct \in BOOLEAN, NEW percent \in 0..100
  PROVE  /\ Answered(g, u, correct, percent) \in Game
         /\ Answered(g, u, correct, percent).difficulty = g.difficulty
         /\ Answered(g, u, correct, percent).room = g.room
<1> DEFINE answered == [g.answered EXCEPT ![u] = g.round]
           longer == [g.streak EXCEPT ![u] = @ + 1]
           none == [g.streak EXCEPT ![u] = 0]
           points == CalculateScore(g.difficulty, percent, g.streak[u])
           score == [g.score EXCEPT ![u] = @ + points]
<1>1. answered \in [Users -> Nat \cup {NotAnswered}]
  BY DEF Game
<1>2. longer \in [Users -> Nat] /\ none \in [Users -> Nat]
  BY DEF Game
<1>3. points \in Nat
  <2>1. g.streak[u] \in Int
    BY DEF Game
  <2> QED
    BY <2>1, CalculateScoreType
<1>4. score \in [Users -> Nat]
  <2> HIDE DEF points
  <2> QED
    BY <1>3 DEF Game
<1>5. CASE correct
  <2>1. Answered(g, u, correct, percent)
          = [g EXCEPT !.answered = answered, !.streak = longer, !.score = score]
    BY <1>5 DEF Answered, Game
  <2> HIDE DEF answered, longer, score
  <2> QED
    BY <1>1, <1>2, <1>4, <2>1 DEF Game
<1>6. CASE ~correct
  <2>1. Answered(g, u, correct, percent) = [g EXCEPT !.answered = answered, !.streak = none]
    BY <1>6 DEF Answered, Game
  <2> HIDE DEF answered, none
  <2> QED
    BY <1>1, <1>2, <2>1 DEF Game
<1> QED
  BY <1>5, <1>6

\* handle_submit_answer keeps types.
LEMMA SubmitAnswerType ==
  ASSUME TypeOK, NEW u \in Users, NEW s \in SessionIds,
         NEW correct \in BOOLEAN, NEW percent \in 0..100,
         SubmitAnswer(u, s, correct, percent)
  PROVE  TypeOK'
<1>1. s \in DOMAIN games /\ nextSession' = nextSession
  BY DEF SubmitAnswer
<1>2. games[s] \in Game /\ games[s].difficulty \in Difficulties
  BY <1>1 DEF TypeOK, MemoryTyped, Game
<1> DEFINE g == Answered(games[s], u, correct, percent)
           gained == ScoreGained(g, u, correct, percent)
           closed == [g EXCEPT !.timer = NoTimer, !.rowOpen = FALSE]
<1>3. g \in Game /\ g.difficulty \in Difficulties
  BY <1>2, AnsweredType
<1> PICK stored \in Outcomes("save_player_answer"), ended \in Outcomes("end_round") :
      LET rp == SaveAnswer(s, g, u, gained, stored)
      IN  IF Late(g) = {}
          THEN PauseThenAdvance(s, closed, CancelTimer(timers, g.timer), CloseRow(rp, s, g, ended))
          ELSE /\ games' = Put(games, s, g)
               /\ replay' = rp
               /\ UNCHANGED <<room, session, stats, timers, nextTimer>>
  BY DEF SubmitAnswer
<1> DEFINE rp == SaveAnswer(s, g, u, gained, stored)
<1> HIDE DEF g
<1>4. gained \in Nat
  <2>1. g.streak[u] - 1 \in Int
    BY <1>3 DEF Game
  <2> QED
    BY <1>3, <2>1, CalculateScoreType DEF ScoreGained
<1>5. rp \in [SessionIds -> Replay]
  <2> HIDE DEF gained
  <2> DEFINE gains == [replay[s].gained EXCEPT ![u] = @ + gained]
  <2>1. replay \in [SessionIds -> Replay] /\ replay[s] \in Replay
    BY DEF TypeOK, RowsTyped
  <2>2. gains \in [Users -> Nat]
    BY <1>4, <2>1 DEF Replay
  <2>3. [replay EXCEPT ![s].gained[u] = @ + gained]
          = [replay EXCEPT ![s] = [replay[s] EXCEPT !.gained = gains]]
    BY <2>1 DEF Replay
  <2> HIDE DEF gains
  <2>4. [replay[s] EXCEPT !.gained = gains] \in Replay
    BY <2>1, <2>2 DEF Replay
  <2> QED
    BY <2>1, <2>3, <2>4 DEF SaveAnswer
<1>6. closed \in Game /\ closed.difficulty # "none"
  BY <1>3 DEF Game, Difficulties
<1> HIDE DEF closed, gained, rp
<1>7. CASE PauseThenAdvance(s, closed, CancelTimer(timers, g.timer), CloseRow(rp, s, g, ended))
  <2>1. CancelTimer(timers, g.timer) \in [TimerSlots -> Slot]
    BY TableType DEF TypeOK, MemoryTyped
  <2>2. CloseRow(rp, s, g, ended) \in [SessionIds -> Replay]
    BY <1>3, <1>5, CloseRowType
  <2>3. RowsTyped' /\ MemoryTyped'
    BY <1>6, <1>7, <2>1, <2>2, PauseThenAdvanceType
  <2> QED
    BY <1>1, <2>3 DEF TypeOK
<1>8. CASE /\ games' = Put(games, s, g)
           /\ replay' = rp
           /\ UNCHANGED <<room, session, stats, timers, nextTimer>>
  <2>1. g.difficulty # "none"
    BY <1>3 DEF Difficulties
  <2>2. MemoryTyped'
    BY <1>3, <1>8, <2>1 DEF Put, TypeOK, MemoryTyped
  <2> QED
    BY <1>1, <1>5, <1>8, <2>2 DEF TypeOK, RowsTyped
<1> QED
  BY <1>7, <1>8 DEF closed, gained, rp

\* handle_use_lifeline keeps types: the count stays within the limit.
LEMMA UseLifelineType ==
  ASSUME TypeOK, NEW u \in Users, NEW s \in SessionIds, UseLifeline(u, s)
  PROVE  TypeOK'
<1> DEFINE g == games[s]
           used == [g.lifelines EXCEPT ![u] = @ + 1]
<1>1. s \in DOMAIN games /\ g \in Game /\ g.difficulty # "none"
  BY DEF UseLifeline, TypeOK, MemoryTyped
<1>2. used \in [Users -> 0..MaxLifelines]
  <2>1. g.lifelines[u] < MaxLifelines /\ MaxLifelines \in Nat
    BY OneVNAssumption DEF UseLifeline, OneVNAssumption
  <2> QED
    BY <1>1, <2>1 DEF Game
<1>3. games' = [games EXCEPT ![s] = [g EXCEPT !.lifelines = used]]
  BY <1>1 DEF UseLifeline, Game
<1> HIDE DEF g, used
<1>4. [g EXCEPT !.lifelines = used] \in Game
      /\ [g EXCEPT !.lifelines = used].difficulty # "none"
  BY <1>1, <1>2 DEF Game
<1>5. MemoryTyped'
  BY <1>3, <1>4 DEF UseLifeline, TypeOK, MemoryTyped
<1> QED
  BY <1>5 DEF UseLifeline, dbVars, TypeOK, RowsTyped

\* The record after a timeout is typed.
LEMMA TimedOutType ==
  ASSUME NEW g \in Game
  PROVE  /\ TimedOut(g) \in Game
         /\ TimedOut(g).difficulty = g.difficulty
         /\ TimedOut(g).room = g.room
<1> DEFINE streak == [u \in Users |-> IF u \in Late(g) THEN 0 ELSE g.streak[u]]
           answered == [u \in Users |-> IF u \in Late(g) THEN g.round ELSE g.answered[u]]
<1>1. streak \in [Users -> Nat] /\ answered \in [Users -> Nat \cup {NotAnswered}]
  BY DEF Game
<1>2. TimedOut(g) = [g EXCEPT !.timer = NoTimer, !.rowOpen = FALSE,
                              !.streak = streak, !.answered = answered]
  BY DEF TimedOut
<1> HIDE DEF streak, answered
<1> QED
  BY <1>1, <1>2 DEF Game, NoTimer

\* round_timeout_callback keeps types.
LEMMA RoundTimeoutType ==
  ASSUME TypeOK, NEW i \in TimerSlots, RoundTimeout(i)
  PROVE  TypeOK'
<1> DEFINE s == timers[i].game
           g == games[s]
           table == CancelTimer(ReleaseSlot(timers, i), g.timer)
           late == TimedOut(g)
<1>1. s \in DOMAIN games /\ s \in SessionIds /\ nextSession' = nextSession
  BY DEF RoundTimeout, Due, TypeOK, MemoryTyped
<1>2. g \in Game /\ g.difficulty # "none"
  BY <1>1 DEF TypeOK, MemoryTyped
<1>3. table \in [TimerSlots -> Slot]
  BY TableType DEF TypeOK, MemoryTyped
<1>5. late \in Game /\ late.difficulty # "none"
  BY <1>2, TimedOutType
<1>6. /\ room \in [Rooms -> Room]
      /\ session \in [SessionIds -> Session]
  BY DEF TypeOK, RowsTyped
<1>7. PICK ended \in Outcomes("end_round") :
        \/ /\ games' = [games EXCEPT ![s].timer = NoTimer]
           /\ timers' = table
           /\ UNCHANGED <<room, session, replay, stats, nextTimer>>
        \/ EndGame(s, late, table, room, session, CloseRow(replay, s, g, ended))
        \/ PauseThenAdvance(s, late, table, CloseRow(replay, s, g, ended))
  BY DEF RoundTimeout
<1> DEFINE rp == CloseRow(replay, s, g, ended)
<1>4. rp \in [SessionIds -> Replay]
  <2> HIDE DEF s, g
  <2> QED
    BY <1>1, <1>2, CloseRowType DEF TypeOK, RowsTyped
<1>8. CASE /\ games' = [games EXCEPT ![s].timer = NoTimer]
           /\ timers' = table
           /\ UNCHANGED <<room, session, replay, stats, nextTimer>>
  <2>1. [g EXCEPT !.timer = NoTimer] \in Game
        /\ [g EXCEPT !.timer = NoTimer].difficulty # "none"
    <3> HIDE DEF g
    <3> QED
      BY <1>2 DEF Game, NoTimer
  <2>2. games' = [games EXCEPT ![s] = [g EXCEPT !.timer = NoTimer]]
    BY <1>8
  <2> HIDE DEF g, table, s
  <2>3. MemoryTyped'
    BY <1>3, <1>8, <2>1, <2>2 DEF TypeOK, MemoryTyped
  <2> QED
    BY <1>1, <1>8, <2>3 DEF TypeOK, RowsTyped
<1>11. \/ /\ games' = [games EXCEPT ![s].timer = NoTimer]
          /\ timers' = table
          /\ UNCHANGED <<room, session, replay, stats, nextTimer>>
       \/ EndGame(s, late, table, room, session, rp)
       \/ PauseThenAdvance(s, late, table, rp)
  BY <1>7
<1> HIDE DEF s, g, table, rp, late
<1>9. CASE EndGame(s, late, table, room, session, rp)
  BY <1>1, <1>3, <1>4, <1>5, <1>6, <1>9, EndGameType DEF TypeOK
<1>10. CASE PauseThenAdvance(s, late, table, rp)
  BY <1>1, <1>3, <1>4, <1>5, <1>10, PauseThenAdvanceType DEF TypeOK
<1> QED
  BY <1>8, <1>9, <1>10, <1>11

\* delayed_question_callback keeps types.
LEMMA DelayedQuestionType ==
  ASSUME TypeOK, NEW i \in TimerSlots, DelayedQuestion(i)
  PROVE  TypeOK'
<1> DEFINE s == timers[i].game
           g == [games[s] EXCEPT !.timer = NoTimer]
           table == ReleaseSlot(timers, i)
<1>1. s \in DOMAIN games /\ s \in SessionIds /\ nextSession' = nextSession
  BY DEF DelayedQuestion, Due, TypeOK, MemoryTyped
<1>2. games[s] \in Game
  BY <1>1 DEF TypeOK, MemoryTyped
<1>3. g \in Game
  BY <1>2 DEF Game, NoTimer
<1>4. table \in [TimerSlots -> Slot]
  BY TableType DEF TypeOK, MemoryTyped
<1>5. SendNextQuestion(s, g, table, room, session, replay)
  BY DEF DelayedQuestion
<1>6. /\ room \in [Rooms -> Room]
      /\ session \in [SessionIds -> Session]
      /\ replay \in [SessionIds -> Replay]
  BY DEF TypeOK, RowsTyped
<1> HIDE DEF s, g, table
<1> QED
  BY <1>1, <1>3, <1>4, <1>5, <1>6, SendNextQuestionType DEF TypeOK

\* A restart empties the memory, which is typed.
LEMMA EmptyMemoryType ==
  ASSUME NEW f, f = EmptyTable
  PROVE  f \in [TimerSlots -> Slot]
<1>1. FreeSlot \in Slot
  BY OneVNAssumption DEF FreeSlot, Slot, OneVNAssumption
<1> QED
  BY <1>1 DEF EmptyTable

LEMMA TypeInit == Init => TypeOK
<1> SUFFICES ASSUME Init PROVE TypeOK
  OBVIOUS
<1>1. RowsTyped
  <2>1. NoRoom \in Room
    BY DEF NoRoom, Room, RoomStatuses, NoConfig
  <2>2. NoSession \in Session
    BY DEF NoSession, Session
  <2>3. NoReplay \in Replay
    BY DEF NoReplay, Replay
  <2>4. [games |-> 0, wins |-> 0] \in [games : Nat, wins : Nat]
    OBVIOUS
  <2> QED
    BY <2>1, <2>2, <2>3, <2>4 DEF Init, RowsTyped
<1>2. MemoryTyped
  BY EmptyMemoryType DEF Init, MemoryTyped
<1> QED
  BY <1>1, <1>2, OneVNAssumption DEF Init, TypeOK, OneVNAssumption

LEMMA TypeStep == TypeOK /\ [Next]_vars => TypeOK'
<1> SUFFICES ASSUME TypeOK, [Next]_vars PROVE TypeOK'
  OBVIOUS
<1>1. CASE RoomRequest
  BY <1>1, RoomRequestType, LeaveDuringGameType, StartGameType DEF RoomRequest
<1>2. CASE GameRequest
  <2>1. ASSUME NEW u \in Users, NEW s \in SessionIds, SubmitAnswer(u, s, FALSE, 0)
        PROVE  TypeOK'
    <3>1. 0 \in 0..100
      OBVIOUS
    <3> QED
      BY <2>1, <3>1, SubmitAnswerType
  <2>2. ASSUME NEW u \in Users, NEW s \in SessionIds, NEW percent \in TimePercents,
               SubmitAnswer(u, s, TRUE, percent)
        PROVE  TypeOK'
    BY <2>2, SubmitAnswerType, OneVNAssumption DEF OneVNAssumption
  <2> QED
    BY <1>2, <2>1, <2>2, UseLifelineType DEF GameRequest
<1>3. CASE \E i \in TimerSlots : TimerFires(i)
  BY <1>3, RoundTimeoutType, DelayedQuestionType DEF TimerFires
<1>4. CASE Restart
  <2>1. MemoryTyped'
    BY <1>4, EmptyMemoryType DEF Restart, Restrict, MemoryTyped
  <2> QED
    BY <1>4, <2>1 DEF Restart, dbVars, TypeOK, RowsTyped
<1>5. CASE UNCHANGED vars
  BY <1>5 DEF vars, TypeOK, RowsTyped, MemoryTyped
<1> QED
  BY <1>1, <1>2, <1>3, <1>4, <1>5 DEF Next

\* Every reachable state has its types: rows, live games and timers.
THEOREM TypeCorrect == Spec => []TypeOK
BY TypeInit, TypeStep, PTL DEF Spec

-----------------------------------------------------------------------------
(* Timers and games.  A handler takes a game out of the table, works on its *)
(* record and puts it back: OwnedBut holds in between, for all other games. *)

\* No pending timer of the table works on game s, and those of the other
\* games are theirs.
OwnedBut(s, table) ==
  /\ \A i \in ActiveSlots(table) :
       /\ table[i].game \in DOMAIN games \ {s}
       /\ games[table[i].game].timer = table[i].id
       /\ table[i].id \in 1..(nextTimer - 1)
  /\ \A t \in DOMAIN games \ {s} : games[t].timer # NoTimer =>
       \E i \in ActiveSlots(table) : /\ table[i].game = t
                                     /\ table[i].id = games[t].timer
  /\ \A i, j \in ActiveSlots(table) : table[i].id = table[j].id => i = j

\* Nothing is cancelled for an identifier no pending timer has, in
\* particular for the timer_id -1 of a game without a timer.
LEMMA CancelNobody ==
  ASSUME NEW table \in [TimerSlots -> Slot], NEW id,
         \A i \in ActiveSlots(table) : table[i].id # id
  PROVE  CancelTimer(table, id) = table
BY DEF CancelTimer, ActiveSlots

\* Cancelling the timer_id of a game leaves no timer that works on the game.
LEMMA CancelOwn ==
  ASSUME TypeOK, TimerInv, NEW s \in DOMAIN games
  PROVE  OwnedBut(s, CancelTimer(timers, games[s].timer))
<1> DEFINE id == games[s].timer
           table == CancelTimer(timers, id)
<1>1. \A i \in TimerSlots : table[i] = timers[i] \/ table[i] = FreeSlot
  BY DEF CancelTimer
<1>2. \A i \in ActiveSlots(table) : i \in ActiveSlots(timers) /\ table[i] = timers[i]
  BY <1>1 DEF ActiveSlots, FreeSlot
<1>3. ASSUME NEW i \in ActiveSlots(timers), timers[i].id = id
      PROVE  table[i] = FreeSlot
  <2>1. id >= 0
    BY <1>3 DEF TimerInv, TimersNumbered, TypeOK, MemoryTyped
  <2>2. \A j \in TimerSlots : j < i => ~(timers[j].active /\ timers[j].id = id)
    BY <1>3, TimersAssumption DEF TimerInv, TimersNumbered, ActiveSlots, TimerSlots
  <2>3. i \in TimerSlots /\ timers[i].active
    BY DEF ActiveSlots
  <2> QED
    BY <1>3, <2>1, <2>2, <2>3 DEF CancelTimer
<1>4. \A i \in ActiveSlots(timers) : timers[i].id # id => table[i] = timers[i]
  BY DEF CancelTimer, ActiveSlots
<1>5. \A i \in ActiveSlots(table) : timers[i].id # id
  BY <1>2, <1>3 DEF ActiveSlots, FreeSlot
<1>6. \A i \in ActiveSlots(timers) : timers[i].id # id => i \in ActiveSlots(table)
  BY <1>4 DEF ActiveSlots
<1> HIDE DEF table
<1>7. \A i \in ActiveSlots(table) :
        /\ table[i].game \in DOMAIN games \ {s}
        /\ games[table[i].game].timer = table[i].id
        /\ table[i].id \in 1..(nextTimer - 1)
  BY <1>2, <1>5 DEF TimerInv, TimersOwned, TimersNumbered
<1>8. ASSUME NEW t \in DOMAIN games \ {s}, games[t].timer # NoTimer
      PROVE  \E i \in ActiveSlots(table) : /\ table[i].game = t
                                           /\ table[i].id = games[t].timer
  <2> PICK i \in ActiveSlots(timers) : timers[i].game = t /\ timers[i].id = games[t].timer
    BY <1>8 DEF TimerInv, TimersOwned
  <2>1. timers[i].id # id
    <3> SUFFICES ASSUME timers[i].id = id PROVE FALSE
      OBVIOUS
    <3>1. timers[i].id # NoTimer
      BY <1>8
    <3> PICK j \in ActiveSlots(timers) : timers[j].game = s /\ timers[j].id = id
      BY <3>1 DEF TimerInv, TimersOwned
    <3> QED
      BY DEF TimerInv, TimersNumbered
  <2> QED
    BY <1>4, <1>6, <2>1
<1>9. \A i, j \in ActiveSlots(table) : table[i].id = table[j].id => i = j
  BY <1>2 DEF TimerInv, TimersNumbered
<1> QED
  BY <1>7, <1>8, <1>9 DEF OwnedBut, table

\* Releasing a due slot leaves no timer that works on its game, and the
\* cancellation that follows finds nothing.
LEMMA ReleaseOwn ==
  ASSUME TypeOK, TimerInv, NEW i \in ActiveSlots(timers)
  PROVE  LET s == timers[i].game
         IN  /\ OwnedBut(s, ReleaseSlot(timers, i))
             /\ CancelTimer(ReleaseSlot(timers, i), games[s].timer) = ReleaseSlot(timers, i)
<1> DEFINE s == timers[i].game
           table == ReleaseSlot(timers, i)
<1>1. ActiveSlots(table) = ActiveSlots(timers) \ {i}
      /\ \A j \in ActiveSlots(table) : table[j] = timers[j]
  BY DEF ReleaseSlot, ActiveSlots, FreeSlot, TypeOK, MemoryTyped
<1>2. games[s].timer = timers[i].id
  BY DEF TimerInv, TimersOwned
<1>3. \A j \in ActiveSlots(table) : table[j].id # games[s].timer /\ table[j].game # s
  BY <1>1, <1>2 DEF TimerInv, TimersOwned, TimersNumbered
<1>4. table \in [TimerSlots -> Slot]
  BY TableType DEF ActiveSlots, TypeOK, MemoryTyped
<1> HIDE DEF table
<1>5. \A j \in ActiveSlots(table) :
        /\ table[j].game \in DOMAIN games \ {s}
        /\ games[table[j].game].timer = table[j].id
        /\ table[j].id \in 1..(nextTimer - 1)
  BY <1>1, <1>3 DEF TimerInv, TimersOwned, TimersNumbered
<1>6. ASSUME NEW t \in DOMAIN games \ {s}, games[t].timer # NoTimer
      PROVE  \E j \in ActiveSlots(table) : /\ table[j].game = t
                                           /\ table[j].id = games[t].timer
  BY <1>1, <1>6 DEF TimerInv, TimersOwned
<1>7. \A j, k \in ActiveSlots(table) : table[j].id = table[k].id => j = k
  BY <1>1 DEF TimerInv, TimersNumbered
<1>8. OwnedBut(s, table)
  BY <1>5, <1>6, <1>7 DEF OwnedBut
<1>9. CancelTimer(table, games[s].timer) = table
  BY <1>3, <1>4, CancelNobody
<1> QED
  BY <1>8, <1>9 DEF table

\* game_timer_create gives the game the timer it returns, and a number no
\* pending timer has.
LEMMA ArmTimerOwned ==
  ASSUME TypeOK, GamesNumbered', NEW s, NEW g \in Game,
         NEW table \in [TimerSlots -> Slot], NEW callback,
         OwnedBut(s, table), ArmTimer(s, g, table, callback)
  PROVE  TimerInv'
<1>1. ASSUME games' = Put(games, s, [g EXCEPT !.timer = NoTimer]),
             timers' = table, nextTimer' = nextTimer
      PROVE  TimersOwned' /\ TimersNumbered'
  <2>1. games'[s].timer = NoTimer
    BY <1>1 DEF Put, Game
  <2>2. /\ DOMAIN games' = DOMAIN games \cup {s}
        /\ \A t \in DOMAIN games \ {s} : games'[t] = games[t]
    BY <1>1 DEF Put
  <2> QED
    BY <1>1, <2>1, <2>2 DEF OwnedBut, TimersOwned, TimersNumbered
<1>2. ASSUME NEW i \in TimerSlots, IsFirstFree(table, i),
             games' = Put(games, s, [g EXCEPT !.timer = nextTimer]),
             timers' = CreateTimer(table, i, nextTimer, callback, s),
             nextTimer' = nextTimer + 1
      PROVE  TimersOwned' /\ TimersNumbered'
  <2>1. games'[s].timer = nextTimer /\ nextTimer \in Nat \ {0}
    BY <1>2 DEF Put, Game, TypeOK, MemoryTyped
  <2>2. /\ DOMAIN games' = DOMAIN games \cup {s}
        /\ \A t \in DOMAIN games \ {s} : games'[t] = games[t]
    BY <1>2 DEF Put
  <2>3. i \notin ActiveSlots(table)
    BY <1>2 DEF IsFirstFree, FreeSlots
  <2>4. /\ timers'[i].active /\ timers'[i].game = s /\ timers'[i].id = nextTimer
        /\ \A j \in TimerSlots \ {i} : timers'[j] = table[j]
    BY <1>2 DEF CreateTimer
  <2>5. ActiveSlots(timers') = ActiveSlots(table) \cup {i}
    BY <2>4 DEF ActiveSlots
  <2>6. \A j \in ActiveSlots(table) : timers'[j] = table[j]
    BY <2>3, <2>4 DEF ActiveSlots
  <2>7. \A j \in ActiveSlots(table) : table[j].id \in 1..(nextTimer - 1)
    BY DEF OwnedBut
  <2>8. TimersNumbered'
    <3>1. \A j \in ActiveSlots(timers') : timers'[j].id \in 1..(nextTimer' - 1)
      BY <1>2, <2>1, <2>4, <2>5, <2>6, <2>7
    <3>2. \A j, k \in ActiveSlots(timers') : timers'[j].id = timers'[k].id => j = k
      BY <2>1, <2>4, <2>5, <2>6, <2>7 DEF OwnedBut
    <3> QED
      BY <3>1, <3>2 DEF TimersNumbered
  <2>9. ASSUME NEW j \in ActiveSlots(timers')
        PROVE  /\ timers'[j].game \in DOMAIN games'
               /\ games'[timers'[j].game].timer = timers'[j].id
    BY <2>1, <2>2, <2>4, <2>5, <2>6 DEF OwnedBut
  <2>10. ASSUME NEW t \in DOMAIN games', games'[t].timer # NoTimer
         PROVE  \E j \in ActiveSlots(timers') : /\ timers'[j].game = t
                                                /\ timers'[j].id = games'[t].timer
    <3>1. CASE t = s
      BY <2>1, <2>4, <2>5, <3>1
    <3>2. CASE t # s
      BY <2>2, <2>5, <2>6, <2>10, <3>2 DEF OwnedBut
    <3> QED
      BY <3>1, <3>2
  <2> QED
    BY <2>8, <2>9, <2>10 DEF TimersOwned
<1> QED
  BY <1>1, <1>2 DEF ArmTimer, TimerInv

\* end_game leaves the timers of the other games to them.
LEMMA EndGameOwned ==
  ASSUME TypeOK, GamesNumbered', NEW s, NEW g, g.timer = NoTimer,
         NEW table \in [TimerSlots -> Slot], NEW rooms, NEW sessions, NEW rp,
         OwnedBut(s, table), EndGame(s, g, table, rooms, sessions, rp)
  PROVE  TimerInv'
<1>1. \A i \in ActiveSlots(table) : table[i].id # NoTimer
  BY DEF OwnedBut, NoTimer, TypeOK, MemoryTyped
<1>2. timers' = table
  BY <1>1, CancelNobody DEF EndGame
<1>3. /\ DOMAIN games' = DOMAIN games \ {s}
      /\ \A t \in DOMAIN games \ {s} : games'[t] = games[t]
      /\ nextTimer' = nextTimer
  BY DEF EndGame, Restrict
<1> QED
  BY <1>2, <1>3 DEF OwnedBut, TimerInv, TimersOwned, TimersNumbered

\* Opening a round gives the game the only timer that works on it.
LEMMA AskQuestionOwned ==
  ASSUME TypeOK, GamesNumbered', NEW s, NEW g \in Game, g.timer = NoTimer,
         g.difficulty \in Difficulties,
         NEW table \in [TimerSlots -> Slot], NEW rooms, NEW sessions, NEW rp,
         OwnedBut(s, table), AskQuestion(s, g, table, rooms, sessions, rp)
  PROVE  TimerInv'
<1>1. \A i \in ActiveSlots(table) : table[i].id # NoTimer
  BY DEF OwnedBut, NoTimer, TypeOK, MemoryTyped
<1>2. CancelTimer(table, g.timer) = table
  BY <1>1, CancelNobody
<1> PICK stored \in Outcomes("create_round") : ArmTimer(s, Asked(g, stored), table, "round_timeout")
  BY <1>2 DEF AskQuestion
<1>3. Asked(g, stored) \in Game
  BY AskedType DEF Outcomes
<1> QED
  BY <1>3, ArmTimerOwned

\* send_next_question keeps timers and games together.
LEMMA SendNextQuestionOwned ==
  ASSUME TypeOK, GamesNumbered', NEW s, NEW g \in Game, g.timer = NoTimer,
         NEW table \in [TimerSlots -> Slot], NEW rooms, NEW sessions, NEW rp,
         OwnedBut(s, table), SendNextQuestion(s, g, table, rooms, sessions, rp)
  PROVE  TimerInv'
<1>1. \/ EndGame(s, g, table, rooms, sessions, rp)
      \/ AskQuestion(s, NextRound(g), table, rooms, sessions, rp)
      \/ EndGame(s, NextRound(g), table, rooms, sessions, rp)
  BY DEF SendNextQuestion
<1>2. NextRound(g) \in Game /\ NextRound(g).timer = NoTimer
      /\ NextRound(g).difficulty \in Difficulties
  BY NextRoundType
<1> QED
  BY <1>1, <1>2, EndGameOwned, AskQuestionOwned

\* The end of a round keeps timers and games together.
LEMMA PauseThenAdvanceOwned ==
  ASSUME TypeOK, GamesNumbered', NEW s, NEW g \in Game, g.timer = NoTimer,
         NEW table \in [TimerSlots -> Slot], NEW rp,
         OwnedBut(s, table), PauseThenAdvance(s, g, table, rp)
  PROVE  TimerInv'
<1> DEFINE idle == [g EXCEPT !.timer = NoTimer]
<1>1. idle \in Game /\ idle.timer = NoTimer
  BY DEF Game
<1>2. \/ SendNextQuestion(s, idle, table, room, session, rp)
      \/ ArmTimer(s, g, table, "delayed_question")
  BY DEF PauseThenAdvance
<1> HIDE DEF idle
<1> QED
  BY <1>1, <1>2, ArmTimerOwned, SendNextQuestionOwned

\* The parts of handlers add no other game than the one they work on.
LEMMA NoOtherGame ==
  ASSUME NEW s, NEW g, NEW table, NEW rooms, NEW sessions, NEW rp
  PROVE  /\ EndGame(s, g, table, rooms, sessions, rp)
              => DOMAIN games' \subseteq DOMAIN games \cup {s}
         /\ SendNextQuestion(s, g, table, rooms, sessions, rp)
              => DOMAIN games' \subseteq DOMAIN games \cup {s}
         /\ PauseThenAdvance(s, g, table, rp)
              => DOMAIN games' \subseteq DOMAIN games \cup {s}
<1>1. ASSUME NEW h, EndGame(s, h, table, rooms, sessions, rp)
      PROVE  DOMAIN games' \subseteq DOMAIN games \cup {s}
  BY <1>1 DEF EndGame, Restrict
<1>2. ASSUME NEW h, NEW slots, NEW callback, ArmTimer(s, h, slots, callback)
      PROVE  DOMAIN games' \subseteq DOMAIN games \cup {s}
  BY <1>2 DEF ArmTimer, Put
<1>3. ASSUME NEW h, NEW rs, NEW ss, SendNextQuestion(s, h, table, rs, ss, rp)
      PROVE  DOMAIN games' \subseteq DOMAIN games \cup {s}
  <2>1. ASSUME NEW k, EndGame(s, k, table, rs, ss, rp)
        PROVE  DOMAIN games' \subseteq DOMAIN games \cup {s}
    BY <2>1 DEF EndGame, Restrict
  <2>2. ASSUME AskQuestion(s, NextRound(h), table, rs, ss, rp)
        PROVE  DOMAIN games' \subseteq DOMAIN games \cup {s}
    BY <1>2, <2>2 DEF AskQuestion
  <2> QED
    BY <1>3, <2>1, <2>2 DEF SendNextQuestion
<1> QED
  BY <1>1, <1>2, <1>3 DEF PauseThenAdvance

\* No step brings back a session_id: only START_GAME adds a game, under the
\* number it takes from the identity column.
LEMMA GamesNumberedStep ==
  ASSUME TypeOK, GamesNumbered, [Next]_vars
  PROVE  GamesNumbered'
<1>1. ASSUME DOMAIN games' \subseteq DOMAIN games, nextSession' = nextSession
      PROVE  GamesNumbered'
  BY <1>1 DEF GamesNumbered
<1>2. ASSUME NEW u \in Users, NEW r \in Rooms, StartGame(u, r)
      PROVE  GamesNumbered'
  <2>1. DOMAIN games' \subseteq DOMAIN games \cup {nextSession}
    BY <1>2, NoOtherGame DEF StartGame, memVars
  <2>2. nextSession' = nextSession + 1
    BY <1>2 DEF StartGame
  <2>3. nextSession \in Nat /\ DOMAIN games \subseteq Nat
    BY DEF TypeOK, MemoryTyped, SessionIds
  <2> QED
    BY <2>1, <2>2, <2>3 DEF GamesNumbered
<1>3. CASE RoomRequest
  <2>1. ASSUME NEW u \in Users, NEW r \in Rooms,
               \/ \E c \in Configs : CreateRoom(u, r, c)
               \/ JoinRoom(u, r) \/ LeaveRoom(u, r) \/ StartRefused(u, r)
        PROVE  GamesNumbered'
    BY <1>1, <2>1 DEF CreateRoom, JoinRoom, LeaveRoom, StartRefused, memVars
  <2>2. ASSUME NEW u \in Users, NEW r \in Rooms, LeaveDuringGame(u, r)
        PROVE  GamesNumbered'
    BY <1>1, <2>2 DEF LeaveDuringGame, PlayerEliminated
  <2> QED
    BY <1>2, <1>3, <2>1, <2>2 DEF RoomRequest
<1>4. CASE GameRequest
  <2>1. ASSUME NEW u \in Users, NEW s \in SessionIds, NEW correct, NEW percent,
               SubmitAnswer(u, s, correct, percent)
        PROVE  GamesNumbered'
    <3>1. nextSession' = nextSession /\ s \in DOMAIN games
      BY <2>1 DEF SubmitAnswer
    <3>2. DOMAIN games' \subseteq DOMAIN games \cup {s}
      BY <2>1, NoOtherGame DEF SubmitAnswer, Put
    <3> QED
      BY <1>1, <3>1, <3>2
  <2>2. ASSUME NEW u \in Users, NEW s \in SessionIds, UseLifeline(u, s)
        PROVE  GamesNumbered'
    BY <1>1, <2>2 DEF UseLifeline, dbVars
  <2> QED
    BY <1>4, <2>1, <2>2 DEF GameRequest
<1>5. ASSUME NEW i \in TimerSlots, TimerFires(i) PROVE GamesNumbered'
  <2>1. nextSession' = nextSession /\ timers[i].game \in DOMAIN games
    BY <1>5 DEF TimerFires, RoundTimeout, DelayedQuestion, Due
  <2>2. DOMAIN games' \subseteq DOMAIN games \cup {timers[i].game}
    BY <1>5, NoOtherGame DEF TimerFires, RoundTimeout, DelayedQuestion
  <2> QED
    BY <1>1, <2>1, <2>2
<1>6. CASE Restart
  BY <1>1, <1>6 DEF Restart, Restrict, dbVars
<1>7. CASE UNCHANGED vars
  BY <1>1, <1>7 DEF vars
<1> QED
  BY <1>3, <1>4, <1>5, <1>6, <1>7 DEF Next

\* A step that changes neither timers nor the timer_id of a game.
LEMMA SameTimers ==
  ASSUME TimerInv, GamesNumbered', UNCHANGED <<timers, nextTimer>>,
         DOMAIN games' = DOMAIN games,
         \A s \in DOMAIN games : games'[s].timer = games[s].timer
  PROVE  TimerInv'
BY DEF TimerInv, TimersOwned, TimersNumbered

\* Room requests: only START_GAME creates a timer, for a number no pending
\* timer works on.
LEMMA RoomRequestOwned ==
  ASSUME TypeOK, TimerInv, GamesNumbered', RoomRequest
  PROVE  TimerInv'
<1>1. ASSUME NEW u \in Users, NEW r \in Rooms,
             \/ \E c \in Configs : CreateRoom(u, r, c)
             \/ JoinRoom(u, r) \/ LeaveRoom(u, r) \/ StartRefused(u, r)
      PROVE  TimerInv'
  BY <1>1, SameTimers DEF CreateRoom, JoinRoom, LeaveRoom, StartRefused, memVars
<1>2. ASSUME NEW u \in Users, NEW r \in Rooms, LeaveDuringGame(u, r)
      PROVE  TimerInv'
  <2>1. ASSUME NEW s \in DOMAIN games
        PROVE  games'[s].timer = games[s].timer
    <3>1. games[s] \in Game
      BY DEF TypeOK, MemoryTyped
    <3>2. [games[s] EXCEPT !.eliminated = @ \cup {u}].timer = games[s].timer
      BY <3>1 DEF Game
    <3> QED
      BY <1>2, <3>2 DEF LeaveDuringGame, PlayerEliminated
  <2> QED
    BY <1>2, <2>1, SameTimers DEF LeaveDuringGame, PlayerEliminated
<1>3. ASSUME NEW u \in Users, NEW r \in Rooms, StartGame(u, r)
      PROVE  TimerInv'
  <2> DEFINE s == nextSession
             g == NewGame(r, StartConfig(r), FirstMembers(room[r].members))
             rooms == SetRoomStatus([room EXCEPT ![r].config = StartConfig(r)],
                                    r, "IN_PROGRESS")
             sessions == [session EXCEPT ![s] = [room |-> r, status |-> "IN_PROGRESS",
                                                 winner |-> NoUser]]
  <2>1. g \in Game /\ g.timer = NoTimer
    <3>1. StartConfig(r) \in [Difficulties -> Int]
      BY OneVNAssumption DEF OneVNAssumption, StartConfig, Room, TypeOK, RowsTyped
    <3>2. FirstMembers(room[r].members) \in SUBSET Users
      BY DEF FirstMembers, Room, TypeOK, RowsTyped
    <3>3. g \in Game
      BY <3>1, <3>2, NewGameType
    <3>4. g.timer = NoTimer
      BY DEF NewGame
    <3> QED
      BY <3>3, <3>4
  <2>2. s \notin DOMAIN games
    BY DEF TimerInv, GamesNumbered, TypeOK
  <2>3. OwnedBut(s, timers)
    BY <2>2 DEF OwnedBut, TimerInv, TimersOwned, TimersNumbered
  <2>4. timers \in [TimerSlots -> Slot]
    BY DEF TypeOK, MemoryTyped
  <2>5. \/ SendNextQuestion(s, g, timers, rooms, sessions, replay)
        \/ UNCHANGED memVars
    BY <1>3 DEF StartGame
  <2> HIDE DEF g, rooms, sessions
  <2>6. CASE SendNextQuestion(s, g, timers, rooms, sessions, replay)
    BY <2>1, <2>3, <2>4, <2>6, SendNextQuestionOwned
  <2>7. CASE UNCHANGED memVars
    BY <2>7, SameTimers DEF memVars
  <2> QED
    BY <2>5, <2>6, <2>7
<1> QED
  BY <1>1, <1>2, <1>3 DEF RoomRequest

\* Game requests: the answer that closes a round cancels the timer of the
\* round before the pause gets its own.
LEMMA GameRequestOwned ==
  ASSUME TypeOK, TimerInv, GamesNumbered', GameRequest
  PROVE  TimerInv'
<1>1. ASSUME NEW u \in Users, NEW s \in SessionIds,
             NEW correct \in BOOLEAN, NEW percent \in 0..100,
             SubmitAnswer(u, s, correct, percent)
      PROVE  TimerInv'
  <2> DEFINE g == Answered(games[s], u, correct, percent)
             closed == [g EXCEPT !.timer = NoTimer, !.rowOpen = FALSE]
             table == CancelTimer(timers, g.timer)
  <2>1. s \in DOMAIN games /\ games[s] \in Game /\ games[s].difficulty \in Difficulties
    BY <1>1 DEF SubmitAnswer, TypeOK, MemoryTyped, Game
  <2>2. g \in Game
    BY <2>1, AnsweredType
  <2>3. g.timer = games[s].timer
    BY <2>1 DEF Answered, Game
  <2>4. \/ \E rp : PauseThenAdvance(s, closed, table, rp)
        \/ games' = Put(games, s, g) /\ UNCHANGED <<timers, nextTimer>>
    BY <1>1 DEF SubmitAnswer
  <2>5. closed \in Game /\ closed.timer = NoTimer
    <3> HIDE DEF g
    <3> QED
      BY <2>2 DEF Game, NoTimer
  <2>6. OwnedBut(s, table)
    BY <2>1, <2>3, CancelOwn
  <2>7. table \in [TimerSlots -> Slot]
    BY TableType DEF TypeOK, MemoryTyped
  <2> HIDE DEF g, closed, table
  <2>8. ASSUME NEW rp, PauseThenAdvance(s, closed, table, rp) PROVE TimerInv'
    BY <2>5, <2>6, <2>7, <2>8, PauseThenAdvanceOwned
  <2>9. CASE games' = Put(games, s, g) /\ UNCHANGED <<timers, nextTimer>>
    BY <2>1, <2>3, <2>9, SameTimers DEF Put
  <2> QED
    BY <2>4, <2>8, <2>9
<1>2. ASSUME NEW u \in Users, NEW s \in SessionIds, UseLifeline(u, s)
      PROVE  TimerInv'
  <2>1. s \in DOMAIN games /\ games[s] \in Game
    BY <1>2 DEF UseLifeline, TypeOK, MemoryTyped
  <2>2. [games[s] EXCEPT !.lifelines[u] = @ + 1].timer = games[s].timer
    BY <2>1 DEF Game
  <2>3. games' = [games EXCEPT ![s] = [games[s] EXCEPT !.lifelines[u] = @ + 1]]
    BY <1>2 DEF UseLifeline
  <2> QED
    BY <1>2, <2>1, <2>2, <2>3, SameTimers DEF UseLifeline
<1>3. 0 \in 0..100 /\ TimePercents \subseteq 0..100
  BY OneVNAssumption DEF OneVNAssumption
<1> QED
  BY <1>1, <1>2, <1>3 DEF GameRequest

\* Timer callbacks: the due slot is free before the callback creates another.
LEMMA TimerFiresOwned ==
  ASSUME TypeOK, TimerInv, GamesNumbered', NEW i \in TimerSlots, TimerFires(i)
  PROVE  TimerInv'
<1> DEFINE s == timers[i].game
           g == games[s]
           freed == ReleaseSlot(timers, i)
<1>1. i \in ActiveSlots(timers) /\ s \in DOMAIN games /\ g \in Game
  BY DEF TimerFires, RoundTimeout, DelayedQuestion, Due, ActiveSlots, TypeOK, MemoryTyped
<1>2. OwnedBut(s, freed) /\ CancelTimer(freed, g.timer) = freed
  BY <1>1, ReleaseOwn
<1>3. freed \in [TimerSlots -> Slot]
  BY TableType DEF TypeOK, MemoryTyped
<1>4. CASE RoundTimeout(i)
  <2>1. TimedOut(g) \in Game /\ TimedOut(g).timer = NoTimer
    <3>1. TimedOut(g) \in Game
      BY <1>1, TimedOutType
    <3> HIDE DEF g
    <3>2. TimedOut(g).timer = NoTimer
      BY <1>1 DEF TimedOut, Game
    <3> QED
      BY <3>1, <3>2
  <2>2. \/ /\ games' = [games EXCEPT ![s].timer = NoTimer]
           /\ timers' = freed
           /\ nextTimer' = nextTimer
        \/ \E rp : EndGame(s, TimedOut(g), freed, room, session, rp)
        \/ \E rp : PauseThenAdvance(s, TimedOut(g), freed, rp)
    BY <1>2, <1>4 DEF RoundTimeout
  <2>3. CASE /\ games' = [games EXCEPT ![s].timer = NoTimer]
             /\ timers' = freed
             /\ nextTimer' = nextTimer
    <3>1. games'[s].timer = NoTimer
      <4>1. [g EXCEPT !.timer = NoTimer].timer = NoTimer
        BY <1>1 DEF Game
      <4> QED
        BY <1>1, <2>3, <4>1
    <3>2. /\ DOMAIN games' = DOMAIN games
          /\ \A t \in DOMAIN games \ {s} : games'[t] = games[t]
      BY <2>3
    <3> HIDE DEF freed, g, s
    <3> QED
      BY <1>1, <1>2, <2>3, <3>1, <3>2
      DEF OwnedBut, TimerInv, TimersOwned, TimersNumbered
  <2> HIDE DEF s, g, freed
  <2>4. ASSUME NEW rp, EndGame(s, TimedOut(g), freed, room, session, rp)
        PROVE  TimerInv'
    BY <1>2, <1>3, <2>1, <2>4, EndGameOwned
  <2>5. ASSUME NEW rp, PauseThenAdvance(s, TimedOut(g), freed, rp)
        PROVE  TimerInv'
    BY <1>2, <1>3, <2>1, <2>5, PauseThenAdvanceOwned
  <2> QED
    BY <2>2, <2>3, <2>4, <2>5
<1>5. CASE DelayedQuestion(i)
  <2> DEFINE idle == [g EXCEPT !.timer = NoTimer]
  <2>1. idle \in Game /\ idle.timer = NoTimer
    <3> HIDE DEF g
    <3> QED
      BY <1>1 DEF Game, NoTimer
  <2>2. SendNextQuestion(s, idle, freed, room, session, replay)
    BY <1>5 DEF DelayedQuestion
  <2> HIDE DEF s, g, freed, idle
  <2> QED
    BY <1>2, <1>3, <2>1, <2>2, SendNextQuestionOwned
<1> QED
  BY <1>4, <1>5 DEF TimerFires

\* Timers and games belong together in every reachable state: a callback
\* never works on a game that is gone, and cancelling by timer_id never hits
\* the timer of another game.
THEOREM TimersAndGames == Spec => []TimerInv
<1>1. Init => TimerInv
  BY DEF Init, TimerInv, TimersOwned, TimersNumbered, GamesNumbered, ActiveSlots,
         EmptyTable, FreeSlot
<1>2. TypeOK /\ TimerInv /\ [Next]_vars => TimerInv'
  <2> SUFFICES ASSUME TypeOK, TimerInv, [Next]_vars PROVE TimerInv'
    OBVIOUS
  <2>1. GamesNumbered'
    BY GamesNumberedStep DEF TimerInv
  <2>2. CASE RoomRequest
    BY <2>1, <2>2, RoomRequestOwned
  <2>3. CASE GameRequest
    BY <2>1, <2>3, GameRequestOwned
  <2>4. CASE \E i \in TimerSlots : TimerFires(i)
    BY <2>1, <2>4, TimerFiresOwned
  <2>5. CASE Restart
    BY <2>1, <2>5 DEF Restart, Restrict, EmptyTable, FreeSlot, ActiveSlots, TimerInv,
                      TimersOwned, TimersNumbered
  <2>6. CASE UNCHANGED vars
    BY <2>1, <2>6, SameTimers DEF vars
  <2> QED
    BY <2>2, <2>3, <2>4, <2>5, <2>6 DEF Next
<1> QED
  BY <1>1, <1>2, TypeCorrect, PTL DEF Spec

\* Every pending timer belongs to a live game that knows it, and back.
THEOREM TimersOwnedAlways == Spec => []TimersOwned
<1>1. TimerInv => TimersOwned
  BY DEF TimerInv
<1> QED
  BY <1>1, TimersAndGames, PTL

-----------------------------------------------------------------------------
(* Live games and rows.  While a handler works on game s of room r, the     *)
(* rows match the other games, and those of s say that it is in progress.   *)

RowsBut(s, r, rooms, sessions) ==
  /\ \A t \in DOMAIN games \ {s} : /\ sessions[t].status = "IN_PROGRESS"
                                   /\ sessions[t].room = games[t].room
                                   /\ rooms[games[t].room].status = "IN_PROGRESS"
  /\ sessions[s].status = "IN_PROGRESS"
  /\ sessions[s].room = r
  /\ rooms[r].status = "IN_PROGRESS"
  /\ \A t, q \in SessionIds : /\ sessions[t].status = "IN_PROGRESS"
                              /\ sessions[q].status = "IN_PROGRESS"
                              /\ sessions[t].room = sessions[q].room
                              => t = q
  /\ \A t \in SessionIds : t >= nextSession' => sessions[t].status = "NONE"

\* A game put back under its room keeps games and rows together.
LEMMA PutBack ==
  ASSUME TypeOK, NEW s \in SessionIds, NEW g, NEW r \in Rooms, g.room = r,
         RowsBut(s, r, room', session'), games' = Put(games, s, g)
  PROVE  DatabaseInv'
<1>1. OneActiveSession' /\ SessionsNumbered'
  BY DEF RowsBut, OneActiveSession, SessionsNumbered
<1>2. /\ DOMAIN games' = DOMAIN games \cup {s}
      /\ games'[s] = g
      /\ \A t \in DOMAIN games \ {s} : games'[t] = games[t]
  BY DEF Put
<1>3. DOMAIN games' \subseteq SessionIds
  BY <1>2 DEF TypeOK, MemoryTyped
<1>4. \A t \in DOMAIN games' : /\ session'[t].status = "IN_PROGRESS"
                               /\ session'[t].room = games'[t].room
                               /\ room'[games'[t].room].status = "IN_PROGRESS"
  BY <1>2 DEF RowsBut
<1> HIDE DEF RowsBut
<1>5. GamesMatchDatabase'
  BY <1>1, <1>3, <1>4 DEF GamesMatchDatabase, OneActiveSession
<1> QED
  BY <1>1, <1>5 DEF DatabaseInv

\* end_game closes the rows of its game and of no other.
LEMMA EndGameRows ==
  ASSUME TypeOK, NEW s \in SessionIds, NEW g \in Game, NEW table,
         NEW rooms \in [Rooms -> Room], NEW sessions \in [SessionIds -> Session], NEW rp,
         RowsBut(s, g.room, rooms, sessions),
         EndGame(s, g, table, rooms, sessions, rp)
  PROVE  DatabaseInv'
<1> PICK w \in Winners(g) : session' = SessionEnded(sessions, s, w)
  BY DEF EndGame
<1>1. room' = SetRoomStatus(rooms, g.room, "FINISHED")
  BY DEF EndGame
<1>2. /\ DOMAIN games' = DOMAIN games \ {s}
      /\ \A t \in DOMAIN games \ {s} : games'[t] = games[t]
  BY DEF EndGame, Restrict
<1>3. /\ session'[s].status \in {"FINISHED", "ABORTED"}
      /\ \A t \in SessionIds \ {s} : session'[t] = sessions[t]
  BY DEF SessionEnded
<1>4. \A q \in Rooms \ {g.room} : room'[q] = rooms[q]
  BY <1>1 DEF SetRoomStatus
<1>5. DOMAIN games \subseteq SessionIds /\ \A t \in DOMAIN games : games[t].room \in Rooms
  BY DEF TypeOK, MemoryTyped, Game
<1>6. \A t \in DOMAIN games \ {s} : games[t].room # g.room
  BY <1>5 DEF RowsBut
<1>7. OneActiveSession' /\ SessionsNumbered'
  <2>1. SessionsNumbered'
    BY <1>3 DEF RowsBut, SessionsNumbered
  <2>2. OneActiveSession'
    BY <1>3 DEF RowsBut, OneActiveSession
  <2> QED
    BY <2>1, <2>2
<1>8. \A t \in DOMAIN games' : /\ session'[t].status = "IN_PROGRESS"
                               /\ session'[t].room = games'[t].room
                               /\ room'[games'[t].room].status = "IN_PROGRESS"
  BY <1>2, <1>3, <1>4, <1>5, <1>6 DEF RowsBut
<1>9. GamesMatchDatabase'
  BY <1>2, <1>5, <1>7, <1>8 DEF GamesMatchDatabase, OneActiveSession
<1> QED
  BY <1>7, <1>9 DEF DatabaseInv

\* send_next_question.
LEMMA SendNextQuestionRows ==
  ASSUME TypeOK, NEW s \in SessionIds, NEW g \in Game, NEW table,
         NEW rooms \in [Rooms -> Room], NEW sessions \in [SessionIds -> Session], NEW rp,
         RowsBut(s, g.room, rooms, sessions),
         SendNextQuestion(s, g, table, rooms, sessions, rp)
  PROVE  DatabaseInv'
<1> DEFINE next == NextRound(g)
<1>1. next \in Game /\ next.room = g.room /\ next.difficulty \in Difficulties
  BY NextRoundType
<1>2. \/ EndGame(s, g, table, rooms, sessions, rp)
      \/ AskQuestion(s, next, table, rooms, sessions, rp)
      \/ EndGame(s, next, table, rooms, sessions, rp)
  BY DEF SendNextQuestion
<1> HIDE DEF next
<1>3. CASE AskQuestion(s, next, table, rooms, sessions, rp)
  <2> PICK stored \in Outcomes("create_round") :
        ArmTimer(s, Asked(next, stored), CancelTimer(table, next.timer), "round_timeout")
    BY <1>3 DEF AskQuestion
  <2> DEFINE asked == Asked(next, stored)
  <2>1. asked \in Game /\ asked.room = g.room /\ g.room \in Rooms
    <3>1. stored \in BOOLEAN
      BY DEF Outcomes
    <3>2. g.room \in Rooms
      BY DEF Game
    <3> QED
      BY <1>1, <3>1, <3>2, AskedType
  <2>2. room' = rooms /\ session' = sessions
    BY <1>3 DEF AskQuestion
  <2>3. \E id : games' = Put(games, s, [asked EXCEPT !.timer = id])
    BY DEF ArmTimer
  <2> HIDE DEF asked
  <2>4. \A id : [asked EXCEPT !.timer = id].room = g.room
    BY <2>1 DEF Game
  <2> QED
    BY <2>1, <2>2, <2>3, <2>4, PutBack
<1> QED
  BY <1>1, <1>2, <1>3, EndGameRows

\* The end of a round.
LEMMA PauseThenAdvanceRows ==
  ASSUME TypeOK, NEW s \in SessionIds, NEW g \in Game, NEW table, NEW rp,
         RowsBut(s, g.room, room, session), PauseThenAdvance(s, g, table, rp)
  PROVE  DatabaseInv'
<1> DEFINE idle == [g EXCEPT !.timer = NoTimer]
<1>1. idle \in Game /\ idle.room = g.room /\ g.room \in Rooms
  BY DEF Game
<1>2. room \in [Rooms -> Room] /\ session \in [SessionIds -> Session]
  BY DEF TypeOK, RowsTyped
<1>3. \/ SendNextQuestion(s, idle, table, room, session, rp)
      \/ /\ ArmTimer(s, g, table, "delayed_question")
         /\ UNCHANGED <<room, session>>
  BY DEF PauseThenAdvance
<1> HIDE DEF idle
<1>4. CASE SendNextQuestion(s, idle, table, room, session, rp)
  BY <1>1, <1>2, <1>4, SendNextQuestionRows
<1>5. CASE ArmTimer(s, g, table, "delayed_question") /\ UNCHANGED <<room, session>>
  <2>1. \E id : games' = Put(games, s, [g EXCEPT !.timer = id])
    BY <1>5 DEF ArmTimer
  <2>2. \A id : [g EXCEPT !.timer = id].room = g.room
    BY DEF Game
  <2> QED
    BY <1>1, <1>5, <2>1, <2>2, PutBack
<1> QED
  BY <1>3, <1>4, <1>5

\* A step that leaves session rows, live games and the rooms in progress.
LEMMA SameRows ==
  ASSUME DatabaseInv, UNCHANGED <<session, nextSession>>,
         DOMAIN games' \subseteq DOMAIN games,
         \A s \in DOMAIN games' : /\ games'[s].room = games[s].room
                                  /\ room[games[s].room].status = "IN_PROGRESS"
                                     => room'[games[s].room].status = "IN_PROGRESS"
  PROVE  DatabaseInv'
<1>1. OneActiveSession' /\ SessionsNumbered'
  BY DEF DatabaseInv, OneActiveSession, SessionsNumbered
<1>2. ASSUME NEW s \in DOMAIN games'
      PROVE  /\ session'[s].status = "IN_PROGRESS"
             /\ session'[s].room = games'[s].room
             /\ room'[games'[s].room].status = "IN_PROGRESS"
  BY DEF DatabaseInv, GamesMatchDatabase
<1>3. ASSUME NEW s \in DOMAIN games', NEW t \in DOMAIN games',
             games'[t].room = games'[s].room
      PROVE  t = s
  BY <1>3 DEF DatabaseInv, GamesMatchDatabase
<1> QED
  BY <1>1, <1>2, <1>3 DEF DatabaseInv, GamesMatchDatabase

\* Room requests: a room in progress keeps its status until its game ends.
LEMMA RoomRequestRows ==
  ASSUME TypeOK, DatabaseInv, RoomRequest
  PROVE  DatabaseInv'
<1>1. ASSUME NEW u \in Users, NEW r \in Rooms,
             \/ \E c \in Configs : CreateRoom(u, r, c)
             \/ JoinRoom(u, r) \/ LeaveRoom(u, r) \/ StartRefused(u, r)
      PROVE  DatabaseInv'
  <2>1. UNCHANGED <<session, nextSession, games>>
    BY <1>1 DEF CreateRoom, JoinRoom, LeaveRoom, StartRefused, memVars
  <2>2. ASSUME NEW q \in Rooms, room[q].status = "IN_PROGRESS"
        PROVE  room'[q].status = "IN_PROGRESS"
    <3>1. room \in [Rooms -> Room]
      BY DEF TypeOK, RowsTyped
    <3>2. ASSUME NEW c, CreateRoom(u, r, c) PROVE room'[q].status = "IN_PROGRESS"
      BY <2>2, <3>1, <3>2 DEF CreateRoom, RoomCreated
    <3>3. ASSUME JoinRoom(u, r) PROVE room'[q].status = "IN_PROGRESS"
      BY <2>2, <3>1, <3>3 DEF JoinRoom, MemberAdded, Room
    <3>4. ASSUME LeaveRoom(u, r) PROVE room'[q].status = "IN_PROGRESS"
      <4>1. q # r
        BY <2>2, <3>4 DEF LeaveRoom
      <4> QED
        BY <2>2, <3>1, <3>4, <4>1 DEF LeaveRoom, RoomDeleted, MemberRemoved
    <3>5. ASSUME StartRefused(u, r) PROVE room'[q].status = "IN_PROGRESS"
      BY <2>2, <3>1, <3>5 DEF StartRefused, Room
    <3> QED
      BY <1>1, <3>2, <3>3, <3>4, <3>5
  <2>3. \A s \in DOMAIN games : games[s].room \in Rooms
    BY DEF TypeOK, MemoryTyped, Game
  <2> QED
    BY <2>1, <2>2, <2>3, SameRows
<1>2. ASSUME NEW u \in Users, NEW r \in Rooms, LeaveDuringGame(u, r)
      PROVE  DatabaseInv'
  <2>1. ASSUME NEW s \in DOMAIN games
        PROVE  games'[s].room = games[s].room /\ games[s].room \in Rooms
    <3>1. games[s] \in Game
      BY DEF TypeOK, MemoryTyped
    <3>2. [games[s] EXCEPT !.eliminated = @ \cup {u}].room = games[s].room
      BY <3>1 DEF Game
    <3> QED
      BY <1>2, <3>1, <3>2 DEF LeaveDuringGame, PlayerEliminated, Game
  <2>2. \A q \in Rooms : room'[q].status = room[q].status
    BY <1>2 DEF LeaveDuringGame, MemberEliminated, Room, TypeOK, RowsTyped
  <2>3. DOMAIN games' = DOMAIN games
    BY <1>2 DEF LeaveDuringGame, PlayerEliminated
  <2> QED
    BY <1>2, <2>1, <2>2, <2>3, SameRows DEF LeaveDuringGame
<1>3. ASSUME NEW u \in Users, NEW r \in Rooms, StartGame(u, r)
      PROVE  DatabaseInv'
  <2> DEFINE s == nextSession
             g == NewGame(r, StartConfig(r), FirstMembers(room[r].members))
             rooms == SetRoomStatus([room EXCEPT ![r].config = StartConfig(r)],
                                    r, "IN_PROGRESS")
             sessions == [session EXCEPT ![s] = [room |-> r, status |-> "IN_PROGRESS",
                                                 winner |-> NoUser]]
  <2>1. /\ s \in SessionIds
        /\ nextSession' = s + 1
        /\ room[r].status \in Existing
        /\ ~HasActiveSession(r)
    BY <1>3 DEF StartGame
  <2>2. StartConfig(r) \in [Difficulties -> Int] /\ room \in [Rooms -> Room]
    BY OneVNAssumption DEF OneVNAssumption, StartConfig, Room, TypeOK, RowsTyped
  <2>3. g \in Game /\ g.room = r
    <3>1. FirstMembers(room[r].members) \in SUBSET Users
      BY DEF FirstMembers, Room, TypeOK, RowsTyped
    <3> QED
      BY <2>2, <3>1, NewGameType DEF NewGame
  <2>4. /\ rooms \in [Rooms -> Room]
        /\ rooms[r].status = "IN_PROGRESS"
        /\ \A q \in Rooms \ {r} : rooms[q] = room[q]
    <3> DEFINE configured == [room EXCEPT ![r].config = StartConfig(r)]
    <3>1. /\ configured \in [Rooms -> Room]
          /\ configured[r].status = room[r].status
          /\ \A q \in Rooms \ {r} : configured[q] = room[q]
      BY <2>2 DEF Room
    <3> HIDE DEF configured
    <3>2. SetRoomStatus(configured, r, "IN_PROGRESS") \in [Rooms -> Room]
      BY <3>1, SetRoomStatusType DEF RoomStatuses
    <3>3. SetRoomStatus(configured, r, "IN_PROGRESS")
            = [configured EXCEPT ![r].status = "IN_PROGRESS"]
      BY <2>1, <3>1 DEF SetRoomStatus
    <3>4. [configured EXCEPT ![r].status = "IN_PROGRESS"][r].status = "IN_PROGRESS"
      BY <3>1 DEF Room
    <3> QED
      BY <3>1, <3>2, <3>3, <3>4 DEF configured
  <2>5. /\ sessions \in [SessionIds -> Session]
        /\ sessions[s].room = r /\ sessions[s].status = "IN_PROGRESS"
        /\ \A t \in SessionIds \ {s} : sessions[t] = session[t]
    BY <2>1 DEF Session, TypeOK, RowsTyped
  <2>6. \/ SendNextQuestion(s, g, timers, rooms, sessions, replay)
        \/ room' = rooms /\ session' = sessions /\ UNCHANGED games
    BY <1>3 DEF StartGame, memVars
  <2> HIDE DEF s, g, rooms, sessions
  <2>7. s \notin DOMAIN games
    BY <2>1 DEF s, DatabaseInv, GamesMatchDatabase, SessionsNumbered, TypeOK, MemoryTyped,
                SessionIds
  <2>8. ASSUME NEW t \in DOMAIN games
        PROVE  /\ sessions[t].status = "IN_PROGRESS"
               /\ sessions[t].room = games[t].room
               /\ games[t].room \in Rooms \ {r}
               /\ rooms[games[t].room].status = "IN_PROGRESS"
    <3>1. t \in SessionIds \ {s} /\ games[t].room \in Rooms
      BY <2>7 DEF TypeOK, MemoryTyped, Game
    <3>2. games[t].room # r
      BY <2>1, <3>1 DEF HasActiveSession, DatabaseInv, GamesMatchDatabase
    <3> QED
      BY <2>4, <2>5, <3>1, <3>2 DEF DatabaseInv, GamesMatchDatabase
  <2>9. ASSUME NEW t \in SessionIds, NEW q \in SessionIds,
               sessions[t].status = "IN_PROGRESS", sessions[q].status = "IN_PROGRESS",
               sessions[t].room = sessions[q].room
        PROVE  t = q
    BY <2>1, <2>5, <2>9 DEF HasActiveSession, DatabaseInv, OneActiveSession
  <2>10. ASSUME NEW t \in SessionIds, t >= nextSession'
         PROVE  sessions[t].status = "NONE"
    <3>1. t # s /\ t >= nextSession
      BY <2>1, <2>10 DEF s, SessionIds
    <3> QED
      BY <2>5, <3>1 DEF DatabaseInv, SessionsNumbered
  <2>11. RowsBut(s, g.room, rooms, sessions)
    BY <2>3, <2>4, <2>5, <2>8, <2>9, <2>10 DEF RowsBut
  <2>12. CASE SendNextQuestion(s, g, timers, rooms, sessions, replay)
    BY <2>1, <2>3, <2>4, <2>5, <2>11, <2>12, SendNextQuestionRows
  <2>13. CASE room' = rooms /\ session' = sessions /\ UNCHANGED games
    <3>1. OneActiveSession' /\ SessionsNumbered'
      BY <2>9, <2>10, <2>13 DEF OneActiveSession, SessionsNumbered
    <3>2. GamesMatchDatabase'
      BY <2>8, <2>13 DEF DatabaseInv, GamesMatchDatabase
    <3> QED
      BY <3>1, <3>2 DEF DatabaseInv
  <2> QED
    BY <2>6, <2>12, <2>13
<1> QED
  BY <1>1, <1>2, <1>3 DEF RoomRequest

\* The rows of a live game while a handler of the game is at work.
LEMMA RowsOfGame ==
  ASSUME TypeOK, DatabaseInv, NEW s \in DOMAIN games, nextSession' = nextSession
  PROVE  RowsBut(s, games[s].room, room, session)
BY DEF RowsBut, DatabaseInv, GamesMatchDatabase, OneActiveSession, SessionsNumbered

\* Game requests.
LEMMA GameRequestRows ==
  ASSUME TypeOK, DatabaseInv, GameRequest
  PROVE  DatabaseInv'
<1>1. ASSUME NEW u \in Users, NEW s \in SessionIds,
             NEW correct \in BOOLEAN, NEW percent \in 0..100,
             SubmitAnswer(u, s, correct, percent)
      PROVE  DatabaseInv'
  <2> DEFINE g == Answered(games[s], u, correct, percent)
             closed == [g EXCEPT !.timer = NoTimer, !.rowOpen = FALSE]
  <2>1. /\ s \in DOMAIN games /\ games[s] \in Game
        /\ games[s].difficulty \in Difficulties
        /\ nextSession' = nextSession
    BY <1>1 DEF SubmitAnswer, TypeOK, MemoryTyped, Game
  <2>2. g \in Game /\ g.room = games[s].room
    BY <2>1, AnsweredType
  <2>3. \/ \E table, rp : PauseThenAdvance(s, closed, table, rp)
        \/ games' = Put(games, s, g) /\ UNCHANGED <<room, session>>
    BY <1>1 DEF SubmitAnswer
  <2> HIDE DEF g
  <2>4. closed \in Game /\ closed.room = games[s].room
    BY <2>2 DEF Game, NoTimer
  <2>5. RowsBut(s, games[s].room, room, session)
    BY <2>1, RowsOfGame
  <2> HIDE DEF closed
  <2>6. ASSUME NEW table, NEW rp, PauseThenAdvance(s, closed, table, rp)
        PROVE  DatabaseInv'
    BY <2>4, <2>5, <2>6, PauseThenAdvanceRows
  <2>7. CASE games' = Put(games, s, g) /\ UNCHANGED <<room, session>>
    <3>1. g.room \in Rooms
      BY <2>2 DEF Game
    <3>2. RowsBut(s, games[s].room, room', session')
      BY <2>5, <2>7
    <3> QED
      BY <2>2, <2>7, <3>1, <3>2, PutBack
  <2> QED
    BY <2>3, <2>6, <2>7
<1>2. ASSUME NEW u \in Users, NEW s \in SessionIds, UseLifeline(u, s)
      PROVE  DatabaseInv'
  <2>1. s \in DOMAIN games /\ games[s] \in Game
    BY <1>2 DEF UseLifeline, TypeOK, MemoryTyped
  <2>2. [games[s] EXCEPT !.lifelines[u] = @ + 1].room = games[s].room
    BY <2>1 DEF Game
  <2>3. games' = [games EXCEPT ![s] = [games[s] EXCEPT !.lifelines[u] = @ + 1]]
    BY <1>2 DEF UseLifeline
  <2>4. \A t \in DOMAIN games : games'[t].room = games[t].room
    BY <2>1, <2>2, <2>3
  <2> QED
    BY <1>2, <2>3, <2>4, SameRows DEF UseLifeline, dbVars
<1>3. 0 \in 0..100 /\ TimePercents \subseteq 0..100
  BY OneVNAssumption DEF OneVNAssumption
<1> QED
  BY <1>1, <1>2, <1>3 DEF GameRequest

\* Timer callbacks.
LEMMA TimerFiresRows ==
  ASSUME TypeOK, DatabaseInv, NEW i \in TimerSlots, TimerFires(i)
  PROVE  DatabaseInv'
<1> DEFINE s == timers[i].game
           g == games[s]
<1>1. s \in DOMAIN games /\ s \in SessionIds /\ g \in Game /\ nextSession' = nextSession
  BY DEF TimerFires, RoundTimeout, DelayedQuestion, Due, TypeOK, MemoryTyped
<1>2. RowsBut(s, g.room, room, session)
  BY <1>1, RowsOfGame
<1>3. room \in [Rooms -> Room] /\ session \in [SessionIds -> Session]
  BY DEF TypeOK, RowsTyped
<1>4. CASE RoundTimeout(i)
  <2>1. TimedOut(g) \in Game /\ TimedOut(g).room = g.room
    BY <1>1, TimedOutType
  <2>2. \/ games' = [games EXCEPT ![s].timer = NoTimer] /\ UNCHANGED <<room, session>>
        \/ \E table, rp : EndGame(s, TimedOut(g), table, room, session, rp)
        \/ \E table, rp : PauseThenAdvance(s, TimedOut(g), table, rp)
    BY <1>4 DEF RoundTimeout
  <2>3. CASE games' = [games EXCEPT ![s].timer = NoTimer] /\ UNCHANGED <<room, session>>
    <3>1. [g EXCEPT !.timer = NoTimer].room = g.room
      <4> HIDE DEF g
      <4> QED
        BY <1>1 DEF Game
    <3>2. \A t \in DOMAIN games : games'[t].room = games[t].room
      BY <1>1, <2>3, <3>1
    <3> QED
      BY <1>1, <2>3, <3>2, SameRows
  <2> HIDE DEF s, g
  <2>4. ASSUME NEW table, NEW rp, EndGame(s, TimedOut(g), table, room, session, rp)
        PROVE  DatabaseInv'
    BY <1>1, <1>2, <1>3, <2>1, <2>4, EndGameRows
  <2>5. ASSUME NEW table, NEW rp, PauseThenAdvance(s, TimedOut(g), table, rp)
        PROVE  DatabaseInv'
    BY <1>1, <1>2, <2>1, <2>5, PauseThenAdvanceRows
  <2> QED
    BY <2>2, <2>3, <2>4, <2>5
<1>5. CASE DelayedQuestion(i)
  <2> DEFINE idle == [g EXCEPT !.timer = NoTimer]
             table == ReleaseSlot(timers, i)
  <2>1. idle \in Game /\ idle.room = g.room
    <3> HIDE DEF g
    <3> QED
      BY <1>1 DEF Game, NoTimer
  <2>2. SendNextQuestion(s, idle, table, room, session, replay)
    BY <1>5 DEF DelayedQuestion
  <2> HIDE DEF s, g, idle, table
  <2> QED
    BY <1>1, <1>2, <1>3, <2>1, <2>2, SendNextQuestionRows
<1> QED
  BY <1>4, <1>5 DEF TimerFires

\* Live games and rows agree in every reachable state, also after restarts
\* and after a start that found the table of games full.
THEOREM GamesAndRows == Spec => []DatabaseInv
<1>1. Init => DatabaseInv
  BY DEF Init, DatabaseInv, GamesMatchDatabase, OneActiveSession, SessionsNumbered, NoSession
<1>2. TypeOK /\ DatabaseInv /\ [Next]_vars => DatabaseInv'
  <2> SUFFICES ASSUME TypeOK, DatabaseInv, [Next]_vars PROVE DatabaseInv'
    OBVIOUS
  <2>1. CASE RoomRequest
    BY <2>1, RoomRequestRows
  <2>2. CASE GameRequest
    BY <2>2, GameRequestRows
  <2>3. CASE \E i \in TimerSlots : TimerFires(i)
    BY <2>3, TimerFiresRows
  <2>4. CASE Restart
    BY <2>4, SameRows DEF Restart, Restrict, dbVars
  <2>5. CASE UNCHANGED vars
    BY <2>5, SameRows DEF vars
  <2> QED
    BY <2>1, <2>2, <2>3, <2>4, <2>5 DEF Next
<1> QED
  BY <1>1, <1>2, TypeCorrect, PTL DEF Spec

\* A live game is the only one of its room, and its rows are in progress.
THEOREM GamesMatchDatabaseAlways == Spec => []GamesMatchDatabase
<1>1. DatabaseInv => GamesMatchDatabase
  BY DEF DatabaseInv
<1> QED
  BY <1>1, GamesAndRows, PTL
=============================================================================
