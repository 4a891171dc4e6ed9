----------------------------- MODULE OneVN -----------------------------
(***************************************************************************)
(* The 1vN game engine of the server: service/onevn_service.c with the     *)
(* room requests of service/dispatcher.c that feed it, the callback timers *)
(* of utils/timer.c and the database rows it reads and writes.             *)
(*                                                                         *)
(* The server is one thread (server.c): a request handler or a timer       *)
(* callback runs to its end before the next one starts, so each is one     *)
(* action.  Requests of different players and timers that become due       *)
(* interleave in every order.                                              *)
(*                                                                         *)
(* Request handlers that answer with an error and change nothing are       *)
(* stuttering steps and have no action.  The sessions of the connected     *)
(* clients (who receives which message) belong to another module.          *)
(***************************************************************************)
EXTENDS CallbackTimers, FiniteSets, Functions

CONSTANTS
  Users,          \* user_id of the players, ordered as the database orders them
  Rooms,          \* room_id values
  Configs,        \* question counts a room can be created with
  DefaultConfig,  \* 5/5/5 in the code
  TimePercents,   \* share of the 15 seconds left at an answer, clamped to 0..100
  MaxPlayers,     \* 32, the members handle_start_game reads
  MaxLifelines,   \* 2, the 50:50 lifelines of a player in a game
  MaxGames,       \* MAX_GAMES, the entries of game_states
  MaxSessions,    \* bound of the model: onevn_sessions rows ever created
  MayFail         \* the database statements that may fail

Difficulties == {"EASY", "MEDIUM", "HARD"}

\* The writes of dao_rooms.c and dao_onevn.c that can fail and leave a handler's work
\* half done; the other writes succeed, or their handler has changed nothing yet.
Statements == {"join_of_owner", "delete_room", "mark_eliminated",
               "create_round", "save_player_answer", "end_round"}

ASSUME OneVNAssumption ==
  /\ Users \subseteq Nat \ {0}
  /\ Rooms \subseteq Nat \ {0}
  /\ Configs \subseteq [Difficulties -> Int]
  /\ DefaultConfig \in [Difficulties -> Int]
  /\ TimePercents \subseteq 0..100
  /\ {MaxPlayers, MaxLifelines, MaxGames, MaxSessions} \subseteq Nat
  /\ MayFail \subseteq Statements

VARIABLES
  room,         \* rows of room and room_members
  session,      \* rows of onevn_sessions
  nextSession,  \* next session_id of the identity column
  replay,       \* per session, its rows of onevn_rounds and onevn_player_answers
  stats,        \* users.onevn_games and users.onevn_wins
  games,        \* game_states: the live games, by session_id
  timers,       \* callback_timers
  nextTimer     \* next_timer_id

dbVars == <<room, session, nextSession, replay, stats>>
memVars == <<games, timers, nextTimer>>
vars == <<room, session, nextSession, replay, stats, games, timers, nextTimer>>

-----------------------------------------------------------------------------
(* Rows and records *)

SessionIds == 1..MaxSessions
NoUser == 0             \* winner_id when there is no winner
NotAnswered == -1       \* player_answered_round of a player yet to answer

\* "NONE" is a row not inserted yet, "DELETED" one that is gone for good.
\* The code reads the status STARTING but never writes it.
RoomStatuses == {"NONE", "WAITING", "IN_PROGRESS", "FINISHED", "DELETED"}
Existing == {"WAITING", "IN_PROGRESS", "FINISHED"}

NoConfig == [d \in Difficulties |-> 0]

\* gone: members whose row is flagged eliminated.  unflagged is a history of the
\* model: the members whom a failed statement has left without the flag.
Room == [status : RoomStatuses, owner : Users \cup {NoUser},
         config : [Difficulties -> Int],
         members : SUBSET Users, gone : SUBSET Users, unflagged : SUBSET Users]

Session == [room : Rooms \cup {0},
            status : {"NONE", "IN_PROGRESS", "FINISHED", "ABORTED"},
            winner : Users \cup {NoUser}]

\* rounds: rows of onevn_rounds, open: those without ended_at, gained: the
\* sum of score_gained over a player's rows of onevn_player_answers.  unended is
\* a history of the model: the rows whose closing statement has failed.
Replay == [rounds : SUBSET Nat, open : SUBSET Nat, unended : SUBSET Nat,
           gained : [Users -> Nat]]

Game == [room : Rooms, config : [Difficulties -> Int], done : [Difficulties -> Nat],
         round : Nat, difficulty : Difficulties \cup {"none"},
         players : SUBSET Users, eliminated : SUBSET Users,
         score : [Users -> Nat], streak : [Users -> Nat],
         answered : [Users -> Nat \cup {NotAnswered}],
         lifelines : [Users -> 0..MaxLifelines],
         timer : Nat \cup {NoTimer},
         rowOpen : BOOLEAN]    \* current_round_id > 0

NoRoom == [status |-> "NONE", owner |-> NoUser, config |-> NoConfig,
           members |-> {}, gone |-> {}, unflagged |-> {}]
NoSession == [room |-> 0, status |-> "NONE", winner |-> NoUser]
NoReplay == [rounds |-> {}, open |-> {}, unended |-> {}, gained |-> [u \in Users |-> 0]]

-----------------------------------------------------------------------------
(* Helpers of the engine *)

\* Whether a statement succeeds.
Outcomes(statement) == IF statement \in MayFail THEN BOOLEAN ELSE {TRUE}

Total(config) == config["EASY"] + config["MEDIUM"] + config["HARD"]

Put(f, x, v) == [y \in DOMAIN f \cup {x} |-> IF y = x THEN v ELSE f[y]]

BaseScore == [d \in Difficulties |-> CASE d = "EASY"   -> 1000
                                       [] d = "MEDIUM" -> 1500
                                       [] d = "HARD"   -> 2000]

StreakBonus(streak) == IF streak >= 5 THEN 500
                       ELSE IF streak = 4 THEN 200
                       ELSE IF streak = 3 THEN 100 ELSE 0

CalculateScore(difficulty, percent, streak) ==
  (BaseScore[difficulty] * percent) \div 100 + StreakBonus(streak)

\* Seeded fault: a count below zero never runs out.
NextDifficultyNotEqual(g) == IF g.done["EASY"] # g.config["EASY"] THEN "EASY"
                             ELSE IF g.done["MEDIUM"] # g.config["MEDIUM"] THEN "MEDIUM"
                             ELSE "HARD"

\* Easy questions first, then medium, then hard.
NextDifficulty(g) == IF g.done["EASY"] < g.config["EASY"] THEN "EASY"
                     ELSE IF g.done["MEDIUM"] < g.config["MEDIUM"] THEN "MEDIUM"
                     ELSE "HARD"

QuestionsLeft(g) == Total(g.config) - Total(g.done)

Active(g) == g.players \ g.eliminated

Late(g) == {u \in Active(g) : g.answered[u] # g.round}

\* Seeded fault: nobody asks whether rounds are left.
WinnersAnyRound(g) ==
  {u \in g.players : \A v \in g.players \ {u} :
     g.score[v] < g.score[u] \/ (g.score[v] = g.score[u] /\ u < v)}

\* The winner: the first player in player order with the highest score,
\* eliminated or not; nobody when rounds are left.
Winners(g) ==
  IF g.round >= Total(g.config)
  THEN {u \in g.players : \A v \in g.players \ {u} :
          g.score[v] < g.score[u] \/ (g.score[v] = g.score[u] /\ u < v)}
  ELSE {NoUser}

\* The first MaxPlayers members in user_id order.
FirstMembers(members) ==
  {u \in members : Cardinality({v \in members : v < u}) < MaxPlayers}

NewGame(r, config, players) ==
  [room |-> r, config |-> config, done |-> [d \in Difficulties |-> 0],
   round |-> 0, difficulty |-> "none", players |-> players, eliminated |-> {},
   score |-> [u \in Users |-> 0], streak |-> [u \in Users |-> 0],
   answered |-> [u \in Users |-> NotAnswered],
   lifelines |-> [u \in Users |-> 0], timer |-> NoTimer, rowOpen |-> FALSE]

\* The game get_game_state_by_room finds: the oldest one of the room.
IsGameOfRoom(s, r) == /\ s \in DOMAIN games
                      /\ games[s].room = r
                      /\ \A t \in DOMAIN games : games[t].room = r => s <= t

\* UPDATE room SET status: no effect on a row that does not exist.
SetRoomStatus(rooms, r, status) ==
  IF rooms[r].status \in Existing THEN [rooms EXCEPT ![r].status = status] ELSE rooms

\* Seeded fault: the row of the round stays open.
CloseRowForgotten(rp, s, g, ended) == rp

\* dao_onevn_end_round for the current round row, when there is one.  A
\* statement that fails is only warned of: the game forgets the row all the same.
CloseRow(rp, s, g, ended) ==
  IF ~g.rowOpen THEN rp
  ELSE IF ended THEN [rp EXCEPT ![s].open = @ \ {g.round}]
  ELSE [rp EXCEPT ![s].unended = @ \cup {g.round}]

\* Seeded fault: the row is looked up by its room.
SessionEndedByRoom(sessions, s, winner) ==
  [t \in SessionIds |-> IF sessions[t].room = sessions[s].room
                        THEN [sessions[t] EXCEPT !.status = "FINISHED", !.winner = winner]
                        ELSE sessions[t]]

\* dao_onevn_end_session.
SessionEnded(sessions, s, winner) ==
  [sessions EXCEPT ![s] = [room |-> @.room, winner |-> winner,
                           status |-> IF winner # NoUser THEN "FINISHED" ELSE "ABORTED"]]

\* Seeded fault: every player with the highest score has won.
GameCountedForBest(g, winner) ==
  [u \in Users |-> IF u \in g.players
                   THEN [games |-> stats[u].games + 1,
                         wins |-> stats[u].wins
                           + (IF \A v \in g.players : g.score[v] <= g.score[u] THEN 1 ELSE 0)]
                   ELSE stats[u]]

\* dao_stats_update_onevn_game: one game more for every player, one win more
\* for the winner.
GameCounted(g, winner) ==
  [u \in Users |-> IF u \in g.players
                   THEN [games |-> stats[u].games + 1,
                         wins |-> stats[u].wins + (IF u = winner THEN 1 ELSE 0)]
                   ELSE stats[u]]

-----------------------------------------------------------------------------
(* Parts of handlers.  g is the game record, table the timer table, rooms,  *)
(* sessions and rp the rows, all as the handler has left them so far.       *)

\* game_timer_create and the assignment to timer_id.
ArmTimer(s, g, table, callback) ==
  \/ /\ FreeSlots(table) = {}
     /\ games' = Put(games, s, [g EXCEPT !.timer = NoTimer])
     /\ timers' = table
     /\ UNCHANGED nextTimer
  \/ \E i \in TimerSlots :
       /\ IsFirstFree(table, i)
       /\ games' = Put(games, s, [g EXCEPT !.timer = nextTimer])
       /\ timers' = CreateTimer(table, i, nextTimer, callback, s)
       /\ nextTimer' = nextTimer + 1

\* end_game: cancel the timer, close the session and the room in the
\* database, count the game for every player and drop the record.
EndGame(s, g, table, rooms, sessions, rp) ==
  \E w \in Winners(g) :
    /\ timers' = CancelTimer(table, g.timer)
    /\ session' = SessionEnded(sessions, s, w)
    /\ room' = SetRoomStatus(rooms, g.room, "FINISHED")
    /\ stats' = GameCounted(g, w)
    /\ games' = Restrict(games, DOMAIN games \ {s})
    /\ replay' = rp
    /\ UNCHANGED nextTimer

\* The record with a new question: the answers of the last one are forgotten.
Asked(g, stored) ==
  [g EXCEPT !.done[g.difficulty] = @ + 1,
            !.answered = [u \in Users |-> NotAnswered],
            !.rowOpen = stored \/ @]

\* A question was found: open the round and give the players 15 seconds.
AskQuestion(s, g, table, rooms, sessions, rp) ==
  \E stored \in Outcomes("create_round") :
    /\ ArmTimer(s, Asked(g, stored), CancelTimer(table, g.timer), "round_timeout")
    /\ replay' = IF stored
                 THEN [rp EXCEPT ![s].rounds = @ \cup {g.round},
                                 ![s].open = @ \cup {g.round}]
                 ELSE rp
    /\ room' = rooms
    /\ session' = sessions
    /\ UNCHANGED stats

\* The record of the next round: counted, and its difficulty chosen.
NextRound(g) == [g EXCEPT !.round = @ + 1, !.difficulty = NextDifficulty(g)]

\* send_next_question.  The round is counted before a question is fetched,
\* and the fetch fails when the database does or when 100 draws gave only
\* questions already used: either may happen at any time.
SendNextQuestion(s, g, table, rooms, sessions, rp) ==
  IF g.round >= Total(g.config) \/ QuestionsLeft(g) = 0
  THEN EndGame(s, g, table, rooms, sessions, rp)
  ELSE \/ AskQuestion(s, NextRound(g), table, rooms, sessions, rp)
       \/ EndGame(s, NextRound(g), table, rooms, sessions, rp)

\* The 3 second pause after a round.  Without a free timer the next
\* question goes out at once (check_game_end is what SendNextQuestion
\* begins with).
PauseThenAdvance(s, g, table, rp) ==
  IF FreeSlots(table) = {}
  THEN SendNextQuestion(s, [g EXCEPT !.timer = NoTimer], table, room, session, rp)
  ELSE /\ ArmTimer(s, g, table, "delayed_question")
       /\ replay' = rp
       /\ UNCHANGED <<room, session, stats>>

-----------------------------------------------------------------------------
(* Room requests, and the writes of dao_rooms.c they are made of *)

\* dao_rooms_create_with_config: the room and the member row of its owner.
\* Without the second the client is refused, but the room is there.
RoomCreated(rooms, r, u, config, joined) ==
  [rooms EXCEPT ![r] = [status |-> "WAITING", owner |-> u, config |-> config,
                        members |-> IF joined THEN {u} ELSE {},
                        gone |-> {}, unflagged |-> {}]]

\* Seeded fault: a member row that is there already is written anew.
MemberAddedAnew(rooms, r, u) ==
  [rooms EXCEPT ![r].members = @ \cup {u}, ![r].gone = @ \ {u}]

\* dao_rooms_join: a member row that is there already stays as it is.
MemberAdded(rooms, r, u) == [rooms EXCEPT ![r].members = @ \cup {u}]

\* dao_rooms_leave.
MemberRemoved(rooms, r, u) ==
  LET row == rooms[r]
  IN  [rooms EXCEPT ![r] = [row EXCEPT !.members = @ \ {u}, !.gone = @ \ {u},
                                       !.unflagged = @ \ {u}]]

\* dao_rooms_delete: the member rows, then the room.  When the second statement
\* fails the room stays, without members.
RoomDeleted(rooms, r, whole) ==
  IF whole THEN [rooms EXCEPT ![r] = [NoRoom EXCEPT !.status = "DELETED"]]
  ELSE [rooms EXCEPT ![r] = [@ EXCEPT !.members = {}, !.gone = {}, !.unflagged = {}]]

\* dao_rooms_mark_eliminated, whose result nobody looks at.
MemberEliminated(rooms, r, u, flagged) ==
  LET row == rooms[r]
      flag == {u} \cap row.members
  IN  [rooms EXCEPT ![r] =
         IF flagged THEN [row EXCEPT !.gone = @ \cup flag, !.unflagged = @ \ flag]
         ELSE [row EXCEPT !.unflagged = @ \cup (flag \ row.gone)]]

\* onevn_eliminate_player_by_room.
PlayerEliminated(r, u) ==
  [s \in DOMAIN games |-> IF IsGameOfRoom(s, r) /\ u \in games[s].players
                          THEN [games[s] EXCEPT !.eliminated = @ \cup {u}]
                          ELSE games[s]]

\* CREATE_ROOM; the CHECK constraint of the table bounds the question count.
CreateRoom(u, r, config) ==
  /\ \A q \in Rooms : room[q].status = "NONE" => r <= q
  /\ room[r].status = "NONE"
  /\ Total(config) <= 30
  /\ \E joined \in Outcomes("join_of_owner") :
       room' = RoomCreated(room, r, u, config, joined)
  /\ UNCHANGED <<session, nextSession, replay, stats, memVars>>

\* JOIN_ROOM, whatever the state of the room.
JoinRoom(u, r) ==
  /\ room[r].status \in Existing
  /\ room' = MemberAdded(room, r, u)
  /\ UNCHANGED <<session, nextSession, replay, stats, memVars>>

\* LEAVE_ROOM while the room is IN_PROGRESS: the player is eliminated in the
\* game and flagged in the member row, which stays.
LeaveDuringGame(u, r) ==
  /\ room[r].status = "IN_PROGRESS"
  /\ games' = PlayerEliminated(r, u)
  /\ \E flagged \in Outcomes("mark_eliminated") :
       room' = MemberEliminated(room, r, u, flagged)
  /\ UNCHANGED <<session, nextSession, replay, stats, timers, nextTimer>>

\* Seeded fault: the status of the room is not asked.
LeaveRoomAnyStatus(u, r) ==
  /\ room[r].status \in Existing
  /\ IF room[r].owner = u
     THEN \E whole \in Outcomes("delete_room") : room' = RoomDeleted(room, r, whole)
     ELSE room' = MemberRemoved(room, r, u)
  /\ UNCHANGED <<session, nextSession, replay, stats, memVars>>

\* LEAVE_ROOM by the owner of a WAITING room deletes the room; any other
\* leave deletes the member row.
LeaveRoom(u, r) ==
  /\ room[r].status \in {"WAITING", "FINISHED"}
  /\ IF room[r].owner = u /\ room[r].status = "WAITING"
     THEN \E whole \in Outcomes("delete_room") : room' = RoomDeleted(room, r, whole)
     ELSE room' = MemberRemoved(room, r, u)
  /\ UNCHANGED <<session, nextSession, replay, stats, memVars>>

-----------------------------------------------------------------------------
(* Game requests *)

StartConfig(r) == IF room[r].config = NoConfig THEN DefaultConfig ELSE room[r].config

\* Seeded fault: no unique index.
NeverActive(r) == FALSE

\* A room has at most one IN_PROGRESS session: the unique index of the table.
HasActiveSession(r) ==
  \E s \in SessionIds : session[s].room = r /\ session[s].status = "IN_PROGRESS"

\* START_GAME refused with too few players or CREATE_SESSION_FAILED: the
\* default configuration has been written all the same.
StartRefused(u, r) ==
  /\ room[r].status \in Existing
  /\ room[r].owner = u
  /\ Cardinality(FirstMembers(room[r].members)) < 2 \/ HasActiveSession(r)
  /\ room' = [room EXCEPT ![r].config = StartConfig(r)]
  /\ UNCHANGED <<session, nextSession, replay, stats, memVars>>

\* init_game_state: calloc refuses a count below zero, which total_rounds + 10 is
\* for a room that asks for a lot less than nothing.
CanInitGame(config) == Total(config) + 10 >= 0

\* START_GAME.  Session row and room status are written before the game is found
\* impossible (INIT_GAME_FAILED) or the table of games full; they are not taken back.
StartGame(u, r) ==
  /\ room[r].status \in Existing
  /\ room[r].owner = u
  /\ nextSession \in SessionIds
  /\ ~HasActiveSession(r)
  /\ LET players == FirstMembers(room[r].members)
         s == nextSession
         rooms == SetRoomStatus([room EXCEPT ![r].config = StartConfig(r)],
                                r, "IN_PROGRESS")
         sessions == [session EXCEPT ![s] = [room |-> r, status |-> "IN_PROGRESS",
                                             winner |-> NoUser]]
     IN  /\ Cardinality(players) >= 2
         /\ nextSession' = s + 1
         /\ IF CanInitGame(StartConfig(r)) /\ Cardinality(DOMAIN games) < MaxGames
            THEN SendNextQuestion(s, NewGame(r, StartConfig(r), players),
                                  timers, rooms, sessions, replay)
            ELSE /\ room' = rooms
                 /\ session' = sessions
                 /\ UNCHANGED <<replay, stats, memVars>>

\* Seeded fault: the answer is not marked.
AnsweredUnmarked(g, u, correct, percent) ==
  [g EXCEPT !.score[u] = IF correct
                         THEN @ + CalculateScore(g.difficulty, percent, g.streak[u])
                         ELSE @]

\* The record after an answer: score and streak of a correct one, no points
\* and a new streak for a wrong one.
Answered(g, u, correct, percent) ==
  IF correct
  THEN [g EXCEPT !.answered[u] = g.round, !.streak[u] = @ + 1,
                 !.score[u] = @ + CalculateScore(g.difficulty, percent, g.streak[u])]
  ELSE [g EXCEPT !.answered[u] = g.round, !.streak[u] = 0]

\* Seeded fault: the streak after the answer.
ScoreGainedLater(g, u, correct, percent) ==
  IF correct THEN CalculateScore(g.difficulty, percent, g.streak[u]) ELSE 0

\* The points of the answer row: computed again, from the streak before the
\* answer.
ScoreGained(g, u, correct, percent) ==
  IF correct THEN CalculateScore(g.difficulty, percent, g.streak[u] - 1) ELSE 0

\* dao_onevn_save_player_answer, only for a round that has a row.
SaveAnswer(s, g, u, gained, stored) ==
  IF g.rowOpen /\ stored THEN [replay EXCEPT ![s].gained[u] = @ + gained] ELSE replay

\* SUBMIT_ANSWER.  The answer counts for the server's current round; the
\* round the client sends is only logged.  The last answer of the active
\* players closes the round.
SubmitAnswer(u, s, correct, percent) ==
  /\ s \in DOMAIN games
  /\ u \in Active(games[s])
  /\ games[s].answered[u] # games[s].round
  /\ UNCHANGED nextSession
  /\ \E stored \in Outcomes("save_player_answer"), ended \in Outcomes("end_round") :
       LET g == Answered(games[s], u, correct, percent)
           rp == SaveAnswer(s, g, u, ScoreGained(g, u, correct, percent), stored)
       IN  IF Late(g) = {}
           THEN PauseThenAdvance(s, [g EXCEPT !.timer = NoTimer, !.rowOpen = FALSE],
                                 CancelTimer(timers, g.timer), CloseRow(rp, s, g, ended))
           ELSE /\ games' = Put(games, s, g)
                /\ replay' = rp
                /\ UNCHANGED <<room, session, stats, timers, nextTimer>>

\* Seeded fault: the limit is off by one.
UseLifelineOnceMore(u, s) ==
  /\ s \in DOMAIN games
  /\ u \in Active(games[s])
  /\ games[s].answered[u] # games[s].round
  /\ games[s].lifelines[u] <= MaxLifelines
  /\ games' = [games EXCEPT ![s].lifelines[u] = @ + 1]
  /\ UNCHANGED <<dbVars, timers, nextTimer>>

\* USE_LIFELINE (50:50), before the answer of the round.
UseLifeline(u, s) ==
  /\ s \in DOMAIN games
  /\ u \in Active(games[s])
  /\ games[s].answered[u] # games[s].round
  /\ games[s].lifelines[u] < MaxLifelines
  /\ games' = [games EXCEPT ![s].lifelines[u] = @ + 1]
  /\ UNCHANGED <<dbVars, timers, nextTimer>>

-----------------------------------------------------------------------------
(* Timer callbacks *)

\* A due slot is freed and its callback run on a game that still exists.
Due(i, callback) == /\ timers[i].active
                    /\ timers[i].callback = callback
                    /\ timers[i].game \in DOMAIN games

\* Seeded fault: late players are not marked.
TimedOutUnmarked(g) ==
  [g EXCEPT !.timer = NoTimer, !.rowOpen = FALSE,
            !.streak = [u \in Users |-> IF u \in Late(g) THEN 0 ELSE g.streak[u]]]

\* Seeded fault: the loop ends with the first late player.
TimedOutFirstOnly(g) ==
  LET late == {u \in Late(g) : \A v \in Late(g) : u <= v}
  IN  [g EXCEPT !.timer = NoTimer, !.rowOpen = FALSE,
                !.streak = [u \in Users |-> IF u \in late THEN 0 ELSE g.streak[u]],
                !.answered = [u \in Users |-> IF u \in late THEN g.round
                                              ELSE g.answered[u]]]

\* The record after the time of a round is up: who is late gets no points.
TimedOut(g) ==
  [g EXCEPT !.timer = NoTimer,
            !.rowOpen = FALSE,
            !.streak = [u \in Users |-> IF u \in Late(g) THEN 0 ELSE g.streak[u]],
            !.answered = [u \in Users |-> IF u \in Late(g) THEN g.round
                                          ELSE g.answered[u]]]

\* round_timeout_callback.  When every active player has answered, the round
\* is taken to be over already and the callback returns.
RoundTimeout(i) ==
  /\ Due(i, "round_timeout")
  /\ UNCHANGED nextSession
  /\ \E ended \in Outcomes("end_round") :
       LET s == timers[i].game
           g == games[s]
           table == CancelTimer(ReleaseSlot(timers, i), g.timer)
           rp == CloseRow(replay, s, g, ended)
       IN  IF g.timer < 0 \/ (Late(g) = {} /\ Active(g) # {})
           THEN /\ games' = [games EXCEPT ![s].timer = NoTimer]
                /\ timers' = table
                /\ UNCHANGED <<room, session, replay, stats, nextTimer>>
           ELSE IF g.round >= Total(g.config)
           THEN EndGame(s, TimedOut(g), table, room, session, rp)
           ELSE PauseThenAdvance(s, TimedOut(g), table, rp)

\* delayed_question_callback.
DelayedQuestion(i) ==
  /\ Due(i, "delayed_question")
  /\ UNCHANGED nextSession
  /\ LET s == timers[i].game
     IN  SendNextQuestion(s, [games[s] EXCEPT !.timer = NoTimer],
                          ReleaseSlot(timers, i), room, session, replay)

-----------------------------------------------------------------------------
\* The server process ends between two handlers and is started again: what
\* was in memory is gone, the database rows stay.  Nothing repairs them.
Restart ==
  /\ games' = Restrict(games, {})
  /\ timers' = EmptyTable
  /\ nextTimer' = 1
  /\ UNCHANGED dbVars

Init ==
  /\ room = [r \in Rooms |-> NoRoom]
  /\ session = [s \in SessionIds |-> NoSession]
  /\ nextSession = 1
  /\ replay = [s \in SessionIds |-> NoReplay]
  /\ stats = [u \in Users |-> [games |-> 0, wins |-> 0]]
  /\ games = [s \in {} |-> 0]
  /\ timers = EmptyTable
  /\ nextTimer = 1

RoomRequest == \E u \in Users, r \in Rooms :
  \/ \E c \in Configs : CreateRoom(u, r, c)
  \/ JoinRoom(u, r)
  \/ LeaveDuringGame(u, r)
  \/ LeaveRoom(u, r)
  \/ StartRefused(u, r)
  \/ StartGame(u, r)

GameRequest == \E u \in Users, s \in SessionIds :
  \/ SubmitAnswer(u, s, FALSE, 0)
  \/ \E percent \in TimePercents : SubmitAnswer(u, s, TRUE, percent)
  \/ UseLifeline(u, s)

TimerFires(i) == RoundTimeout(i) \/ DelayedQuestion(i)

Next == \/ RoomRequest
        \/ GameRequest
        \/ \E i \in TimerSlots : TimerFires(i)
        \/ Restart

Spec == Init /\ [][Next]_vars

\* The event loop runs the timer check at least every 100 ms, so a timer
\* that stays active is run some day.  Players owe nothing.
FairSpec == Spec /\ \A i \in TimerSlots : WF_vars(TimerFires(i))

-----------------------------------------------------------------------------
(* Invariants *)

Slot == [active : BOOLEAN, id : Nat, callback : Callbacks \cup {"none"},
         game : 0..MaxSessions]

RowsTyped ==
  /\ room \in [Rooms -> Room]
  /\ session \in [SessionIds -> Session]
  /\ replay \in [SessionIds -> Replay]
  /\ stats \in [Users -> [games : Nat, wins : Nat]]

\* The entries of game_states have been asked their first question.
MemoryTyped ==
  /\ DOMAIN games \subseteq SessionIds
  /\ \A s \in DOMAIN games : games[s] \in Game /\ games[s].difficulty # "none"
  /\ timers \in [TimerSlots -> Slot]
  /\ nextTimer \in Nat \ {0}

\* Every variable has its type: the rows, the live games, the timer table.
TypeOK ==
  /\ RowsTyped
  /\ MemoryTyped
  /\ nextSession \in 1..(MaxSessions + 1)

\* A pending timer always works on a live game, and on the one that knows it:
\* no callback is ever run with the user_data of a freed game, and the
\* timer_id a game holds always names a pending timer (timer.c, end_game).
TimersOwned ==
  /\ \A i \in ActiveSlots(timers) :
       /\ timers[i].game \in DOMAIN games
       /\ games[timers[i].game].timer = timers[i].id
  /\ \A s \in DOMAIN games : games[s].timer # NoTimer =>
       \E i \in ActiveSlots(timers) : /\ timers[i].game = s
                                      /\ timers[i].id = games[s].timer

\* Identifiers are used once: those of the pending timers differ and have
\* been handed out (next_timer_id), so cancelling one cancels no other.
TimersNumbered ==
  /\ \A i \in ActiveSlots(timers) : timers[i].id \in 1..(nextTimer - 1)
  /\ \A i, j \in ActiveSlots(timers) : timers[i].id = timers[j].id => i = j

\* A session_id is not used again while the table of games holds it, also
\* not after a restart: the identity column of onevn_sessions goes on.
GamesNumbered == \A s \in DOMAIN games : s < nextSession

\* What keeps timers and games together, as an inductive invariant.
TimerInv == TimersOwned /\ TimersNumbered /\ GamesNumbered

\* A live game is the only one of its room and its rows say so: session and
\* room are IN_PROGRESS (handle_start_game, end_game, the unique index).
GamesMatchDatabase ==
  \A s \in DOMAIN games :
    /\ session[s].status = "IN_PROGRESS"
    /\ session[s].room = games[s].room
    /\ room[games[s].room].status = "IN_PROGRESS"
    /\ \A t \in DOMAIN games : games[t].room = games[s].room => t = s

\* A room has at most one session in progress, with a live game or without
\* one (a game lost in a restart, or refused by a full table).
OneActiveSession ==
  \A s, t \in SessionIds :
    /\ session[s].status = "IN_PROGRESS"
    /\ session[t].status = "IN_PROGRESS"
    /\ session[s].room = session[t].room
    => s = t

\* Session rows that are not inserted yet say so.
SessionsNumbered == \A s \in SessionIds : s >= nextSession => session[s].status = "NONE"

\* What keeps live games and rows together, as an inductive invariant.
DatabaseInv == GamesMatchDatabase /\ OneActiveSession /\ SessionsNumbered

\* The flags of the member rows and the game tell the same of who has left it:
\* the players keep their rows, whoever left is flagged there as long as the game
\* lasts, unless that statement failed, also when he joins the room again; and a
\* player who is flagged has left, unless the room has had an earlier session,
\* whose flags are never reset (dao_rooms_join, dao_rooms_mark_eliminated).
MembersTellTheGame ==
  \A s \in DOMAIN games :
    LET g == games[s]
        row == room[g.room]
    IN  /\ g.players \subseteq row.members
        /\ g.eliminated \subseteq row.gone \cup row.unflagged
        /\ row.gone \cap g.players \subseteq g.eliminated
           \/ \E t \in SessionIds : t < s /\ session[t].room = g.room

\* A live game loses its clock only after somebody has left it: as long as
\* all players stay, a timer is pending that will move the game on.
ClockUnlessSomeoneLeft ==
  \A s \in DOMAIN games : games[s].timer = NoTimer => games[s].eliminated # {}

\* In the pause between two rounds nobody who is still playing can answer:
\* answers for the closed round are refused until the next question is out.
PauseIsQuiet ==
  \A i \in ActiveSlots(timers) : timers[i].callback = "delayed_question" =>
    /\ Late(games[timers[i].game]) = {}
    /\ ~games[timers[i].game].rowOpen

\* Whoever still has to answer a round plays against a running 15 second
\* clock (send_next_question, round_timeout_callback).
LateHaveAClock ==
  \A s \in DOMAIN games : Late(games[s]) # {} =>
    \E i \in ActiveSlots(timers) : /\ timers[i].game = s
                                   /\ timers[i].callback = "round_timeout"

\* The round number counts the questions asked, per difficulty and in total,
\* and never passes the configured number of rounds (send_next_question).
RoundsCounted ==
  \A s \in DOMAIN games :
    LET g == games[s]
    IN  /\ g.round = Total(g.done)
        /\ g.round <= Total(g.config)
        /\ \A d \in Difficulties : g.done[d] > 0 => g.done[d] <= g.config[d]
        /\ \A u \in g.players : g.answered[u] \in {NotAnswered, g.round}

\* Whether an answer may be left without a row.
RowsMayFail == MayFail \cap {"create_round", "save_player_answer"} # {}

\* The replay adds up: the points of a player's answer rows, computed a
\* second time when the row is saved, are the points of the live score.
ReplayMatchesScore ==
  \A s \in DOMAIN games, u \in Users :
    IF RowsMayFail THEN replay[s].gained[u] <= games[s].score[u]
                 ELSE replay[s].gained[u] = games[s].score[u]

\* A won game is counted exactly once: the wins of a user are the sessions
\* that name the user as winner, also across restarts of the server.
WinsMatchSessions ==
  \A u \in Users : stats[u].wins = Cardinality({s \in SessionIds : session[s].winner = u})

\* A round row stays without an end only when the statement that ends it has
\* failed, or when it is that of the round a live game is playing: whatever way a
\* game ends, no other row is forgotten (handle_submit_answer_1vn, end_game).
RoundRowsClosed ==
  \A s \in SessionIds :
    /\ session[s].status \in {"NONE", "FINISHED", "ABORTED"} =>
         replay[s].open = replay[s].unended
    /\ s \in DOMAIN games =>
         replay[s].open = replay[s].unended
                            \cup (IF games[s].rowOpen THEN {games[s].round} ELSE {})

-----------------------------------------------------------------------------
(* Action properties *)

\* A player scores at most once in a round, only with an answer to that
\* round, and never again after leaving the game (README: no double answer).
OneAnswerPerRound ==
  [][\A s \in DOMAIN games \cap DOMAIN games', u \in Users :
       games'[s].score[u] # games[s].score[u] =>
         /\ games'[s].score[u] > games[s].score[u]
         /\ u \in Active(games[s])
         /\ games[s].answered[u] # games[s].round
         /\ \/ games'[s].answered[u] = games[s].round
            \/ games'[s].round = games[s].round + 1]_vars

\* The next question never cuts a round short: rounds advance by one, and
\* only when every player still in the game has answered or timed out.
NoRoundCutShort ==
  [][\A s \in DOMAIN games \cap DOMAIN games' :
       games'[s].round # games[s].round =>
         /\ games'[s].round = games[s].round + 1
         /\ Late(games[s]) = {}
         /\ ~games[s].rowOpen]_vars

\* Nobody wins a game that was broken off early: a winner is named only when all
\* questions the room is configured for were asked, but perhaps the last one, which
\* counts also when it cannot be fetched (send_next_question, end_game).
NoWinnerEarly ==
  [][\A s \in SessionIds : session'[s].winner # session[s].winner =>
       LET asked == IF s \in DOMAIN games THEN games[s].round ELSE 0
       IN  asked + 1 >= Total(room'[session'[s].room].config)]_vars

-----------------------------------------------------------------------------
(* Liveness *)

\* A game nobody leaves comes to its end, whatever the players do or omit.
GamesEndUnlessLeft ==
  \A s \in SessionIds :
    s \in DOMAIN games ~> (s \notin DOMAIN games \/ games[s].eliminated # {})

-----------------------------------------------------------------------------
(* What documents and comments of the repository say of the engine *)

\* README, section 4: after n rounds the server sends GAME_RESULT, so every
\* game that has started ends.
EveryGameEnds == \A s \in SessionIds : s \in DOMAIN games ~> s \notin DOMAIN games
=============================================================================
