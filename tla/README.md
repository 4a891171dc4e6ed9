# Verification of the quiz game server and its clients

The repository is a quiz game: a server in C (`src/server`), one process with one
event loop and a PostgreSQL database behind it, and a Qt 6 / QML client
(`src/client/qt6`). Players sign in, are friends, talk, play a solo game of 15
rounds against the clock (*quick mode*), or meet in rooms and play against each
other (*1vN*).

This directory holds TLA+ modules that model the parts of the program that keep
state, configurations that let TLC explore them, and proofs that TLAPS checks. It
was written from the code; documents and comments of the repository were only
used to find out what the code is meant to do.

* [1. The system](#1-the-system)
* [2. The modules and the code](#2-the-modules-and-the-code)
* [3. The runs](#3-the-runs)
* [4. Fairness](#4-fairness)
* [5. The proofs](#5-the-proofs)
* [6. Abstractions and limits](#6-abstractions-and-limits)
* [7. What the checks found](#7-what-the-checks-found)
* [8. Plan](#8-plan)

## 1. The system

Everything on the server runs in one thread. `server.c` waits in `epoll_wait` for
at most 100 ms, runs the callback timers that are due (`utils/timer.c`), cleans up
stale users every 30 seconds, accepts connections and reads packets. A packet is
handed to `dispatcher.c`, which checks the access token and calls one handler; the
handler runs to its end, database calls included. So **every handler and every
timer callback is one atomic step**, and what makes this program hard is not
threads but *the order in which requests, timeouts, disconnects and restarts
follow each other*, state that outlives the event it belongs to (sessions, timers,
rows), and requests that are lost between client and server.

| Component | State | Operations | Talks to |
|---|---|---|---|
| **1vN engine** `onevn_service.c`, `dao_onevn.c`, `dao_stats.c` | `game_states`, up to 100 live games; rows of `onevn_sessions`, `onevn_rounds`, `onevn_player_answers`; the counts in `users` | start a game, submit an answer, use a lifeline, round timeout, pause before the next question, end of a game | timers (call, callback), rooms (rows), clients (broadcasts), database |
| **Rooms** `dispatcher.c`, `dao_rooms.c` | rows of `room` and `room_members`, the room number in a session | create, join, leave, leave during a game, invite | engine, sessions |
| **Callback timers** `utils/timer.c` | a table of 100 slots, the next identifier | create, cancel, check and run | engine |
| **Event loop, sessions, logins** `server.c`, `session_manager.c`, `auth_service.c`, `dao_sessions.c`, `main.c` | sockets, the table of 1024 `ClientSession`s, rows of `user_sessions` | accept, login, logout, token check, disconnect, stale-user cleanup, restart | everybody who looks a session up by its user |
| **Framing** `client_session.c`, `protocol.c` | the read buffer of a connection | read a packet | dispatcher |
| **Solo mode** `quickmode_service.c` | the list of running games | start, get a question, submit an answer, use a lifeline, clean up a user, end | sessions (disconnect, logout), statistics |
| **Solo game screen** `QuickModeGame.qml`, `NetworkClient.cpp` | the screen, its four timers, its round | start, answer, lifeline, timeouts, leave | solo mode (messages) |
| **1vN screen** `OneVNMode.qml` | question shown, `waitingForAnswer` | show, answer, countdown | engine (messages) |
| **Friends, invitations** `friends_service.c`, `dao_friends.c` | rows of friendships, two for each pair of friends | request, accept, decline, remove, list, search, status broadcast, invite | sessions |
| **Friends screen** `FriendsList.qml`, `NetworkClient.cpp` | its list of friends and of pending requests | load, search, add, remove, answer | friends (messages, notices) |
| **Chat** `friends_service.c`, `dao_chat.c` | message rows, 256 windows of the rate limiter | direct message, offline delivery, room message | sessions, rooms |
| **Statistics** `stats_service.c`, `dao_stats.c` | the counts in `users` | leaderboard, profile | - |
| **Accounts, JSON, questions, database** | - | one statement or a pure function each | - |

Which behaviours are hard, and what makes each component correct:

* **1vN engine.** The last answer of a round races the round's timeout, players
  leave at any moment, a timer callback works on a game that may be gone, the
  timer table and the table of games may be full, rows may fail to be written,
  and the process may be restarted in the middle of a game. Correct means: a
  player scores at most once per question; no round is cut short or closed twice;
  whoever still has to answer plays against a running clock; no timer ever fires
  for a game that is gone; a live game is the only one of its room and its rows
  say so; a result is final and counted once; the replay adds up to the score;
  and a game nobody leaves comes to its end.
* **Sessions and logins.** The end of a connection may be noticed long after the
  user has logged in again, or never; one connection may log in twice; the cleanup
  expires rows of connections that are still open. Correct means: at most one
  active token per user, never two connections acting for the same user, what
  has expired stays expired, and nobody is locked out for good.
* **Solo mode.** Identifiers of games may collide; the server accepts rounds in
  any order and relies on the client to ask for them in turn; requests are
  forgotten behind other requests; the screen can be left and opened again while
  replies are on their way. Correct means: one game per user, a round counts once,
  only its player changes a game, a game is counted once, the winner has answered
  every round, client and server agree on lifelines, and a game on the screen ends.
* **Friends.** A friendship is two rows written by statements of their own, of which
  the later ones may fail unnoticed; the screen is a copy made of lists it asked for
  and of notices, and both may cross; entries stay clickable after they have been
  answered. Correct means: nobody becomes a friend without an open request, a
  friendship ends only on purpose, a friend has a row on both sides, and a loaded
  screen shows every request to its user.
* **Room chat.** Who may speak is read from a session, who belongs to the room from the
  database, and the room requests write one, the other, or both, on the session the
  request came in on or on the first one found for the user; the rate limiter
  gives the oldest window away when its table is full. Correct means: whoever
  hears a room is one of its members, nobody gets twice the limit through in a window's time,
  and nobody is refused for what others sent.

`PROJECT.json` lists the components, and under `hazards` every place of the code
where these behaviours bite.

## 2. The modules and the code

```
CallbackTimers ── OneVN ──┬── OneVN_proofs ── OneVNRounds_proofs ──┐
                          ├── OneVNAnswers ──┬─────────────────────┼── OneVNMatch_proofs
                          │                  └── MCOneVNAnswers    │
                          └── OneVNMatch ──┬───────────────────────┘
                Match (INSTANCE) ┄┄┄┄┘     └── MCOneVN

Sessions ──┬── MCSessions            QuickMode ──┬── MCQuickMode
           └── Sessions_proofs                   └── QuickModeClient ──┬── MCQuickModeClient
                                                                       └── QuickMode_proofs

Friends ── FriendsClient ──┬── MCFriendsClient   ChatRates ── RoomChat ──┬── MCRoomChat
                           └── Friends_proofs                            └── RoomChat_proofs

SumsAndQueues: lemmas, used by QuickMode_proofs, Friends_proofs and RoomChat_proofs
```

`PROJECT.json` maps each definition to the lines it stands for. Operators whose
comment begins with *Seeded fault* belong to no specification: each is a plausible
bug in the definition that follows it, used to make sure that the property in
question would notice.

**CallbackTimers** is `utils/timer.c`: a table of slots, first free slot first,
identifiers never reused, `CancelTimer` by identifier, a slot released before its
callback runs. Time is abstract: an active timer may be due at any moment. What
`game_timer_create` returns when the table is full is modelled, since the engine
goes on without a timer then.

**OneVN** is the engine and the rooms. `games` is `game_states`, as a function from
session identifiers to records; `room`, `session`, `replay` and `stats` are the
rows. A handler is one action: `CreateRoom`, `JoinRoom`, `LeaveRoom`,
`LeaveDuringGame`, `StartGame` (all of `handle_start_game` with its writes, the
game that cannot be made, the full table and the first question), `StartRefused`,
`SubmitAnswer`, `UseLifeline`.
Timer callbacks are `RoundTimeout` and `DelayedQuestion`. Where the code calls
`send_next_question`, `end_game` or the 3-second pause at the end of a handler, so
do the actions (`SendNextQuestion`, `EndGame`, `PauseThenAdvance`), handing over
the records, timers and rows as the handler has left them. The writes that can fail and
leave a handler's work half done are named in `Statements`, and a run chooses with
`MayFail` which of them do: the owner's member row of a new room (`RoomCreated`), the
second statement of a deletion (`RoomDeleted`), the flag of a leaver
(`MemberEliminated`), and the rows of rounds and answers, a round's end included
(`AskQuestion`, `SaveAnswer`, `CloseRow`). Two histories say where that has happened, for the
properties: `unflagged`, the leavers without a flag, and `unended`, the rounds
without an end. `Restart` forgets
memory and keeps rows; nothing repairs them, just as in `main.c`. Requests that
are refused without any effect are stuttering steps.

**Match** is the abstract specification of a 1vN match, without memory, timers,
rounds or rows: a match begins once, with two players at least and as the only
open one of its room (`Begin`), ends at most once, with one of its players as
winner or with none (`End`), or is lost with all others that are being played
(`Lose`). A win is counted in the step that ends the match. **OneVNMatch** is the
refinement mapping: the stage, the room and the winner of a match are those of
its session row, and it is `played` as long as `game_states` holds it; a session
left `IN_PROGRESS` by a restart or by a full table is `lost`. `ImplementsMatch`
says that OneVN's behaviours are Match's. That a result is final, that a winner took
part, and that nobody begins a second game in a room are consequences.

**OneVNAnswers** adds the clients: answers on their way to the server and questions
and results on their way back, in order per connection. The server may have gone
on before it reads an answer, and it forgets an answer that arrives together with
an earlier packet (`client_session_read_packet` empties its buffer after each
packet). The client's own countdown sends an empty answer.

**Sessions** is the event loop with its connections: `conn` is what the kernel knows
of a socket, `session` the `ClientSession`, `slots` the table of the session
manager, `row` the table `user_sessions`. The removal of a session on a disconnect
is modelled as it is: `server.c` reads the descriptor from the member of the
`epoll_data` union that was not stored, so that no session is found and the slot
stays taken (`EventFd`). Descriptor numbers are reused, lowest first, because the
cleanup closes a descriptor by its number.

**QuickMode** is the list of solo games. Of the logins it keeps what its handlers
see: the user of each connection, and whether its token is accepted. `nr` is the
place in the linked list; `NewIds` lets two games share an identifier, since it is
made of the second and a random number below 1000.

**QuickModeClient** composes QuickMode with the client's screen and the messages
between them. The server's part of each step *is* an action of QuickMode
(`HandleStart` takes `Start`, and so on), so a run of this module also runs the
server. Screen timers are Booleans: running, or not.

**Friends** is the table of friendships and the handlers that write it. `row` holds a
status for each ordered pair of users: `<<u, v>>` is the row with `user_id` u and
`peer_user_id` v, which is also u's request to v. The operators are the statements of
`dao_friends.c`, the actions the handlers: `AddFriend`, `RemoveFriend`,
`AcceptRequest` (three statements, of which the latter two may fail without the handler
noticing, for as long as `failures` is below its bound) and `DeclineRequest`.

**FriendsClient** composes Friends with the friends screen of each user and the packets
both ways; the notices to the *other* user, which a request, an answer or a removal
causes, are part of the step that handles it. `ui` is what the screen shows:
its entries, by what `isFriend`, `isAdding` and `isAdded` say of them, and the pending
requests. Reading a packet can make the screen ask for its lists again (`SentBy`).

**ChatRates** is `room_chat_rate_allow`: a table of windows, one for each user and room
that has spoken lately, with the whole seconds of the server's clock. `sent` and
`evicted` are histories for the properties. **RoomChat** puts it behind the room chat and
adds what decides who may speak and who hears it: the room number in each session
(`seat`) against the members of the rooms. Each room request writes the session
it came in on, or the first one found for the user, as the code does; after a
disconnect these differ. A room may be created or deleted by halves, as `dao_rooms.c`
does it when its second statement fails. `stray` is a history: the sessions that were left in
a room whose member row a request has deleted, by a deletion of that kind or by a
leave on a session that is not the one found. Games are reduced to the status they give
their room.

The MC modules only give values to constants.

## 3. The runs

`cd tla; tlc -workers 2 -config <cfg> <module>`.

| Run | Configuration | What it shows |
|---|---|---|
| `onevn_play` | 3 players, 1 room, 2 rounds, 1 game; rounds may fail to be written and to be closed | every interleaving of answers, leaves, timeouts and restarts in a game: `PauseIsQuiet`, `LateHaveAClock`, `ClockUnlessSomeoneLeft`, `OneAnswerPerRound`, `NoRoundCutShort`, `RoundRowsClosed`, `NoWinnerEarly`, and `GamesEndUnlessLeft` under fair timers |
| `onevn_rematch` | 2 players, 2 rooms, 2 sessions, a table of 1 game, no lifelines; rooms created and deleted by halves | rematches, restarts and starts refused by the full table: `DatabaseInv`, `WinsMatchSessions`, and the refinement of Match, `ImplementsMatch` |
| `onevn_two_games` | 2 players, 2 rooms, 2 games, 1 timer slot; flags may fail to be written | two live games compete for a timer: `TimerInv`, `TimersOwned`, `GamesMatchDatabase`; and `MembersTellTheGame`, the flags of the member rows against the games, with a second game in the same room |
| `onevn_scores` | 2 players, 4 rounds or odd counts, fast and slow answers, a lifeline | streak bonus computed twice (`ReplayMatchesScore`), order and number of questions (`RoundsCounted`), `TypeOK` with its limits (lifelines included) |
| `answers_lost` | 2 clients, 2 rounds, 1 answer of each on its way | `NobodyWaitsForever` although answers are lost or late |
| `sessions_logins` | 2 users, 3 connections, 2 slots, 2 tokens, statements fail, large packets | `LoginInv`, `OneActiveToken`, `NoTwoActors`, `ExpiredStaysExpired`, and `NobodyLockedOut` under a cleanup that goes on |
| `quickmode_requests` | 2 users, 2 connections, 3 rounds, 3 starts, any request at any time | `GamesInv`, `OneGameEach`, `ScoreIsRight`, `CountedOnce`, `OnlyItsPlayer` |
| `quickmode_game` | 1 client, 3 rounds, 2 starts, 4 messages on their way | `RoundsInTurn`, `LifelinesAgree`, `WinnersAnsweredAll`, `GameEndsUnlessLost` |
| `friends_lists` | 2 users, 1 failure, clicks while fewer than 2 packets are on their way | requests and answers given twice, late or crossing: `FriendsInv`, `FriendshipNeedsConsent`, `FriendshipEndsOnPurpose`, and `RequestsAreShown` on the screens |
| `room_chat` | 2 users, 1 room, 2 sessions, rooms created and deleted by halves, limit 2, a window of 2 seconds, a table of 1 window, 3 seconds | `SeatsInv` (listeners are members, but for strays), and the rate limiter with its windows given away: `BurstsBounded`, `RefusalsAreEarned` |
| `onevn_stuck`, `sessions_reachable` | small | violated, see [section 7](#7-what-the-checks-found) |

**Bounds.** Named as constants in each module and cut off in the guards of the
actions that create things (`MaxSessions`, `MaxTokens`, `MaxStarts`, `MaxQueue`,
`MaxPending`, `MaxFailures`, `MaxOnTheWay`, `MaxTime`, `MaxSlots`, and the
connections of Sessions, each of which is made once).

* Three players are enough for a round in which one has answered, one is late and
  one has left; the engine treats players alike but for the order that breaks ties.
* Two rounds make a round that is not the first and one that is not the last; four
  make the first streak bonus (a streak of three before the answer). Longer
  streaks take other constants of the same formula.
* Two sessions make a rematch; two rooms make two games at once. With one entry the
  table of games is full when the second one starts; with one timer slot it is
  full while one of two games holds it. In `onevn_play` one slot is all one game
  can use.
* Three connections allow a dead connection, a new login and a third client that
  inherits a descriptor; two slots make the table full. Two tokens are two logins
  of one user, or one of each.
* Three rounds of the solo mode are first, middle and last; two starts make one
  game that is left behind. Four messages are more than a screen sends before it
  waits.
* Two users and two packets make a request that crosses a list, an answer that crosses a
  removal, and a second click before the first answer. What a request does concerns
  one pair of users; a third one would only add pairs. A reply makes a screen send
  packets beyond `MaxOnTheWay`, which holds back the user only: a screen is opened, and
  a list loaded, while another packet is on its way; only a screen that becomes
  visible again, which asks for both lists, does so when nothing is on its way.
* Each run of OneVN lets the statements fail that its properties speak of. The theorems
  hold for any choice of `MayFail`; failing answer rows (`save_player_answer`) are left
  to them, since `ReplayMatchesScore` is checked in its exact form, without failures.
* Two sessions make a user whose dead session is found before his live one, or after
  it. One window for two users is taken away at each turn; three seconds are a window
  of two that ends inside the span and another that begins there.

Symmetry is used in `quickmode_requests`, `sessions_reachable`, `friends_lists` and
`room_chat`, where users and connections are model values no definition compares but
for equality and no liveness is checked. OneVN orders its players and rooms.

Deadlock is checked, except in `quickmode_game`, where a client may have used up its
starts and sit in the menu, and in `friends_lists` and `room_chat`, where nobody has to
act and the clock and the connections are bounded.

## 4. Fairness

Nothing is ever asked of a player: no answer, no leave, no login, no click is
fair, and neither are restarts, disconnects or losses.

* `OneVN!FairSpec`, `FairAnswersSpec`: weak fairness of each timer slot. The loop
  calls `game_timer_check_and_run` at least every 100 ms and runs all that is due.
* `FairAnswersSpec` also lets each client read what has been sent to it: TCP
  delivers while the connection is there. The *server's* reading of an answer is
  not fair, because the code may lose it.
* `Sessions!FairSpec`: weak fairness of `CleanupSucceeds`, a cleanup whose statements
  succeed, and of the passing of time for each token. The cleanup is run every 30 seconds; statements may fail
  (`DbMayFail`), but not for ever, since a database that fails for ever keeps rows
  for ever.
* `FairClientSpec`: both ends read what has arrived, and the four timers of the
  screen run out. Requests may still be forgotten.

## 5. The proofs

All theorems hold for every value of the constants that satisfies the named
assumptions (`TimersAssumption`, `OneVNAssumption`, `SessionsAssumption`, `QuickModeAssumption`,
`FriendsAssumption`, `RatesAssumption`, `RoomChatAssumption`): sets of any size, tables
of any size, any number of rounds. The assumptions only type the constants, with one
exception: the sum over users in `CountedOnce` takes `IsFiniteSet(Users)`
(`QuickModeAssumption`; a table of accounts is finite). TLC evaluates the assumptions in each run. One hypothesis is stated by the theorems that need it:
`MaxGames <= MaxTimers`, which the code satisfies with 100 of each
(`onevn_service.c:57`, `timer.c:18`).

**OneVN_proofs**

* `TypeCorrect`: `Spec => []TypeOK`.
* `TimersAndGames`: `Spec => []TimerInv`. That no timer works on a freed game
  (`TimersOwned`) is not inductive: it also takes that pending identifiers differ
  and are below `nextTimer` (or cancelling one could cancel another), and that
  live games have identifiers below `nextSession` (or a new game could inherit the
  timer of an old one). `TimerInv` is the conjunction; `TimersOwnedAlways` is the
  part a reader wants. It holds even when the table is full or a game is
  ended by the very timer that fires.
* `GamesAndRows`: `Spec => []DatabaseInv`. A live game is the only one of its
  room and its rows are in progress (`GamesMatchDatabase`). To be inductive it
  needs that a room has at most one session in progress, with or without a live
  game, since a restart leaves such sessions behind, and that rows not yet made are
  not in progress. `GamesMatchDatabaseAlways` follows.

The proofs follow the shape of the code: a lemma for each shared tail of the handlers
(`ArmTimer`, `EndGame`, `AskQuestion`, `SendNextQuestion`, `PauseThenAdvance`),
about an arbitrary record and table handed to it, then one step per action.

**OneVNRounds_proofs**

* `RoundsInOrder`: `Spec => []RoundInv`, what the record of a live game says of its
  questions (`Counted`), of its round row (`OpenRowIsCurrent`), of its rows in the room
  (`KeptInRoom`) and of its answer rows (`Scored`), that a timer other than the round's own
  works on a game whose round is over for everybody (`Quiet`), and that sessions
  which are over or not begun leave open no rows but those whose closing statement has
  failed (`RowsInOrder`). None of these is
  inductive alone: the score, for instance, agrees with the answer rows only because
  somebody who can still answer has an open round row to save the answer to. The
  properties `PauseIsQuiet`, `RoundsCounted`, `RoundRowsClosed` and `ReplayMatchesScore`
  are parts of it. Rows whose end has failed are of earlier rounds than the one that is open
  (`OpenRowIsCurrent`), which is why closing the current row closes no other.
* A handler takes one game out of the tables and puts it back or ends it. `Working`
  says that everything is in order but for the game a handler works on; the lemmas
  about the tails take `Working` to `RoundInv'`, those about the handlers establish it.
* `ClocksInOrder`: `MaxGames <= MaxTimers` gives `Spec => []ClockInv`. A handler always
  finds a free slot (`SlotFree`, a pigeonhole argument: each pending timer belongs to a
  game of its own, and the game at hand has none), hence a game keeps its clock.
  `LateHaveAClockAlways` and `ClockUnlessSomeoneLeftAlways` are parts of it.
* `RoundsRunTheirTime` (`NoRoundCutShort`) follows from `ClockInv` and `RoundInv`: only the
  pause leads to the next question, and the pause is quiet. It needs the hypothesis, unlike
  the other properties of rounds, because without a free slot the code asks the next
  question at once.
* `ScoredOncePerRound` (`OneAnswerPerRound`) needs no hypothesis: what a step may do to
  a score does not depend on timers.

**OneVNMatch_proofs**

* `OneVNImplementsMatch`: `Spec => ImplementsMatch`. The
  initial state is Match's; under `TypeOK` and `DatabaseInv` each step is a step of
  Match or leaves its variables. `DatabaseInv` is what makes this true: a start
  finds the match of its identifier not begun (`SessionsNumbered`), the end of a
  game finds its own row in progress (`GamesMatchDatabase`), and a restart turns the
  matches with a live game, and no others, into lost ones.
* `WinsMatchSessionsAlways` uses the abstraction: once each step is a step of Match, only
  `End` with a winner changes results or wins, and it adds one session to a finite
  set (`ResultsInOrder`).
* `NobodyWinsEarly` (`NoWinnerEarly`) joins both: a winner is named by `EndGame` only, which is
  reached from `SendNextQuestion` when the questions are used up.
* `FlagsInOrder`: `Spec => []FlagInv`. A flag in a room is of somebody who left the game there,
  or the room has had an earlier session. To be inductive it takes that a room with flags,
  or in progress, has had a session: a room is first started without any. With `KeptInRoom`,
  which has the other direction, it gives `MembersTellTheGameAlways`.
* `AnswersUseTheEngine`: `AnswersSpec => Spec`, so that each theorem about OneVN holds with
  its clients, whatever answers are late, lost or given twice. A step of a client leaves the
  engine alone; reading an answer is a request of the engine because the answers on
  their way are typed (`AnswersTyped`).

**SumsAndQueues** holds the lemmas the following proofs share. Induction over data is
possible after all where a *set* can stand for the predicate: `SubsetInduction`,
`NumberInduction` and `StrongInduction` take the set of the subsets, or numbers, for which
something holds. With them the recursion behind `SumFunctionOnSet` is known for every
finite set (`PartialSums...`, `Sum...`: a sum of one more, of less, of two disjoint parts). Of
queues it says what is where after a message was added or the first ones were taken
(`AddedAt`, `LeftOf`), in terms of indices, so that no proof needs to look into `Append` or
`SubSeq`.

**Sessions_proofs**

* `LoginsInOrder`: `Spec => []LoginInv`; `OneActiveTokenAlways`, `OneDevice`
  (`NoTwoActors`) and `ExpiredForGood` (`ExpiredStaysExpired`, an action property)
  follow from it. That two connections never act for one user needs more than one
  active row per user: the token in a session must be the token of that user and
  of no other session, and tokens must not have been made before their time.

**QuickMode_proofs**

* `GamesInOrder`: `Spec => []GamesInv`; `OneGameEachAlways`, `ScoreIsRightAlways`,
  and the action property `OnlyItsPlayerAlways`. One game per user rests on the
  look-up by user at each start; that nobody else changes a game rests on the
  comparison of users in the handlers together with `accepted[c] => who[c] # 0`.
* `CountedOnceAlways` (`CountedOnce`): a step moves a game from the list to the count of its
  user, or drops it, so the sum of both never passes `started`. The sum changes at one
  user only.
* `PlayInOrder`: `ClientSpec => []PlayInv`. The properties of the composition need an invariant
  that speaks of what is on its way. `ClientInv(S, C, U, G)` says of one connection, with its
  requests S, replies C, screen U and game G: requests and replies have their types; nothing
  but the first question of a new game stands behind a start (`StartsFirst`), the reply to a
  start finds a screen without a game and nothing done in the new one (`StartedLast`), and
  a screen with its game and a start on its way waits for its first question
  (`StartsBeforeQuestion`); and of the game
  there is *one turn* at a time: a question or answer on its way to the server, a
  reply to one on its way back, a screen that can pick an option, or a running
  `nextQuestionTimer` exclude each other (`OneTurn`), which is why rounds are asked in turn
  although the server does not look. The last reply to a lifeline on its way, or else the screen,
  holds the lifelines the game has left (`LifelinesLeft`). `PlayInv` adds that connections do not share a
  user, so a step of one leaves the others in order.
* `RoundsInTurnAlways`, `LifelinesAgreeAlways` and `WinnersAnsweredAllAlways` follow from
  `PlayInv`, the last one of the step that ends a game.
* `ClientTakesServerSteps`: `ClientSpec => [][Next]_vars`; the composition starts with
  everybody logged in, so it is the steps that QuickMode knows, not the initial state.

**Friends_proofs**

* `FriendsInOrder`: `Spec => []FriendsInv`, which is inductive as it stands.
* `NoFriendUnasked` (`FriendshipNeedsConsent`) and `NoFriendLost`
  (`FriendshipEndsOnPurpose`) hold whatever fails: the argument is by the statements, each
  of which leaves the rows of all other pairs alone.
* `ScreensInOrder`: `ClientSpec => []ScreensInv`. For one user with screen U, packets C and
  requests R to him, `ListInv(U, C, R)`: if a list of requests is loaded or on its way,
  each request in R is *shown* (`IsShown`), that is named by the last list in C, named after it,
  or on the screen with no list coming. It is about lists on their way, too, since the
  screen promises nothing before its first one arrives, and then everything at once. Packets
  added at the end keep it if they show the new request or contain no list
  (`PacketsAdded`), packets read at the front move from C to U (`PacketRead`).
* `RequestsAreShownAlways` (`RequestsAreShown`): the property folds `PendingAfter` over the
  queue; `FoldOfPending` proves by induction over the packets that the fold is `IsShown`.
* `ClientImplementsTable`: `ClientSpec => Spec`, so that whatever is proved of the table
  holds with the screens.

**RoomChat_proofs**

* `SeatsInOrder`: `Spec => []SeatsInv`, of all sessions but `stray` ones, with any number of
  sessions of a user. That a listener is a member is inductive only together with
  `RoomsWereMade` (or a session could hold the number of a room that is made later by
  somebody else) and `OneOpenSeat`.
* `RatesInOrder`: `Spec => []RatesInv`, the windows of the rate limiter, for any limit and
  size of the table.
* `HistoryAgrees`: `Spec => []HistoryInv`, windows against history. The history holds the last
  window's time (`Remembered`). While a window lasts, what it counts was sent in it
  (`WindowEarned`); unless its user lost one, it counts all that was sent since it opened, less
  than the limit was sent before, and nothing after its end (`WindowBounds`); and who has no
  window and never lost one has sent nothing lately (`NoWindowNothingSent`).
* `BurstsBoundedAlways` adds what was sent before a window opened to what it counts.
  `RefusalsAreEarnedAlways`: a refusal takes a full window that lasts, hence one that was earned.

**Only model-checked**: liveness (`GamesEndUnlessLeft`, `NobodyWaitsForever`,
`NobodyLockedOut`, `GameEndsUnlessLost`), which is out of the prover's reach, as is ENABLED.
Every safety property a passing run checks is a theorem. No module declares a RECURSIVE
operator.

## 6. Abstractions and limits

* Questions, options, names, scores on the wire, JSON and formatting are left out.
  `SendNextQuestion` lets the fetch of a question fail at any time, which stands for
  a failing statement and for 100 draws that were all used before.
* Time: a timer may be due as soon as it runs. The share of the time left at an
  answer is one of `TimePercents`; the code clamps it to 0..100.
* OneVN's database: the `Statements` may fail. A failure at which a handler stops with
  nothing changed is a stuttering step. Three results that the code ignores are
  taken for a success: those of `dao_rooms_update_status` (at the start and the end of a game),
  of `dao_onevn_end_session` and of `dao_stats_update_onevn_game`. When one of them fails, a
  room, a result or a count is simply not written, and nothing later repairs it; so
  `GamesMatchDatabase`, `WinsMatchSessions` and `ImplementsMatch` are statements about a
  database that takes these writes. Reads succeed, too: a room whose status, owner or
  configuration cannot be read is not modelled, nor is a `malloc` that fails, but for the
  `calloc` that a negative number of questions makes fail (`CanInitGame`). Rows are never deleted behind the program's back.
* Sessions keeps of messages only what sending does to a dead socket (a reset
  arrives). `RegisterUser` and passwords change nothing modelled here.
* QuickModeClient: everybody stays logged in (QuickMode and Sessions are where
  logins change), all questions have the same right option, and errors are only
  "not for this screen", which is how the screen treats them. `handle_game_over`'s use
  of the record after it was taken off the list is not modelled.
* OneVN and RoomChat take the schema as `migration_room_owner_leave.sql` leaves it; the
  trigger of `db.sql:202-250`, which it replaces, is not modelled.
* QuickModeClient's `Enabled` has the option buttons as they are from the first question on: the
  assignment in `onQuickModeQuestionReceived` has replaced their binding by then.
* FriendsClient: everybody stays logged in on one connection, a search is for the other
  user, and the question before a removal is answered at once. The screen's `refreshTimer` is
  a reload at any time. The colour of a status is left out.
* RoomChat: the first statement of each room request succeeds, or nothing has changed; the
  second statements of a creation and of a deletion may fail. A session is *dead* when its connection is
  gone or its token has expired. A login over another login on the same connection is left to Sessions, and to whom a
  message is written is left out, since it is the sessions with the room's number.
* Not modelled, and why: see the component list in `PROJECT.json`. Direct
  messages are rows and one look-up of a session; statistics are
  read-only; accounts, JSON helpers, the random question and the database
  connection have no state between two calls; tests and tools are not part of the
  program; layout screens forward clicks.

## 7. What the checks found

Each of these two has a run that ends in a counterexample.

1. `onevn_stuck`: *a 1vN game can stop for good.* Two players, one answers, the other
   leaves. `LEAVE_ROOM` eliminates the player but does not look whether all others
   have answered. When the round times out, `round_timeout_callback` sees that
   everybody active has answered, takes the round to be over already, and returns.
   No timer is left. README.md:38 promises a result after n rounds.
   `GamesEndUnlessLeft` and `ClockUnlessSomeoneLeft` show that a leave is the only
   way to get there.
2. `sessions_reachable`: *messages go to dead sessions.* After a disconnect and a new
   login, `session_manager_get_by_user_id` finds the old session, which was never
   removed from its slot (`server.c:233`).

Seen while modelling, in the code or in counterexamples of the same models, not kept as
runs:

*Sessions*

* The end of a dead connection, reported late, logs out the user who has logged in
  again since, because it works on the user (`server.c:225-237`).
* The stale-user cleanup closes the descriptor of the first session found for the
  user, a dead one, and leaves the stale connection open (`server.c:128-141`).

*1vN games*

* A player who left wins against the one who stayed: `check_game_end` compares
  all players (`onevn_service.c:252`), where .github/instructions/idea.instructions.md:121 has the last
  one remaining win.
* `room_members.eliminated` is never reset, so it disagrees with memory in the next
  game of the room (`onevn_service.c:1141`); who joins again keeps the flag.
  `MembersTellTheGame` therefore says "a flagged player has left" only of the first session of a
  room; without that exception `onevn_two_games` finds the rematch.
* The result of `dao_rooms_mark_eliminated` is ignored, and a failed `dao_onevn_end_round` is
  only warned of (`onevn_service.c:596`, `862`): the game forgets the row, which keeps no
  `ended_at` for good. `RoundRowsClosed` says that these are the only rows left open.
* `dao_rooms_delete` (`dao_rooms.c:72`) is two statements without a transaction. When the
  second fails, the client is told `DELETE_ROOM_FAILED`, the room is still `WAITING`, has no
  members, and everybody in it still speaks and hears there.
* `dao_rooms_create_with_config` refuses the client when the owner's member row cannot be
  written, but the room stays.
* A game of one round whose question cannot be fetched names the player with the lowest
  identifier the winner, at 0:0 (`NoWinnerEarly` is stated with this in mind).
* An answer that arrives after its round is scored for the next question
  (`onevn_service.c:490` only logs the difference).

*Solo mode*

* After the time has run out there is no replay: `handleTimeExpired`
  (`QuickModeGame.qml:627`) shows the losing screen without telling the server, and the next
  `START_QUICKMODE` is refused (`quickmode_service.c:273`) until the player logs out,
  where .github/instructions/idea.instructions.md:145 offers him a replay.
* An option taken away by a lifeline can still be clicked (`QuickModeGame.qml:423`): the
  assignment of `enabled` ends the binding to the option's text.
* An answer the server has forgotten behind another packet is never asked for again: the
  click has stopped `questionTimer`, `answerSubmitted` stays set, and the screen waits until the
  player leaves it. `GameEndsUnlessLost` shows that nothing else makes a screen wait.
* Two lifelines in one round leave only the right option (`quickmode_service.c:549`).

*Friends*

* Whoever asked and was accepted keeps seeing a search result with *added* until the list is
  loaded again, because a status notice of somebody in the list only changes its
  colour; a removed friend stays listed in the same way. The comment at
  `friends_service.c:422` has the lists refreshed.
* An entry that has been answered stays after a late answer is refused
  (`RESPOND_FAILED` is only logged), and an error to a list request empties the list.
* When a later statement of an acceptance fails, the handler reports success all the same
  (`friends_service.c:413`), and one of the two has a friend who has no row for him.
  `FriendsInv` holds as long as no failure was passed over.
* An accepted friendship can be set back to pending by asking again, from a search result
  that is not known to be a friend.

*Chat*

* After a reconnect `LEAVE_ROOM` clears the room of the first session found, a dead one. A user
  who joined on his second session still speaks in the room he has left, although the
  comment at `friends_service.c:736` says "Enforce membership: session must match
  the target room". Such a session is `stray` in RoomChat until it is given a room again, and
  `SeatsInv` says that it and the listeners of a room deleted by halves are the only ones
  who hear a room without being its members.
* The windows are fixed, so that up to twice the limit less one gets through in a window's
  time; the comment at `friends_service.c:30` calls it a token bucket.
* `dao_chat_mark_read` is called by nobody.

## 8. Plan

Done, in the order of importance:

1. CallbackTimers and OneVN, with the rooms; `TypeOK`, `TimerInv`, `DatabaseInv` proved.
2. OneVNAnswers: clients, lost and late answers.
3. Sessions; `LoginInv` and its consequences proved.
4. QuickMode with proofs, QuickModeClient.
5. Friends and FriendsClient; RoomChat with ChatRates: who may speak, and the table of
   windows as a bounded cache. Their invariants proved.
6. Match, the life of a 1vN match, refined by OneVN; the theorem and what follows from it.
7. The rounds and the clocks of 1vN games proved.
8. The servers with their clients proved, with queues of any length, and the sums behind
   `CountedOnce` and the rate limiter: every safety property a run checks is a theorem.

Left:

1. **Direct messages**: offline delivery (a message is delivered or kept, never both
   lost), the read mark, the echo of one's own message and the history appended to it.
2. **Status broadcast and invitations** over the sessions' look-up, and who receives the
   broadcasts of a room.
3. **Accounts**, one device per user, as an abstract specification refined by Sessions.
4. **Crashes inside a handler**: handlers of OneVN that write several rows, split at
   their writes, to see which rows a crash leaves behind.
