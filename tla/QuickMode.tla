--------------------------- MODULE QuickMode ---------------------------
(***************************************************************************)
(* The solo mode of the server, service/quickmode_service.c: the list of   *)
(* sessions, one for each game being played, and the requests on them.     *)
(* Nothing of a game is stored but the counts of dao_stats.c at its end.   *)
(*                                                                         *)
(* Of the logins only what the service can see is kept: the user_id of     *)
(* each connection, and whether the dispatcher still takes its token.      *)
(* Module Sessions models how they come about.                             *)
(***************************************************************************)
EXTENDS Integers, FiniteSets, FiniteSetsExt, Functions

CONSTANTS
  Users,         \* user_id of the accounts
  Conns,         \* the client connections
  Rounds,        \* questions in a game, 15 in the code
  MaxLifelines,  \* 50:50 lifelines in a game, 2 in the code
  MaxStarts      \* bound of the model: games ever started

ASSUME QuickModeAssumption ==
  /\ 0 \notin Users
  /\ IsFiniteSet(Users)
  /\ Rounds \in Nat \ {0}
  /\ MaxLifelines \in Nat
  /\ MaxStarts \in Nat

VARIABLES
  games,    \* active_sessions, the QuickModeSession of every running game
  started,  \* how many games were started so far
  stats,    \* per user, quickmode_games and quickmode_wins of table users
  who,      \* per connection, the user_id of its ClientSession
  accepted  \* per connection, whether its access token is still accepted

vars == <<games, started, stats, who, accepted>>
loginVars == <<who, accepted>>

NoUser == 0

\* nr is the game's place in the list: the newest game comes first.
QuickModeSession ==
  [nr : 1..MaxStarts, id : 1..MaxStarts, user : Users, round : 0..Rounds,
   answered : SUBSET (1..Rounds), score : Nat, used : 0..MaxLifelines]

-----------------------------------------------------------------------------
(* The list of sessions *)

\* quickmode_session_find, as a set of at most one game.
GamesOf(u) == {g \in games : g.user = u}

\* Seeded fault: The handlers do not compare the user of the session.
FoundForAnyone(id, u) ==
  {g \in games : g.id = id /\ \A h \in games : h.id = id => h.nr <= g.nr}

\* quickmode_session_find_by_id finds the newest game with the identifier; the
\* handlers refuse it when it belongs to somebody else.
Found(id, u) ==
  {g \in games : /\ g.id = id
                 /\ g.user = u
                 /\ \A h \in games : h.id = id => h.nr <= g.nr}

Replaced(g, h) == (games \ {g}) \cup {h}

\* quickmode_session_new takes the identifier from the second and a random
\* number below 1000: two games started in the same second may share it.
NewIds == {started + 1} \cup {g.id : g \in games}

NewSession(u, id) ==
  [nr |-> started + 1, id |-> id, user |-> u, round |-> 0, answered |-> {},
   score |-> 0, used |-> 0]

\* Seeded fault: quickmode_handle_start looks at the newest game only.
CanStartNewest(u) == \A g \in GamesOf(u) : \E h \in games : h.nr > g.nr

CanStart(u) == GamesOf(u) = {}

\* Seeded fault: quickmode_handle_submit_answer refuses only
\* the round answered last.
CanAnswerNotLast(g, round) == round # g.round

CanAnswer(g, round) == round \notin g.answered
CanUseLifeline(g, round) == g.used < MaxLifelines /\ round \notin g.answered

Answered(g, round, right) ==
  [g EXCEPT !.answered = @ \cup {round},
            !.score = IF right THEN @ + 1 ELSE @,
            !.round = round]

\* Seeded fault: an off-by-one in the test for the last round.
GameOverEarly(round, right) == ~right \/ round = Rounds - 1

GameOver(round, right) == ~right \/ round = Rounds

\* dao_stats_update_quickmode_game, whose failure nobody looks at.
Counted(u, won) ==
  \/ stats' = [stats EXCEPT ![u] = [games |-> @.games + 1,
                                    wins |-> @.wins + (IF won THEN 1 ELSE 0)]]
  \/ UNCHANGED stats

-----------------------------------------------------------------------------
(* Requests *)

\* A game whose questions cannot be loaded is taken off the list at once.
Start(c, id) ==
  /\ accepted[c]
  /\ CanStart(who[c])
  /\ started < MaxStarts
  /\ id \in NewIds
  /\ games' = games \cup {NewSession(who[c], id)}
  /\ started' = started + 1
  /\ UNCHANGED <<stats, loginVars>>

\* Seeded fault: quickmode_handle_game_over frees the session only after a win.
SubmitAnswerKept(c, id, round, right) ==
  /\ accepted[c]
  /\ \E g \in Found(id, who[c]) :
       /\ CanAnswer(g, round)
       /\ IF GameOver(round, right)
          THEN /\ games' = IF right THEN games \ {g} ELSE games
               /\ Counted(g.user, right)
          ELSE games' = Replaced(g, Answered(g, round, right)) /\ UNCHANGED stats
  /\ UNCHANGED <<started, loginVars>>

\* Any round that has no answer yet may be answered; the right answer to the
\* last round wins.
SubmitAnswer(c, id, round, right) ==
  /\ accepted[c]
  /\ \E g \in Found(id, who[c]) :
       /\ CanAnswer(g, round)
       /\ IF GameOver(round, right)
          THEN games' = games \ {g} /\ Counted(g.user, right)
          ELSE games' = Replaced(g, Answered(g, round, right)) /\ UNCHANGED stats
  /\ UNCHANGED <<started, loginVars>>

UseLifeline(c, id, round) ==
  /\ accepted[c]
  /\ \E g \in Found(id, who[c]) :
       /\ CanUseLifeline(g, round)
       /\ games' = Replaced(g, [g EXCEPT !.used = @ + 1])
  /\ UNCHANGED <<started, stats, loginVars>>

-----------------------------------------------------------------------------
(* Logins: what the service sees of module Sessions *)

\* quickmode_cleanup_user
CleanupUser(u) == games' = games \ GamesOf(u)

\* A login needs an account without an active token; it may be made on a
\* connection that is logged in already, and then replaces its user.
Login(c, u) ==
  /\ \A d \in Conns : accepted[d] => who[d] # u
  /\ who' = [who EXCEPT ![c] = u]
  /\ accepted' = [accepted EXCEPT ![c] = TRUE]
  /\ UNCHANGED <<games, started, stats>>

\* By the cleanup of stale users, or by the end of another connection.
TokenExpires(c) ==
  /\ accepted[c]
  /\ accepted' = [accepted EXCEPT ![c] = FALSE]
  /\ UNCHANGED <<games, started, stats, who>>

\* Seeded fault: the session's token is left when its user is cleared.
LogoutKeepsToken(c) ==
  /\ accepted[c]
  /\ CleanupUser(who[c])
  /\ who' = [who EXCEPT ![c] = NoUser]
  /\ UNCHANGED <<started, stats, accepted>>

\* CMD_REQ_LOGOUT; the tokens are left as they are when the database fails,
\* but nothing is accepted from the connection any more.
Logout(c) ==
  /\ accepted[c]
  /\ CleanupUser(who[c])
  /\ who' = [who EXCEPT ![c] = NoUser]
  /\ accepted' = [accepted EXCEPT ![c] = FALSE]
  /\ UNCHANGED <<started, stats>>

\* The end of a connection, which expires every token of its user.
Disconnected(c) ==
  /\ who[c] # NoUser
  /\ CleanupUser(who[c])
  /\ who' = [who EXCEPT ![c] = NoUser]
  /\ accepted' = [d \in Conns |-> accepted[d] /\ d # c /\ who[d] # who[c]]
  /\ UNCHANGED <<started, stats>>

Restart ==
  /\ games' = {}
  /\ who' = [c \in Conns |-> NoUser]
  /\ accepted' = [c \in Conns |-> FALSE]
  /\ UNCHANGED <<started, stats>>

Init ==
  /\ games = {}
  /\ started = 0
  /\ stats = [u \in Users |-> [games |-> 0, wins |-> 0]]
  /\ who = [c \in Conns |-> NoUser]
  /\ accepted = [c \in Conns |-> FALSE]

LoginStep ==
  \/ \E c \in Conns : \/ \E u \in Users : Login(c, u)
                      \/ TokenExpires(c)
                      \/ Logout(c)
                      \/ Disconnected(c)
  \/ Restart

GameStep ==
  \E c \in Conns, id \in 1..MaxStarts :
    \/ Start(c, id)
    \/ \E round \in 1..Rounds : \/ \E right \in BOOLEAN : SubmitAnswer(c, id, round, right)
                                \/ UseLifeline(c, id, round)

Next == LoginStep \/ GameStep

Spec == Init /\ [][Next]_vars

-----------------------------------------------------------------------------
(* Properties *)

\* The variables have their types.
TypeOK ==
  /\ games \subseteq QuickModeSession
  /\ started \in 0..MaxStarts
  /\ stats \in [Users -> [games : Nat, wins : Nat]]
  /\ who \in [Conns -> Users \cup {NoUser}]
  /\ accepted \in [Conns -> BOOLEAN]

\* quickmode_handle_start: a user never has two games, however logins on
\* several connections, expired tokens and starts follow each other.  The
\* lookups by user and the cleanup at a logout handle only one.
OneGameEach == \A g, h \in games : g.user = h.user => g = h

\* quickmode_handle_submit_answer: each round counts once.  A running game has
\* only right answers, one for each point.
ScoreIsRight == \A g \in games : g.score = Cardinality(g.answered)

\* The inductive invariant: the above, and that no token is accepted without a
\* user (CMD_REQ_LOGOUT clears both).
GamesInv ==
  /\ TypeOK
  /\ OneGameEach
  /\ ScoreIsRight
  /\ \A c \in Conns : accepted[c] => who[c] # NoUser

\* dao_stats_update_quickmode_game is called at most once for a game: the games
\* counted and the games still running were all started.
CountedOnce ==
  Cardinality(games) + SumFunctionOnSet([u \in Users |-> stats[u].games], Users) <= started

\* A game changes or ends only while its user is on some connection, also when
\* two games share an identifier.
OnlyItsPlayer ==
  [][\A g \in games : \/ g \in games'
                      \/ \E c \in Conns : who[c] = g.user
                      \/ games' = {}]_vars

=============================================================================
