--------------------------- MODULE OneVNMatch ---------------------------
(***************************************************************************)
(* The engine implements Match: a match is a session of the database,      *)
(* played as long as it has a live game.                                   *)
(***************************************************************************)
EXTENDS OneVN

\* The stage a row tells of when the session has no live game.
StageOfRow == [NONE |-> "none", IN_PROGRESS |-> "lost",
               FINISHED |-> "won", ABORTED |-> "aborted"]

\* What only memory knows: whether the session has a live game (game_states),
\* and who plays in it.
StageOf(s) == IF s \in DOMAIN games THEN "played" ELSE StageOfRow[session[s].status]

MatchOf(s) == [stage |-> StageOf(s), room |-> session[s].room,
               players |-> IF s \in DOMAIN games THEN games[s].players ELSE {},
               winner |-> session[s].winner]

Matches == [s \in SessionIds |-> MatchOf(s)]

Wins == [u \in Users |-> stats[u].wins]

M == INSTANCE Match WITH Ids <- SessionIds, None <- NoUser, match <- Matches, wins <- Wins

\* Every step of the engine is a step of Match or leaves the matches as they
\* are: a session begins and ends once, whatever requests, timers, full tables
\* and restarts do, its winner is one of its players, and a win is counted in
\* the step that writes the result (handle_start_game, end_game).
ImplementsMatch == M!Spec
=============================================================================
