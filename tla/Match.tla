----------------------------- MODULE Match -----------------------------
(***************************************************************************)
(* What the 1vN mode promises of its matches, whatever the server keeps in *)
(* memory and whatever in its tables: a match begins once, with two players*)
(* at least and as the only open one of its room; it ends at most once; who*)
(* wins it took part in it; and the win is counted with the result, once,  *)
(* and for good.  OneVNMatch shows that the engine implements this.        *)
(***************************************************************************)
EXTENDS Integers

CONSTANTS
  Users,   \* the accounts
  Rooms,   \* the rooms
  Ids,     \* names of matches
  None     \* no room yet, or no winner

VARIABLES
  match,   \* the matches, by name
  wins     \* matches won, by user

vars == <<match, wins>>

\* "none": not begun.  "lost": begun and never to be played on, because the
\* process that knew it is gone or never took it on.
Stages == {"none", "played", "lost", "won", "aborted"}

\* players: who takes part, as long as the match is played.
Match(stage, r, players, winner) ==
  [stage |-> stage, room |-> r, players |-> players, winner |-> winner]

\* Matches of a room that have no result.
Open(r) == {s \in Ids : match[s].room = r /\ match[s].stage \in {"played", "lost"}}

\* A match gets a result, or gets none and never will, or may be played on.
Won(s, r, u) ==
  /\ match' = [match EXCEPT ![s] = Match("won", r, {}, u)]
  /\ wins' = [wins EXCEPT ![u] = @ + 1]

NotWon(s, r, stage) ==
  /\ match' = [match EXCEPT ![s] = Match(stage, r, {}, None)]
  /\ UNCHANGED wins

Played(s, r, players) ==
  /\ match' = [match EXCEPT ![s] = Match("played", r, players, None)]
  /\ UNCHANGED wins

\* A match begins.  It may be over at once.
Begin(s, r, players) ==
  /\ match[s].stage = "none"
  /\ \E u, v \in players : u # v
  /\ Open(r) = {}
  /\ \/ Played(s, r, players)
     \/ NotWon(s, r, "lost")
     \/ NotWon(s, r, "aborted")
     \/ \E u \in players : Won(s, r, u)

\* A match that is played ends, with a winner among its players or without.
End(s) ==
  /\ match[s].stage = "played"
  /\ \/ NotWon(s, match[s].room, "aborted")
     \/ \E u \in match[s].players : Won(s, match[s].room, u)

\* All matches that are played are lost.
Lose ==
  /\ match' = [s \in Ids |-> IF match[s].stage = "played"
                             THEN [match[s] EXCEPT !.stage = "lost", !.players = {}]
                             ELSE match[s]]
  /\ UNCHANGED wins

Next ==
  \/ \E s \in Ids : \/ \E r \in Rooms, players \in SUBSET Users : Begin(s, r, players)
                    \/ End(s)
  \/ Lose

Init ==
  /\ match = [s \in Ids |-> Match("none", None, {}, None)]
  /\ wins = [u \in Users |-> 0]

Spec == Init /\ [][Next]_vars
=============================================================================
