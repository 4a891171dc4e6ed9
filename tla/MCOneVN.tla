---------------------------- MODULE MCOneVN ----------------------------
(***************************************************************************)
(* Values of the constants of OneVN and OneVNMatch for TLC.                *)
(***************************************************************************)
EXTENDS OneVNMatch

Config(easy, medium, hard) ==
  [d \in Difficulties |-> CASE d = "EASY" -> easy [] d = "MEDIUM" -> medium [] d = "HARD" -> hard]

\* Two rounds of different difficulty.
TwoRounds == Config(1, 1, 0)

OnlyTwoRounds == {TwoRounds}

\* Four rounds: long enough for a streak bonus.
FourRounds == Config(2, 1, 1)

\* Beside it the counts a client may send: none at all (the default is
\* taken), a negative one beside positive ones, a sum that leaves no round, one
\* that no game can be set up for.
ManyConfigs == {FourRounds, NoConfig, Config(1, -1, 0), Config(-1, 2, 1), Config(2, 0, -1),
                Config(-12, 0, 1)}

\* Only one round, for the runs that need two games or more.
OneRound == Config(1, 0, 0)

OnlyOneRound == {OneRound}
=============================================================================
