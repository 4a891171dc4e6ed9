------------------------- MODULE MCOneVNAnswers -------------------------
(***************************************************************************)
(* Values of the constants of OneVNAnswers for TLC.                        *)
(***************************************************************************)
EXTENDS OneVNAnswers

\* Two rounds, so that there is a round for an answer to be late for.
TwoRounds == [d \in Difficulties |-> IF d = "HARD" THEN 0 ELSE 1]

OnlyTwoRounds == {TwoRounds}
=============================================================================
