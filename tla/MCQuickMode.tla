-------------------------- MODULE MCQuickMode --------------------------
(***************************************************************************)
(* The instance of QuickMode for TLC: users and connections are model      *)
(* values and interchangeable.                                             *)
(***************************************************************************)
EXTENDS QuickMode, TLC

Symmetry == Permutations(Users) \cup Permutations(Conns)
=============================================================================
