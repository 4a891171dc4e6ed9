--------------------------- MODULE MCSessions ---------------------------
(***************************************************************************)
(* The instance of Sessions for TLC: users and connections are model values*)
(* and interchangeable.                                                    *)
(***************************************************************************)
EXTENDS Sessions, TLC

Symmetry == Permutations(Users) \cup Permutations(Conns)
=============================================================================
