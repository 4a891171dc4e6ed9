------------------------ MODULE MCFriendsClient ------------------------
(***************************************************************************)
(* The instance of FriendsClient for TLC: two users, who are model values  *)
(* and may be exchanged for each other.                                    *)
(***************************************************************************)
EXTENDS FriendsClient

CONSTANTS u1, u2

Symmetry == Permutations(Users)
=============================================================================
