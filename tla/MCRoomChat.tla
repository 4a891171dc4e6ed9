--------------------------- MODULE MCRoomChat ---------------------------
(***************************************************************************)
(* The instance of RoomChat for TLC: the users are model values and may be *)
(* exchanged for each other.                                               *)
(***************************************************************************)
EXTENDS RoomChat, TLC

CONSTANTS u1, u2

Symmetry == Permutations(Users)
=============================================================================
