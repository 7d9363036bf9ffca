---------------------------- MODULE MCRoomCreation ----------------------------
(***************************************************************************)
(* Small instances of RoomCreation.                                        *)
(***************************************************************************)
EXTENDS RoomCreation, TLC

CONSTANTS c1, c2, l1, x1, x2

Symmetry == Permutations(Creation) \cup Permutations(Slug)
=============================================================================
