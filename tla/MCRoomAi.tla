-------------------------------- MODULE MCRoomAi --------------------------------
(* Small instances of RoomAi for TLC.                                      *)
EXTENDS RoomAi, TLC

CONSTANTS h, a

Symmetry == Permutations(Socket) \cup Permutations(Text)
=============================================================================
