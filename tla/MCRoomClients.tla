----------------------------- MODULE MCRoomClients -----------------------------
(* Small instances of RoomClients for TLC.                                 *)
EXTENDS RoomClients, TLC

CONSTANTS h, a, b

Symmetry == Permutations(Socket) \cup Permutations(Story)
                \cup Permutations(Voter \ {Creator})
=============================================================================
