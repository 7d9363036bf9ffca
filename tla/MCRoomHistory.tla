----------------------------- MODULE MCRoomHistory -----------------------------
(* RoomHistory on the instances of MCRoom.                                 *)
EXTENDS RoomHistory, MCRoom
=============================================================================
