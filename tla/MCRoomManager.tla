--------------------------- MODULE MCRoomManager ----------------------------
(* TLC instance of RoomManager. *)
EXTENDS RoomManager
=============================================================================
