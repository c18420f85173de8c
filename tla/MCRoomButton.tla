---------------------------- MODULE MCRoomButton ----------------------------
(* RoomButton for TLC.                                                     *)
EXTENDS RoomButton
=============================================================================
