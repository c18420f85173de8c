--------------------------- MODULE MCRoomSessions ---------------------------
(* TLC instance of RoomSessions. *)
EXTENDS RoomSessions, TLC

\* The names are interchangeable.
NamesAlike == Permutations(Names)
=============================================================================
