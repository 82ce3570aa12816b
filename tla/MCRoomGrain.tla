----------------------------- MODULE MCRoomGrain -----------------------------
(* Small instances of RoomGrain for TLC.                                   *)
EXTENDS RoomGrain

MCUsers == 1..2

MCAlone == {1}
=============================================================================
