---------------------------- MODULE MCJoinedRooms ----------------------------
(* Instance of JoinedRooms for TLC. *)
EXTENDS JoinedRooms
=============================================================================
