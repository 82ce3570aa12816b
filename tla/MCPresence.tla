------------------------------ MODULE MCPresence ------------------------------
(* A small instance of Presence for TLC.                                    *)
EXTENDS Presence

CONSTANTS c1, c2

MCConns == {c1, c2}
AnyBreaks == {"connection", "grain"}
==============================================================================
