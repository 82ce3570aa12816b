----------------------------- MODULE MCConnection -----------------------------
(* Small instances of Connection for TLC.                                   *)
EXTENDS Connection
==============================================================================
