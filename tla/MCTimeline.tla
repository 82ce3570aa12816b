----------------------------- MODULE MCTimeline -----------------------------
(* Small instances of Timeline for TLC.                                     *)
EXTENDS Timeline

\* The third and the fifth event fall on a new day.
MCDay == [e \in 1..MaxEvent |-> <<1, 1, 2, 2, 3, 3, 3>>[e]]
=============================================================================
