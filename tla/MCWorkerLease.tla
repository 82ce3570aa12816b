--------------------------- MODULE MCWorkerLease ---------------------------
(***************************************************************************)
(* TLC instances of WorkerLease.  One run keeps the skew of wall clocks      *)
(* below the latency of a statement, the other lets them be equal.           *)
(***************************************************************************)
EXTENDS WorkerLease, TLC

CONSTANTS p1, p2

MCProcs == {p1, p2}
Perms   == Permutations(Procs)
=============================================================================
