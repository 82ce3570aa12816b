----------------------------- MODULE MCAccounts -----------------------------
(* Small instances of Accounts for TLC.                                     *)
EXTENDS Accounts, TLC

CONSTANTS g1, g2, w1, w2

MCMails == {1}
MCGateways == {g1, g2}
MCWorkers == {w1, w2}
MCSymmetry == Permutations(MCGateways) \cup Permutations(MCWorkers)
=============================================================================
