---------------------------- MODULE MCUserAccounts ----------------------------
(* A small instance; calls and devices are alike.                          *)
EXTENDS UserAccounts, TLC

Alike == Permutations(Calls)
==============================================================================
