---------------------------- MODULE MCLocationIndex ----------------------------
(* A small instance; drivers and calls are alike.                          *)
EXTENDS LocationIndex, TLC

CONSTANTS d1, d2, c1, c2

Alike == Permutations({d1, d2}) \cup Permutations({c1, c2})
==============================================================================
