----------------------------- MODULE MCMatching -----------------------------
(* One ride, up to three drivers, two handlers at a time. *)
EXTENDS Matching, TLC

CONSTANTS r1, d1, d2, d3, o1, o2, o3, w1, w2

\* Nothing tells drivers, offers or workers apart.
Alike == Permutations(Drivers) \cup Permutations(Offers) \cup Permutations(Workers)
=============================================================================
