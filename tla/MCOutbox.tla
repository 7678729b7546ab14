------------------------------ MODULE MCOutbox ------------------------------
(* A few rows, each of its own ride or two of them of one ride. *)
EXTENDS Outbox

CONSTANTS m1, m2, m3, w1, w2

EachItsRide == [m \in Msgs |-> m]
TwoOfOneRide == [m \in Msgs |-> IF m = m3 THEN m3 ELSE m1]
=============================================================================
