--------------------------- MODULE MCRideService ---------------------------
(* Request sets for the runs of RideService. *)
EXTENDS RideService

CONSTANTS r1, r2, o1, o2, d1, d2, k1

Call0(op, id) == [op |-> op, key |-> None, id |-> id, driver |-> None]
CallD(op, id, d) == [op |-> op, key |-> None, id |-> id, driver |-> d]
CallK(op, id, k) == [op |-> op, key |-> k, id |-> id, driver |-> None]

\* The same key on a creation, sent again, and on a cancellation.
KeyRequests ==
  {CallK("CreateRide", None, k1), CallK("CancelRide", r1, k1), Call0("CancelRide", r1)}

\* Every operation on a ride and its offer; the creation of the ride and the accept of
\* the offer carry the same key.
AllRequests ==
  {CallK("CreateRide", None, k1), CallK("AcceptOffer", o1, k1), Call0("DeclineOffer", o1)}
  \cup {Call0(op, r1) : op \in {"StartMatching", "StartRide", "CompleteRide", "CancelRide"}}
  \cup {CallD(op, r1, d1) : op \in {"AssignDriver", "CreateOffer"}}
=============================================================================
