--------------------------- MODULE RideLifecycle ---------------------------
(***************************************************************************)
(* What the ride service promises about its tables: every operation on a   *)
(* ride or on an offer is one atomic step that moves one row along an edge  *)
(* of its state machine and appends one event to the outbox.  RideService   *)
(* shows that the optimistic transactions of the code implement this.      *)
(***************************************************************************)
EXTENDS Naturals, Sequences

CONSTANTS
  Rides,    \* ride ids (uuids drawn by CreateRide)
  Offers,   \* offer ids (uuids drawn by CreateOffer)
  Drivers,  \* driver ids
  None      \* SQL NULL, the empty string, "no such row"

ASSUME IdsDiffer == /\ Rides \cap Offers = {}
                    /\ None \notin Rides \cup Offers \cup Drivers

VARIABLES
  ride,     \* table rides: status and driver_id of each ride
  offer,    \* table ride_offers: status, ride_id and driver_id of each offer
  outbox    \* the events of the committed operations, in commit order

tables == <<ride, offer, outbox>>

RideStatus == {"REQUESTED", "MATCHING", "OFFERED", "DRIVER_ASSIGNED",
               "IN_PROGRESS", "COMPLETED", "CANCELLED"}
OfferStatus == {"PENDING", "ACCEPTED", "DECLINED", "EXPIRED"}
Outcomes == OfferStatus \ {"PENDING"}

\* A row that does not exist yet has status "ABSENT".
RideRow == [status: RideStatus \cup {"ABSENT"}, driver: Drivers \cup {None}]
OfferRow == [status: OfferStatus \cup {"ABSENT"},
             ride: Rides \cup {None}, driver: Drivers \cup {None}]

NoRide == [status |-> "ABSENT", driver |-> None]
NoOffer == [status |-> "ABSENT", ride |-> None, driver |-> None]

RideEdges ==
  {<<"REQUESTED", "MATCHING">>, <<"REQUESTED", "CANCELLED">>,
   <<"MATCHING", "OFFERED">>, <<"MATCHING", "CANCELLED">>,
   <<"OFFERED", "DRIVER_ASSIGNED">>, <<"OFFERED", "CANCELLED">>,
   <<"DRIVER_ASSIGNED", "IN_PROGRESS">>, <<"DRIVER_ASSIGNED", "CANCELLED">>,
   <<"IN_PROGRESS", "COMPLETED">>}

\* Ride.Transition and RideOffer.Transition: the next status is accepted when it
\* is the current one (a no-op that succeeds) or when it is along an edge.
RideCanMove(from, to) == from = to \/ <<from, to>> \in RideEdges
OfferCanMove(from, to) == from = to \/ (from = "PENDING" /\ to \in Outcomes)

\* The statuses an operation moves a row to; each has an event topic.
Announced == (RideStatus \ {"OFFERED"}) \cup OfferStatus
TopicOf(s) ==
  CASE s = "REQUESTED" -> "ride.requested"
    [] s = "MATCHING" -> "ride.matching.started"
    [] s = "DRIVER_ASSIGNED" -> "ride.driver.assigned"
    [] s = "IN_PROGRESS" -> "ride.in_progress"
    [] s = "COMPLETED" -> "ride.completed"
    [] s = "CANCELLED" -> "ride.cancelled"
    [] s = "PENDING" -> "ride.offer.sent"
    [] s = "ACCEPTED" -> "ride.offer.accepted"
    [] s = "DECLINED" -> "ride.offer.declined"
    [] s = "EXPIRED" -> "ride.offer.expired"
    [] OTHER -> "none"

Topics == {TopicOf(s) : s \in Announced}
Event == [topic: Topics, id: Rides \cup Offers]
EventOf(s, id) == [topic |-> TopicOf(s), id |-> id]

-----------------------------------------------------------------------------
InitTables ==
  /\ ride = [r \in Rides |-> NoRide]
  /\ offer = [o \in Offers |-> NoOffer]
  /\ outbox = <<>>

Announce(s, id) == outbox' = Append(outbox, EventOf(s, id))

RideCreated(r) ==
  /\ ride[r].status = "ABSENT"
  /\ ride' = [ride EXCEPT ![r] = [status |-> "REQUESTED", driver |-> None]]
  /\ Announce("REQUESTED", r)
  /\ UNCHANGED offer

RideMoved(r, s) ==
  /\ ride[r].status # "ABSENT"
  /\ RideCanMove(ride[r].status, s)
  /\ ride' = [ride EXCEPT ![r].status = s]
  /\ Announce(s, r)
  /\ UNCHANGED offer

DriverAssigned(r, d) ==
  /\ ride[r].status # "ABSENT"
  /\ RideCanMove(ride[r].status, "DRIVER_ASSIGNED")
  /\ ride' = [ride EXCEPT ![r] = [status |-> "DRIVER_ASSIGNED", driver |-> d]]
  /\ Announce("DRIVER_ASSIGNED", r)
  /\ UNCHANGED offer

\* OFFERED is written without an event (and by no operation of the service).
RideOffered(r) ==
  /\ ride[r].status = "MATCHING"
  /\ ride' = [ride EXCEPT ![r].status = "OFFERED"]
  /\ UNCHANGED <<offer, outbox>>

OfferCreated(o, r, d) ==
  /\ offer[o].status = "ABSENT"
  /\ ride[r].status # "ABSENT"
  /\ offer' = [offer EXCEPT ![o] = [status |-> "PENDING", ride |-> r, driver |-> d]]
  /\ Announce("PENDING", o)
  /\ UNCHANGED ride

OfferSettled(o, s) ==
  /\ offer[o].status # "ABSENT"
  /\ OfferCanMove(offer[o].status, s)
  /\ offer' = [offer EXCEPT ![o].status = s]
  /\ Announce(s, o)
  /\ UNCHANGED ride

NextTables ==
  \/ \E r \in Rides :
       \/ RideCreated(r)
       \/ \E s \in {"MATCHING", "IN_PROGRESS", "COMPLETED", "CANCELLED"} : RideMoved(r, s)
       \/ \E d \in Drivers : DriverAssigned(r, d)
       \/ RideOffered(r)
  \/ \E o \in Offers :
       \/ \E r \in Rides, d \in Drivers : OfferCreated(o, r, d)
       \/ \E s \in Outcomes : OfferSettled(o, s)

Lifecycle == InitTables /\ [][NextTables]_tables

-----------------------------------------------------------------------------
TablesTypeOK ==
  /\ ride \in [Rides -> RideRow]
  /\ offer \in [Offers -> OfferRow]
  /\ outbox \in Seq(Event)

\* Row id was announced last with topic t.
LastTopic(id, t) ==
  \E i \in 1..Len(outbox) :
    /\ outbox[i] = [topic |-> t, id |-> id]
    /\ \A j \in (i + 1)..Len(outbox) : outbox[j].id # id

\* A consumer that folds the outbox knows every row: the last event about a ride
\* or an offer names its present status, and a row that does not exist has none.
\* (OFFERED is the exception: the write of it is not announced.)
OutboxTellsStatus ==
  /\ \A r \in Rides : ride[r].status \in Announced =>
       LastTopic(r, TopicOf(ride[r].status))
  /\ \A o \in Offers : offer[o].status # "ABSENT" =>
       LastTopic(o, TopicOf(offer[o].status))
  /\ \A i \in 1..Len(outbox) :
       IF outbox[i].id \in Rides THEN ride[outbox[i].id].status # "ABSENT"
                                 ELSE offer[outbox[i].id].status # "ABSENT"

\* However accepts, declines and expiries race, the events of one offer never
\* announce two different outcomes.
OneOutcome ==
  \A i, j \in 1..Len(outbox) :
    LET out == {TopicOf(s) : s \in Outcomes}
    IN  (outbox[i].id = outbox[j].id /\ outbox[i].topic \in out /\ outbox[j].topic \in out)
          => outbox[i].topic = outbox[j].topic

\* driver_id is set exactly while a driver has the ride: never before the
\* assignment, always after it (a cancelled ride may have had one).
DriverMatchesStatus ==
  \A r \in Rides :
    /\ ride[r].status \in {"DRIVER_ASSIGNED", "IN_PROGRESS", "COMPLETED"} => ride[r].driver # None
    /\ ride[r].status \in {"ABSENT", "REQUESTED", "MATCHING", "OFFERED"} => ride[r].driver = None

\* A reassignment (AssignDriver of an assigned ride is accepted) never changes the
\* driver of a ride that has started or ended, and a ride that has ended stays so.
StartedRideIsFixed ==
  [][\A r \in Rides :
       ride[r].status \in {"IN_PROGRESS", "COMPLETED", "CANCELLED"} =>
         /\ ride'[r].driver = ride[r].driver
         /\ ride'[r].status = ride[r].status
            \/ (ride[r].status = "IN_PROGRESS" /\ ride'[r].status = "COMPLETED")]_tables
=============================================================================
