------------------------- MODULE RideServiceProofs -------------------------
(***************************************************************************)
(* Invariants of the atomic ride lifecycle, for any number of rides,       *)
(* offers and drivers and any length of the outbox; then the ride service  *)
(* implements it, and its idempotency keys work, for any number of keys,   *)
(* handlers and expiry workers, any requests and any bounds.               *)
(***************************************************************************)
EXTENDS RideService, TLAPS

(* ------------------------- the atomic lifecycle ------------------------ *)

\* Distinct statuses are announced under distinct topics.
LEMMA TopicsDiffer ==
  ASSUME NEW s \in Announced, NEW t \in Announced, TopicOf(s) = TopicOf(t)
  PROVE  s = t
BY DEF TopicOf, Announced, RideStatus, OfferStatus

\* Every status an operation moves a row to is announced.
LEMMA AnnouncedStatuses ==
  /\ OfferStatus \subseteq Announced
  /\ Outcomes \subseteq Announced
  /\ {"REQUESTED", "MATCHING", "DRIVER_ASSIGNED", "IN_PROGRESS", "COMPLETED", "CANCELLED",
      "PENDING"} \subseteq Announced
BY DEF Announced, RideStatus, OfferStatus, Outcomes

LEMMA AnnounceTyped ==
  ASSUME outbox \in Seq(Event), NEW s \in Announced, NEW id \in Rides \cup Offers,
         Announce(s, id)
  PROVE  outbox' \in Seq(Event)
<1>1. EventOf(s, id) \in Event
  BY DEF EventOf, Event, Topics
<1>2. QED
  BY <1>1 DEF Announce

-----------------------------------------------------------------------------
\* Every operation keeps the tables typed.
LEMMA TablesStep == TablesTypeOK /\ [NextTables]_tables => TablesTypeOK'
<1> SUFFICES ASSUME TablesTypeOK, [NextTables]_tables PROVE TablesTypeOK'
  OBVIOUS
<1> USE AnnouncedStatuses, AnnounceTyped DEF TablesTypeOK
<1>1. ASSUME NEW r \in Rides, RideCreated(r) PROVE TablesTypeOK'
  BY <1>1 DEF RideCreated, RideRow, RideStatus
<1>2. ASSUME NEW r \in Rides, NEW s \in {"MATCHING", "IN_PROGRESS", "COMPLETED", "CANCELLED"},
             RideMoved(r, s)
      PROVE TablesTypeOK'
  <2>1. ride' \in [Rides -> RideRow]
    BY <1>2 DEF RideMoved, RideRow, RideStatus
  <2>2. QED
    BY <1>2, <2>1 DEF RideMoved
<1>3. ASSUME NEW r \in Rides, NEW d \in Drivers, DriverAssigned(r, d) PROVE TablesTypeOK'
  BY <1>3 DEF DriverAssigned, RideRow, RideStatus
<1>4. ASSUME NEW r \in Rides, RideOffered(r) PROVE TablesTypeOK'
  BY <1>4 DEF RideOffered, RideRow, RideStatus
<1>5. ASSUME NEW o \in Offers, NEW r \in Rides, NEW d \in Drivers, OfferCreated(o, r, d)
      PROVE TablesTypeOK'
  <2>1. offer' \in [Offers -> OfferRow]
    BY <1>5 DEF OfferCreated, OfferRow, OfferStatus
  <2>2. QED
    BY <1>5, <2>1 DEF OfferCreated
<1>6. ASSUME NEW o \in Offers, NEW s \in Outcomes, OfferSettled(o, s) PROVE TablesTypeOK'
  <2>1. offer' \in [Offers -> OfferRow]
    BY <1>6 DEF OfferSettled, OfferRow, OfferStatus, Outcomes
  <2>2. QED
    BY <1>6, <2>1 DEF OfferSettled
<1>7. CASE UNCHANGED tables
  BY <1>7 DEF tables
<1>8. QED
  BY <1>1, <1>2, <1>3, <1>4, <1>5, <1>6, <1>7 DEF NextTables

\* The tables and the outbox keep their types.
THEOREM LifecycleTypes == Lifecycle => []TablesTypeOK
<1>1. InitTables => TablesTypeOK
  BY DEF InitTables, TablesTypeOK, NoRide, NoOffer, RideRow, OfferRow
<1>2. QED
  BY <1>1, TablesStep, PTL DEF Lifecycle

-----------------------------------------------------------------------------
\* The driver column agrees with the status column.
THEOREM LifecycleDrivers == Lifecycle => []DriverMatchesStatus
<1>1. InitTables => DriverMatchesStatus
  <2> SUFFICES ASSUME InitTables PROVE DriverMatchesStatus
    OBVIOUS
  <2>1. \A r \in Rides : ride[r].status = "ABSENT" /\ ride[r].driver = None
    BY DEF InitTables, NoRide
  <2>2. QED
    BY <2>1 DEF DriverMatchesStatus
<1>2. TablesTypeOK /\ DriverMatchesStatus /\ [NextTables]_tables => DriverMatchesStatus'
  <2> SUFFICES ASSUME TablesTypeOK, DriverMatchesStatus, [NextTables]_tables
               PROVE DriverMatchesStatus'
    OBVIOUS
  <2> USE DEF TablesTypeOK, DriverMatchesStatus, RideRow
  <2>1. ASSUME NEW r \in Rides, RideCreated(r) PROVE DriverMatchesStatus'
    BY <2>1 DEF RideCreated
  <2>2. ASSUME NEW r \in Rides, NEW s \in {"MATCHING", "IN_PROGRESS", "COMPLETED", "CANCELLED"},
               RideMoved(r, s)
        PROVE DriverMatchesStatus'
    BY <2>2 DEF RideMoved, RideCanMove, RideEdges
  <2>3. ASSUME NEW r \in Rides, NEW d \in Drivers, DriverAssigned(r, d) PROVE DriverMatchesStatus'
    BY <2>3, IdsDiffer DEF DriverAssigned
  <2>4. ASSUME NEW r \in Rides, RideOffered(r) PROVE DriverMatchesStatus'
    BY <2>4 DEF RideOffered
  <2>5. CASE UNCHANGED ride
    BY <2>5
  <2>6. QED
    BY <2>1, <2>2, <2>3, <2>4, <2>5 DEF NextTables, tables, OfferCreated, OfferSettled
<1>3. QED
  BY <1>1, <1>2, LifecycleTypes, PTL DEF Lifecycle

-----------------------------------------------------------------------------
\* A started ride keeps its driver, an ended one its status.
THEOREM LifecycleFixed == Lifecycle => StartedRideIsFixed
<1> DEFINE Fixed == \A r \in Rides :
       ride[r].status \in {"IN_PROGRESS", "COMPLETED", "CANCELLED"} =>
         /\ ride'[r].driver = ride[r].driver
         /\ ride'[r].status = ride[r].status
            \/ (ride[r].status = "IN_PROGRESS" /\ ride'[r].status = "COMPLETED")
<1>1. TablesTypeOK /\ [NextTables]_tables => [Fixed]_tables
  <2> SUFFICES ASSUME TablesTypeOK, NextTables PROVE Fixed
    OBVIOUS
  <2> USE DEF TablesTypeOK, RideRow
  <2>1. ASSUME NEW r \in Rides, RideCreated(r) PROVE Fixed
    BY <2>1 DEF RideCreated
  <2>2. ASSUME NEW r \in Rides, NEW s \in {"MATCHING", "IN_PROGRESS", "COMPLETED", "CANCELLED"},
               RideMoved(r, s)
        PROVE Fixed
    BY <2>2 DEF RideMoved, RideCanMove, RideEdges
  <2>3. ASSUME NEW r \in Rides, NEW d \in Drivers, DriverAssigned(r, d) PROVE Fixed
    BY <2>3 DEF DriverAssigned, RideCanMove, RideEdges
  <2>4. ASSUME NEW r \in Rides, RideOffered(r) PROVE Fixed
    BY <2>4 DEF RideOffered
  <2>5. CASE UNCHANGED ride
    BY <2>5
  <2>6. QED
    BY <2>1, <2>2, <2>3, <2>4, <2>5 DEF NextTables, OfferCreated, OfferSettled
<1>2. QED
  BY <1>1, LifecycleTypes, PTL DEF Lifecycle, StartedRideIsFixed
-----------------------------------------------------------------------------
\* What one more event does to the record of the events.
OneMore(s, id) ==
  /\ Len(outbox') = Len(outbox) + 1
  /\ Len(outbox) \in Nat
  /\ \A i \in 1..Len(outbox) : outbox'[i] = outbox[i] /\ outbox[i].id \in Rides \cup Offers
  /\ outbox'[Len(outbox) + 1] = [topic |-> TopicOf(s), id |-> id]

LEMMA AnnounceShape ==
  ASSUME outbox \in Seq(Event), NEW s \in Announced, NEW id \in Rides \cup Offers,
         Announce(s, id)
  PROVE  OneMore(s, id)
<1>1. \A i \in 1..Len(outbox) : outbox[i].id \in Rides \cup Offers
  <2>1. \A i \in 1..Len(outbox) : outbox[i] \in Event
    OBVIOUS
  <2>2. QED
    BY <2>1 DEF Event
<1>2. outbox' = Append(outbox, [topic |-> TopicOf(s), id |-> id])
  BY DEF Announce, EventOf
<1>3. QED
  BY <1>1, <1>2 DEF OneMore

\* The row it is about is known by it; every other row is known as before.
LEMMA AnnounceLast ==
  ASSUME outbox \in Seq(Event), NEW s \in Announced, NEW id \in Rides \cup Offers,
         Announce(s, id)
  PROVE  /\ LastTopic(id, TopicOf(s))'
         /\ \A x \in (Rides \cup Offers) \ {id}, t \in Topics :
              LastTopic(x, t) => LastTopic(x, t)'
<1>0. OneMore(s, id)
  BY AnnounceShape
<1> USE DEF OneMore
<1>1. LastTopic(id, TopicOf(s))'
  <2>1. Len(outbox) + 1 \in 1..Len(outbox')
    BY <1>0
  <2>2. \A j \in ((Len(outbox) + 1) + 1)..Len(outbox') : FALSE
    BY <1>0
  <2>3. QED
    BY <1>0, <2>1, <2>2 DEF LastTopic
<1>2. ASSUME NEW x \in (Rides \cup Offers) \ {id}, NEW t \in Topics, LastTopic(x, t)
      PROVE  LastTopic(x, t)'
  <2>1. PICK i \in 1..Len(outbox) :
          /\ outbox[i] = [topic |-> t, id |-> x]
          /\ \A j \in (i + 1)..Len(outbox) : outbox[j].id # x
    BY <1>2 DEF LastTopic
  <2>2. outbox'[i] = [topic |-> t, id |-> x] /\ i \in 1..Len(outbox')
    BY <2>1, <1>0
  <2>3. ASSUME NEW j \in (i + 1)..Len(outbox') PROVE outbox'[j].id # x
    <3>1. CASE j = Len(outbox) + 1
      BY <3>1, <1>0
    <3>2. CASE j # Len(outbox) + 1
      <4>1. j \in (i + 1)..Len(outbox) /\ j \in 1..Len(outbox)
        BY <3>2, <2>1, <1>0
      <4>2. QED
        BY <4>1, <2>1, <1>0
    <3>3. QED
      BY <3>1, <3>2
  <2>4. QED
    BY <2>2, <2>3 DEF LastTopic
<1>3. QED
  BY <1>1, <1>2

\* Every status change is announced, and no event is about a row that is not there.
THEOREM LifecycleOutbox == Lifecycle => []OutboxTellsStatus
<1>1. InitTables => OutboxTellsStatus
  <2> SUFFICES ASSUME InitTables PROVE OutboxTellsStatus
    OBVIOUS
  <2>1. /\ \A r \in Rides : ride[r].status = "ABSENT"
        /\ \A o \in Offers : offer[o].status = "ABSENT"
        /\ Len(outbox) = 0
    BY DEF InitTables, NoRide, NoOffer
  <2>2. "ABSENT" \notin Announced
    BY DEF Announced, RideStatus, OfferStatus
  <2>3. QED
    BY <2>1, <2>2 DEF OutboxTellsStatus
<1>2. TablesTypeOK /\ OutboxTellsStatus /\ [NextTables]_tables => OutboxTellsStatus'
  <2> SUFFICES ASSUME TablesTypeOK, OutboxTellsStatus, [NextTables]_tables
               PROVE OutboxTellsStatus'
    OBVIOUS
  <2> DEFINE RidesKnown == \A r \in Rides : ride[r].status \in Announced =>
                             LastTopic(r, TopicOf(ride[r].status))
             OffersKnown == \A o \in Offers : offer[o].status # "ABSENT" =>
                              LastTopic(o, TopicOf(offer[o].status))
             RowsExist == \A i \in 1..Len(outbox) :
                            IF outbox[i].id \in Rides
                            THEN ride[outbox[i].id].status # "ABSENT"
                            ELSE offer[outbox[i].id].status # "ABSENT"
  <2>0. RidesKnown /\ OffersKnown /\ RowsExist
    BY DEF OutboxTellsStatus
  <2>t. \A t \in Announced : TopicOf(t) \in Topics
    BY DEF Topics
  <2>o. \A o \in Offers : offer[o].status # "ABSENT" => offer[o].status \in Announced
    BY AnnouncedStatuses DEF TablesTypeOK, OfferRow
  \* A step that writes ride r and announces its new status.
  <2>1. ASSUME NEW r \in Rides, NEW s \in Announced, Announce(s, r), offer' = offer,
               ride'[r].status = s, s # "ABSENT",
               \A x \in Rides \ {r} : ride'[x] = ride[x]
        PROVE  OutboxTellsStatus'
    <3>1. RidesKnown'
      BY <2>0, <2>1, <2>t, AnnounceLast DEF TablesTypeOK
    <3>2. OffersKnown'
      BY <2>0, <2>1, <2>t, <2>o, AnnounceLast, IdsDiffer DEF TablesTypeOK
    <3>3. RowsExist'
      <4>1. OneMore(s, r)
        BY <2>1, AnnounceShape DEF TablesTypeOK
      <4>2. QED
        BY <2>0, <2>1, <4>1 DEF OneMore
    <3>4. QED
      BY <3>1, <3>2, <3>3 DEF OutboxTellsStatus
  \* A step that writes offer o and announces its new status.
  <2>2. ASSUME NEW o \in Offers, NEW s \in Announced, Announce(s, o), ride' = ride,
               offer'[o].status = s, s # "ABSENT",
               \A x \in Offers \ {o} : offer'[x] = offer[x]
        PROVE  OutboxTellsStatus'
    <3>1. RidesKnown'
      BY <2>0, <2>2, <2>t, AnnounceLast, IdsDiffer DEF TablesTypeOK
    <3>2. OffersKnown'
      BY <2>0, <2>2, <2>t, <2>o, AnnounceLast DEF TablesTypeOK
    <3>3. RowsExist'
      <4>1. OneMore(s, o)
        BY <2>2, AnnounceShape DEF TablesTypeOK
      <4>2. QED
        BY <2>0, <2>2, <4>1, IdsDiffer DEF OneMore
    <3>4. QED
      BY <3>1, <3>2, <3>3 DEF OutboxTellsStatus
  <2>3. ASSUME NEW r \in Rides, RideCreated(r) PROVE OutboxTellsStatus'
    BY <2>3, <2>1, AnnouncedStatuses DEF RideCreated, TablesTypeOK
  <2>4. ASSUME NEW r \in Rides, NEW s \in {"MATCHING", "IN_PROGRESS", "COMPLETED", "CANCELLED"},
               RideMoved(r, s)
        PROVE OutboxTellsStatus'
    <3>1. ride'[r].status = s /\ \A x \in Rides \ {r} : ride'[x] = ride[x]
      BY <2>4 DEF RideMoved, TablesTypeOK, RideRow
    <3>2. QED
      BY <2>4, <3>1, <2>1, AnnouncedStatuses DEF RideMoved
  <2>5. ASSUME NEW r \in Rides, NEW d \in Drivers, DriverAssigned(r, d) PROVE OutboxTellsStatus'
    BY <2>5, <2>1, AnnouncedStatuses DEF DriverAssigned, TablesTypeOK
  <2>6. ASSUME NEW r \in Rides, RideOffered(r) PROVE OutboxTellsStatus'
    <3>1. /\ ride'[r].status = "OFFERED"
          /\ \A x \in Rides \ {r} : ride'[x] = ride[x]
          /\ offer' = offer /\ outbox' = outbox
      BY <2>6 DEF RideOffered, TablesTypeOK, RideRow
    <3>2. "OFFERED" \notin Announced
      BY DEF Announced, RideStatus, OfferStatus
    <3>3. RidesKnown' /\ OffersKnown' /\ RowsExist'
      BY <3>1, <3>2, <2>0 DEF LastTopic
    <3>4. QED
      BY <3>3 DEF OutboxTellsStatus
  <2>7. ASSUME NEW o \in Offers, NEW r \in Rides, NEW d \in Drivers, OfferCreated(o, r, d)
        PROVE OutboxTellsStatus'
    BY <2>7, <2>2, AnnouncedStatuses DEF OfferCreated, TablesTypeOK
  <2>8. ASSUME NEW o \in Offers, NEW s \in Outcomes, OfferSettled(o, s) PROVE OutboxTellsStatus'
    <3>1. offer'[o].status = s /\ \A x \in Offers \ {o} : offer'[x] = offer[x]
      BY <2>8 DEF OfferSettled, TablesTypeOK, OfferRow
    <3>2. s # "ABSENT" /\ s \in Announced
      BY AnnouncedStatuses DEF Outcomes, OfferStatus
    <3>3. QED
      BY <2>8, <3>1, <3>2, <2>2 DEF OfferSettled
  <2>9. CASE UNCHANGED tables
    <3>1. RidesKnown' /\ OffersKnown' /\ RowsExist'
      BY <2>9, <2>0 DEF tables, LastTopic
    <3>2. QED
      BY <3>1 DEF OutboxTellsStatus
  <2>10. QED
    BY <2>3, <2>4, <2>5, <2>6, <2>7, <2>8, <2>9 DEF NextTables
<1>3. QED
  BY <1>1, <1>2, LifecycleTypes, PTL DEF Lifecycle

-----------------------------------------------------------------------------
\* The inductive form of OneOutcome: an outcome that was announced is the offer's
\* status, now and (no edge leaves an outcome) from then on.
OutcomeIsFinal ==
  \A i \in 1..Len(outbox) : \A s \in Outcomes :
    outbox[i].topic = TopicOf(s) =>
      /\ outbox[i].id \in Offers
      /\ offer[outbox[i].id].status = s

\* No offer is announced with two outcomes.
THEOREM LifecycleOneOutcome == Lifecycle => []OneOutcome
<1>1. InitTables => OutcomeIsFinal
  BY DEF InitTables, OutcomeIsFinal
<1>2. TablesTypeOK /\ OutcomeIsFinal /\ [NextTables]_tables => OutcomeIsFinal'
  <2> SUFFICES ASSUME TablesTypeOK, OutcomeIsFinal, [NextTables]_tables
               PROVE OutcomeIsFinal'
    OBVIOUS
  \* A step that announces no outcome and changes no settled offer.
  <2>1. ASSUME NEW s \in Announced \ Outcomes, NEW id \in Rides \cup Offers, Announce(s, id),
               \A o \in Offers : offer[o].status \in Outcomes => offer'[o] = offer[o]
        PROVE  OutcomeIsFinal'
    <3>1. ASSUME NEW i \in 1..Len(outbox'), NEW t \in Outcomes, outbox'[i].topic = TopicOf(t)
          PROVE  outbox'[i].id \in Offers /\ offer'[outbox'[i].id].status = t
      <4>0. OneMore(s, id)
        BY <2>1, AnnounceShape DEF TablesTypeOK
      <4>1. i # Len(outbox) + 1
        BY <4>0, <3>1, TopicsDiffer, AnnouncedStatuses DEF OneMore
      <4>2. i \in 1..Len(outbox) /\ outbox'[i] = outbox[i]
        BY <4>0, <4>1 DEF OneMore
      <4>3. QED
        BY <4>2, <3>1, <2>1 DEF OutcomeIsFinal
    <3>2. QED
      BY <3>1 DEF OutcomeIsFinal
  <2>2. ASSUME NEW r \in Rides, RideCreated(r) PROVE OutcomeIsFinal'
    <3>1. "REQUESTED" \in Announced \ Outcomes
      BY DEF Announced, RideStatus, Outcomes, OfferStatus
    <3>2. QED
      BY <2>2, <3>1, <2>1 DEF RideCreated
  <2>3. ASSUME NEW r \in Rides, NEW s \in {"MATCHING", "IN_PROGRESS", "COMPLETED", "CANCELLED"},
               RideMoved(r, s)
        PROVE OutcomeIsFinal'
    <3>1. s \in Announced \ Outcomes
      BY DEF Announced, RideStatus, Outcomes, OfferStatus
    <3>2. QED
      BY <2>3, <3>1, <2>1 DEF RideMoved
  <2>4. ASSUME NEW r \in Rides, NEW d \in Drivers, DriverAssigned(r, d) PROVE OutcomeIsFinal'
    <3>1. "DRIVER_ASSIGNED" \in Announced \ Outcomes
      BY DEF Announced, RideStatus, Outcomes, OfferStatus
    <3>2. QED
      BY <2>4, <3>1, <2>1 DEF DriverAssigned
  <2>5. ASSUME NEW r \in Rides, RideOffered(r) PROVE OutcomeIsFinal'
    BY <2>5 DEF RideOffered, OutcomeIsFinal
  <2>6. ASSUME NEW o \in Offers, NEW r \in Rides, NEW d \in Drivers, OfferCreated(o, r, d)
        PROVE OutcomeIsFinal'
    <3>1. "PENDING" \in Announced \ Outcomes
      BY DEF Announced, RideStatus, Outcomes, OfferStatus
    <3>2. \A x \in Offers : offer[x].status \in Outcomes => offer'[x] = offer[x]
      BY <2>6 DEF OfferCreated, Outcomes, OfferStatus, TablesTypeOK
    <3>3. QED
      BY <2>6, <3>1, <3>2, <2>1 DEF OfferCreated
  <2>7. ASSUME NEW o \in Offers, NEW s \in Outcomes, OfferSettled(o, s) PROVE OutcomeIsFinal'
    <3>1. offer'[o].status = s /\ \A x \in Offers \ {o} : offer'[x] = offer[x]
      BY <2>7 DEF OfferSettled, TablesTypeOK, OfferRow
    <3>2. offer[o].status \in Outcomes => offer[o].status = s
      BY <2>7 DEF OfferSettled, OfferCanMove, Outcomes
    <3>0. OneMore(s, o)
      BY <2>7, AnnounceShape, AnnouncedStatuses DEF OfferSettled, TablesTypeOK
    <3>3. ASSUME NEW i \in 1..Len(outbox'), NEW t \in Outcomes, outbox'[i].topic = TopicOf(t)
          PROVE  outbox'[i].id \in Offers /\ offer'[outbox'[i].id].status = t
      <4>1. CASE i = Len(outbox) + 1
        <5>1. outbox'[i].id = o /\ outbox'[i].topic = TopicOf(s)
          BY <4>1, <3>0 DEF OneMore
        <5>2. s = t
          BY <5>1, <3>3, TopicsDiffer, AnnouncedStatuses
        <5>3. QED
          BY <5>1, <5>2, <3>1
      <4>2. CASE i # Len(outbox) + 1
        <5>1. i \in 1..Len(outbox) /\ outbox'[i] = outbox[i]
          BY <4>2, <3>0 DEF OneMore
        <5>2. outbox[i].id \in Offers /\ offer[outbox[i].id].status = t
          BY <5>1, <3>3 DEF OutcomeIsFinal
        <5>3. QED
          BY <5>1, <5>2, <3>1, <3>2
      <4>3. QED
        BY <4>1, <4>2
    <3>4. QED
      BY <3>3 DEF OutcomeIsFinal
  <2>8. CASE UNCHANGED tables
    BY <2>8 DEF tables, OutcomeIsFinal
  <2>9. QED
    BY <2>2, <2>3, <2>4, <2>5, <2>6, <2>7, <2>8 DEF NextTables
<1>3. OutcomeIsFinal => OneOutcome
  BY DEF OutcomeIsFinal, OneOutcome
<1>4. QED
  BY <1>1, <1>2, <1>3, LifecycleTypes, PTL DEF Lifecycle

(* ------------------------- the ride service ---------------------------- *)

IInv == TypeOK /\ TransactionsOK

LEMMA NewStatusAnnounced ==
  ASSUME NEW q, WellFormed(q)
  PROVE  /\ NewStatus(q.op) \in Announced
         /\ NewStatus(q.op) # "ABSENT"
         /\ q.op \in RideOps \cup {"CreateRide"} => NewStatus(q.op) \in RideStatus
         /\ q.op \in OfferOps \cup {"CreateOffer"} => NewStatus(q.op) \in OfferStatus
BY DEF WellFormed, Request, NewStatus, Announced, RideStatus, OfferStatus,
       CreateOps, RideOps, OfferOps

LEMMA IdleIsCall ==
  /\ Idle \in Call /\ Idle.pc = "idle" /\ Idle.saved = "no"
  /\ \A q \in Request : LET c == [Idle EXCEPT !.pc = "lookup", !.req = q] IN
       c \in Call /\ c.pc = "lookup" /\ c.req = q /\ c.saved = "no"
BY DEF Idle, Call, NoRequest, Request, RideOps

-----------------------------------------------------------------------------
\* A step of one call that writes nothing: it is enough to look at that call.
LEMMA QuietStep ==
  ASSUME IInv, NEW w \in Actors, NEW c \in Call,
         call' = [call EXCEPT ![w] = c],
         UNCHANGED <<tables, idem, history>>,
         batch' \in [Sweepers -> SUBSET Offers],
         due' = due,
         budget' \in [calls: Nat, faults: Nat, cleanups: Nat],
         CallOK(w)',
         HoldsRow(w)' => \A v \in Actors \ {w} : HoldsRow(v) => call[v].id # c.id,
         HoldsKey(w)' => \A v \in Actors \ {w} : HoldsKey(v) => Key(v) # c.req.key
  PROVE  IInv'
<1> USE DEF IInv, TypeOK
<1>1. call'[w] = c /\ \A v \in Actors \ {w} : call'[v] = call[v]
  OBVIOUS
<1>2. TypeOK'
  BY DEF TablesTypeOK, tables
<1>3. RowLocksExclusive'
  BY <1>1 DEF TransactionsOK, RowLocksExclusive, HoldsRow
<1>4. KeyLocksExclusive'
  BY <1>1 DEF TransactionsOK, KeyLocksExclusive, HoldsKey, Key
<1>5. \A v \in Actors : CallOK(v)'
  <2>1. ASSUME NEW v \in Actors \ {w} PROVE CallOK(v)'
    BY <1>1 DEF TransactionsOK, CallOK, HoldsRow, HoldsKey, Key, Op, Status, CanMove, tables
  <2>2. QED
    BY <2>1
<1>6. KeysOK'
  BY DEF TransactionsOK, KeysOK
<1>7. QED
  BY <1>2, <1>3, <1>4, <1>5, <1>6 DEF TransactionsOK
-----------------------------------------------------------------------------
\* A call that ends without a commit.
LEMMA FinishStep ==
  ASSUME IInv, NEW w \in Actors, Finish(w),
         UNCHANGED <<tables, idem, due, history>>,
         batch' \in [Sweepers -> SUBSET Offers],
         budget' \in [calls: Nat, faults: Nat, cleanups: Nat]
  PROVE  IInv'
<1>1. call' = [call EXCEPT ![w] = Idle] /\ call'[w] = Idle
  BY DEF Finish, IInv, TypeOK
<1>2. CallOK(w)' /\ ~HoldsRow(w)' /\ ~HoldsKey(w)'
  BY <1>1, IdleIsCall DEF CallOK, HoldsRow, HoldsKey
<1>3. QED
  BY <1>1, <1>2, IdleIsCall, QuietStep

\* A call that begins.
LEMMA BeginStep ==
  ASSUME IInv, NEW w \in Actors, NEW q \in Request, WellFormed(q), Begin(w, q),
         UNCHANGED <<tables, idem, due, history>>,
         batch' \in [Sweepers -> SUBSET Offers],
         budget' \in [calls: Nat, faults: Nat, cleanups: Nat]
  PROVE  IInv'
<1> DEFINE c == [Idle EXCEPT !.pc = "lookup", !.req = q]
<1>1. call' = [call EXCEPT ![w] = c] /\ call'[w] = c
  BY DEF Begin, IInv, TypeOK
<1>2. c \in Call /\ c.pc = "lookup" /\ c.req = q /\ c.saved = "no"
  BY IdleIsCall
<1>3. CallOK(w)' /\ ~HoldsRow(w)' /\ ~HoldsKey(w)'
  BY <1>1, <1>2 DEF CallOK, HoldsRow, HoldsKey
<1> HIDE DEF c
<1>4. QED
  BY <1>1, <1>2, <1>3, QuietStep

LEMMA BudgetTyped ==
  ASSUME TypeOK
  PROVE  /\ budget \in [calls: Nat, faults: Nat, cleanups: Nat]
         /\ [budget EXCEPT !.calls = @ + 1] \in [calls: Nat, faults: Nat, cleanups: Nat]
         /\ [budget EXCEPT !.faults = @ + 1] \in [calls: Nat, faults: Nat, cleanups: Nat]
         /\ [budget EXCEPT !.cleanups = @ + 1] \in [calls: Nat, faults: Nat, cleanups: Nat]
BY DEF TypeOK

\* The key table and the history of the keys move together.
LEMMA ReplayStep ==
  ASSUME IInv, NEW w \in Actors, Replay(w)
  PROVE  IInv'
<1> USE DEF IInv, TypeOK
<1>1. Key(w) \in Keys
  BY DEF Replay, HasReply, Key, Call, Request
<1>2. call' = [call EXCEPT ![w] = Idle] /\ call'[w] = Idle
  BY DEF Replay, Finish
<1>3. history' \in [Keys -> [applied: Nat, skipped: Nat, answers: SUBSET Reply]]
  BY <1>1 DEF Replay, HasReply
<1>4. TypeOK'
  BY <1>2, <1>3, IdleIsCall DEF Replay, TablesTypeOK, tables
<1>5. \A v \in Actors : call'[v] = IF v = w THEN Idle ELSE call[v]
  BY <1>2
<1>6. RowLocksExclusive' /\ KeyLocksExclusive'
  <2>1. \A v \in Actors : /\ HoldsRow(v)' => HoldsRow(v) /\ call'[v] = call[v]
                          /\ HoldsKey(v)' => HoldsKey(v) /\ call'[v] = call[v]
    BY <1>5, IdleIsCall DEF HoldsRow, HoldsKey
  <2>2. RowLocksExclusive'
    BY <2>1 DEF TransactionsOK, RowLocksExclusive
  <2>3. KeyLocksExclusive'
    BY <2>1 DEF TransactionsOK, KeyLocksExclusive, Key
  <2>4. QED
    BY <2>2, <2>3
<1>7. ASSUME NEW v \in Actors PROVE CallOK(v)'
  <2>1. CASE v = w
    BY <2>1, <1>5, IdleIsCall DEF CallOK, HoldsRow, HoldsKey
  <2>2. CASE v # w
    BY <2>2, <1>5 DEF TransactionsOK, CallOK, HoldsRow, HoldsKey, Key, Op, Status, CanMove, Replay, tables
  <2>3. QED
    BY <2>1, <2>2
<1>8. KeysOK'
  BY <1>1 DEF TransactionsOK, KeysOK, Replay, HasReply
<1>9. QED
  BY <1>4, <1>6, <1>7, <1>8 DEF TransactionsOK
-----------------------------------------------------------------------------
\* The steps of a transaction before its commit.
LEMMA LookupMissStep ==
  ASSUME IInv, NEW w \in Actors, LookupMiss(w)
  PROVE  IInv'
<1> DEFINE c == [call[w] EXCEPT !.pc = IF Op(w) \in CreateOps THEN "write" ELSE "load"]
<1>1. call[w] \in Call /\ call' = [call EXCEPT ![w] = c] /\ call'[w] = c /\ CallOK(w)
  BY DEF LookupMiss, IInv, TypeOK, TransactionsOK
<1>2. /\ c \in Call /\ c.pc \in {"write", "load"} /\ c.req = call[w].req
      /\ c.saved = call[w].saved /\ call[w].pc = "lookup"
      /\ c.pc = "write" <=> Op(w) \in CreateOps
  BY <1>1 DEF LookupMiss, Call
<1> HIDE DEF c
<1>3. CallOK(w)' /\ ~HoldsRow(w)' /\ ~HoldsKey(w)'
  BY <1>1, <1>2 DEF CallOK, HoldsRow, HoldsKey, Op, Key
<1>4. QED
  BY <1>1, <1>2, <1>3, QuietStep, BudgetTyped DEF LookupMiss, IInv, TypeOK

LEMMA LoadStep ==
  ASSUME IInv, NEW w \in Actors, Load(w)
  PROVE  IInv'
<1> DEFINE id == call[w].req.id
           c == [call[w] EXCEPT !.pc = "write", !.id = id, !.seen = Status(id)]
<1>0. UNCHANGED <<tables, idem, due, history>> /\ batch' = batch /\ budget' = budget
  BY DEF Load
<1>1. CASE Finish(w)
  BY <1>0, <1>1, FinishStep DEF IInv, TypeOK
<1>2. CASE ~Finish(w)
  <2>1. /\ call[w] \in Call /\ CallOK(w)
        /\ call' = [call EXCEPT ![w].pc = "write", ![w].id = id, ![w].seen = Status(id)]
        /\ Status(id) # "ABSENT" /\ CanMove(id, Status(id), NewStatus(Op(w)))
        /\ call[w].pc = "load"
    BY <1>2 DEF Load, IInv, TypeOK, TransactionsOK
  <2>2. call' = [call EXCEPT ![w] = c] /\ call'[w] = c
    BY <2>1 DEF IInv, TypeOK
  <2>3. /\ WellFormed(call[w].req)
        /\ id \in Rides \cup Offers
        /\ Op(w) \notin CreateOps
    BY <2>1 DEF CallOK, WellFormed, Op, CreateOps, Request
  <2>4. Status(id) \in RideStatus \cup OfferStatus \cup {"ABSENT"}
    BY <2>3 DEF Status, IInv, TypeOK, TablesTypeOK, RideRow, OfferRow
  <2>5. /\ c \in Call /\ c.pc = "write" /\ c.req = call[w].req /\ c.id = id
        /\ c.saved = call[w].saved /\ c.seen = Status(id)
    BY <2>1, <2>3, <2>4 DEF Call
  <2> HIDE DEF c
  <2>6. CallOK(w)' /\ ~HoldsRow(w)' /\ ~HoldsKey(w)'
    BY <2>1, <2>2, <2>3, <2>5, <1>0 DEF CallOK, HoldsRow, HoldsKey, Op, Key, CanMove
  <2>7. QED
    BY <2>2, <2>5, <2>6, <1>0, QuietStep DEF IInv, TypeOK
<1>3. QED
  BY <1>1, <1>2

LEMMA CompareAndSetStep ==
  ASSUME IInv, NEW w \in Actors, CompareAndSet(w)
  PROVE  IInv'
<1> DEFINE c == [call[w] EXCEPT !.pc = "save"]
<1>0. UNCHANGED <<tables, idem, due, history>> /\ batch' = batch /\ budget' = budget
  BY DEF CompareAndSet
<1>1. CASE Finish(w)
  BY <1>0, <1>1, FinishStep DEF IInv, TypeOK
<1>2. CASE ~Finish(w)
  <2>1. /\ call[w] \in Call /\ CallOK(w)
        /\ call' = [call EXCEPT ![w] = c] /\ call'[w] = c
        /\ call[w].pc = "write" /\ Op(w) \notin CreateOps
        /\ Status(call[w].id) = call[w].seen
        /\ ~LockedByOther(w, call[w].id)
    BY <1>2 DEF CompareAndSet, IInv, TypeOK, TransactionsOK
  <2>2. /\ c \in Call /\ c.pc = "save" /\ c.req = call[w].req /\ c.id = call[w].id
        /\ c.saved = call[w].saved /\ c.seen = call[w].seen
    BY <2>1 DEF Call
  <2> HIDE DEF c
  <2>3. CallOK(w)' /\ ~HoldsKey(w)'
    BY <2>1, <2>2, <1>0 DEF CallOK, HoldsRow, HoldsKey, Op, Key, CanMove, Status, tables
  <2>4. \A v \in Actors \ {w} : HoldsRow(v) => call[v].id # c.id
    BY <2>1, <2>2 DEF LockedByOther, HoldsRow
  <2>5. QED
    BY <2>1, <2>2, <2>3, <2>4, <1>0, QuietStep DEF IInv, TypeOK
<1>3. QED
  BY <1>1, <1>2

LEMMA InsertStep ==
  ASSUME IInv, NEW w \in Actors, Insert(w)
  PROVE  IInv'
<1>0. UNCHANGED <<tables, idem, due, history>> /\ batch' = batch /\ budget' = budget
  BY DEF Insert
<1>1. CASE Finish(w)
  BY <1>0, <1>1, FinishStep DEF IInv, TypeOK
<1>2. CASE ~Finish(w)
  <2>1. PICK id \in FreshIds(w) : call' = [call EXCEPT ![w].pc = "save", ![w].id = id]
    BY <1>2 DEF Insert
  <2> DEFINE c == [call[w] EXCEPT !.pc = "save", !.id = id]
  <2>2. /\ call[w] \in Call /\ CallOK(w)
        /\ call' = [call EXCEPT ![w] = c] /\ call'[w] = c
        /\ call[w].pc = "write" /\ Op(w) \in CreateOps
        /\ Op(w) = "CreateOffer" => Status(call[w].req.id) # "ABSENT"
    BY <1>2, <2>1 DEF Insert, IInv, TypeOK, TransactionsOK
  <2>3. /\ id \in (IF Op(w) = "CreateRide" THEN Rides ELSE Offers)
        /\ id \in Rides \cup Offers
        /\ Status(id) = "ABSENT" /\ ~LockedByOther(w, id)
    BY <2>1 DEF FreshIds
  <2>4. /\ c \in Call /\ c.pc = "save" /\ c.req = call[w].req /\ c.id = id
        /\ c.saved = call[w].saved /\ c.seen = call[w].seen
    BY <2>2, <2>3 DEF Call
  <2> HIDE DEF c
  <2>5. CallOK(w)' /\ ~HoldsKey(w)'
    BY <2>2, <2>3, <2>4, <1>0 DEF CallOK, HoldsRow, HoldsKey, Op, Key, CanMove, Status, tables
  <2>6. \A v \in Actors \ {w} : HoldsRow(v) => call[v].id # c.id
    BY <2>3, <2>4 DEF LockedByOther, HoldsRow
  <2>7. QED
    BY <2>2, <2>4, <2>5, <2>6, <1>0, QuietStep DEF IInv, TypeOK
<1>3. QED
  BY <1>1, <1>2

LEMMA SaveKeyStep ==
  ASSUME IInv, NEW w \in Actors, SaveKey(w)
  PROVE  IInv'
<1>0. /\ UNCHANGED <<tables, idem, due, history>> /\ batch' = batch /\ budget' = budget
      /\ call[w] \in Call /\ CallOK(w) /\ call[w].pc = "save"
  BY DEF SaveKey, IInv, TypeOK, TransactionsOK
<1>1. PICK s \in {"no", "stored", "duplicate"} :
        /\ call' = [call EXCEPT ![w] = [call[w] EXCEPT !.pc = "commit", !.saved = s]]
        /\ s = "no" <=> Key(w) = None
        /\ s = "stored" =>
             /\ idem[Key(w)] = None
             /\ \A v \in Actors \ {w} :
                  ~(call[v].pc = "commit" /\ call[v].saved = "stored" /\ Key(v) = Key(w))
  <2>1. call[w].saved = "no"
    BY <1>0 DEF CallOK, Call
  <2>2. CASE Key(w) = None
    <3>1. call' = [call EXCEPT ![w] = [call[w] EXCEPT !.pc = "commit"]]
      BY <2>2 DEF SaveKey, IInv, TypeOK
    <3>2. [call[w] EXCEPT !.pc = "commit"] = [call[w] EXCEPT !.pc = "commit", !.saved = "no"]
      BY <1>0, <2>1 DEF Call
    <3>3. QED
      BY <3>1, <3>2, <2>2
  <2>3. CASE Key(w) # None
    <3> DEFINE s == IF idem[Key(w)] = None THEN "stored" ELSE "duplicate"
    <3>1. call' = [call EXCEPT ![w] = [call[w] EXCEPT !.pc = "commit", !.saved = s]]
      BY <1>0, <2>3 DEF SaveKey, IInv, TypeOK
    <3>2. \A v \in Actors \ {w} :
            ~(call[v].pc = "commit" /\ call[v].saved = "stored" /\ Key(v) = Key(w))
      BY <2>3 DEF SaveKey
    <3>3. QED
      BY <3>1, <3>2, <2>3
  <2>4. QED
    BY <2>2, <2>3
<1> DEFINE c == [call[w] EXCEPT !.pc = "commit", !.saved = s]
<1>2. /\ c \in Call /\ c.pc = "commit" /\ c.req = call[w].req /\ c.id = call[w].id
      /\ c.saved = s /\ c.seen = call[w].seen
  BY <1>0 DEF Call
<1>3. call' = [call EXCEPT ![w] = c] /\ call'[w] = c
  BY <1>1 DEF IInv, TypeOK
<1> HIDE DEF c
<1>4. CallOK(w)'
  BY <1>0, <1>1, <1>2, <1>3 DEF CallOK, HoldsRow, HoldsKey, Op, Key, CanMove, Status, tables
<1>5. \A v \in Actors \ {w} : HoldsRow(v) => call[v].id # c.id
  BY <1>0, <1>2 DEF IInv, TransactionsOK, RowLocksExclusive, HoldsRow
<1>6. HoldsKey(w)' => \A v \in Actors \ {w} : HoldsKey(v) => Key(v) # c.req.key
  BY <1>1, <1>2, <1>3 DEF HoldsKey, Key
<1>7. QED
  BY <1>0, <1>2, <1>3, <1>4, <1>5, <1>6, QuietStep DEF IInv, TypeOK

LEMMA SkipKeyStep ==
  ASSUME IInv, NEW w \in Actors, SkipKey(w)
  PROVE  IInv'
<1> DEFINE c == [call[w] EXCEPT !.pc = "commit", !.saved = "skipped"]
<1>1. /\ UNCHANGED <<tables, idem, due, history>> /\ batch' = batch
      /\ call[w] \in Call /\ CallOK(w) /\ call[w].pc = "save" /\ Key(w) # None
      /\ call' = [call EXCEPT ![w] = c] /\ call'[w] = c
  BY DEF SkipKey, IInv, TypeOK, TransactionsOK
<1>2. /\ c \in Call /\ c.pc = "commit" /\ c.req = call[w].req /\ c.id = call[w].id
      /\ c.saved = "skipped" /\ c.seen = call[w].seen
  BY <1>1 DEF Call
<1> HIDE DEF c
<1>3. CallOK(w)' /\ ~HoldsKey(w)'
  BY <1>1, <1>2 DEF CallOK, HoldsRow, HoldsKey, Op, Key, CanMove, Status, tables
<1>4. \A v \in Actors \ {w} : HoldsRow(v) => call[v].id # c.id
  BY <1>1, <1>2 DEF IInv, TransactionsOK, RowLocksExclusive, HoldsRow
<1>5. QED
  BY <1>1, <1>2, <1>3, <1>4, QuietStep, BudgetTyped DEF SkipKey, IInv, TypeOK

-----------------------------------------------------------------------------
\* The status of row x after a step.
StatusAfter(x) == IF x \in Rides THEN ride'[x].status ELSE offer'[x].status

\* A commit is one atomic operation of the lifecycle on the row of its call.
LEMMA CommitImplements ==
  ASSUME IInv, NEW w \in Actors, Commit(w)
  PROVE  /\ NextTables
         /\ call[w].id \in Rides \cup Offers
         /\ StatusAfter(call[w].id) # "ABSENT"
         /\ \A x \in (Rides \cup Offers) \ {call[w].id} : StatusAfter(x) = Status(x)
<1> DEFINE id == call[w].id
           q == call[w].req
           s == NewStatus(q.op)
<1>0. /\ WellFormed(q) /\ CallOK(w) /\ HoldsRow(w) /\ Op(w) = q.op
      /\ Apply(w) /\ Announce(s, id)
      /\ q.op \in CreateOps \cup RideOps \cup OfferOps
      /\ ride \in [Rides -> RideRow] /\ offer \in [Offers -> OfferRow]
      /\ Rides \cap Offers = {}
  BY IdsDiffer DEF Commit, IInv, TransactionsOK, CallOK, HoldsRow, Op, TypeOK, TablesTypeOK,
     WellFormed, Request
\* It is enough to look at the row of the call.
<1>r. ASSUME id \in Rides, ride'[id].status # "ABSENT", offer' = offer,
             \A x \in Rides \ {id} : ride'[x] = ride[x]
      PROVE  /\ StatusAfter(id) # "ABSENT"
             /\ \A x \in (Rides \cup Offers) \ {id} : StatusAfter(x) = Status(x)
  BY <1>r DEF Status, StatusAfter
<1>o. ASSUME id \in Offers, offer'[id].status # "ABSENT", ride' = ride,
             \A x \in Offers \ {id} : offer'[x] = offer[x]
      PROVE  /\ StatusAfter(id) # "ABSENT"
             /\ \A x \in (Rides \cup Offers) \ {id} : StatusAfter(x) = Status(x)
  BY <1>0, <1>o DEF Status, StatusAfter
<1>1. CASE q.op = "CreateRide"
  <2>1. id \in Rides /\ id \notin Offers /\ ride[id].status = "ABSENT" /\ s = "REQUESTED"
    BY <1>0, <1>1 DEF CallOK, CreateOps, Status, NewStatus
  <2>2. /\ ride' = [ride EXCEPT ![id] = [status |-> "REQUESTED", driver |-> None]]
        /\ offer' = offer
    BY <1>0, <1>1, <2>1 DEF Apply
  <2>3. RideCreated(id)
    BY <1>0, <2>1, <2>2 DEF RideCreated
  <2>4. NextTables
    BY <2>1, <2>3 DEF NextTables
  <2>5. QED
    BY <1>0, <1>r, <2>1, <2>2, <2>4
<1>2. CASE q.op \in {"CancelRide", "StartMatching", "StartRide", "CompleteRide"}
  <2>1. /\ id \in Rides /\ id \notin Offers /\ ride[id].status # "ABSENT"
        /\ RideCanMove(ride[id].status, s)
        /\ s \in {"MATCHING", "IN_PROGRESS", "COMPLETED", "CANCELLED"}
    <3>1. q.op \in RideOps /\ q.op \notin CreateOps
      BY <1>2 DEF RideOps, CreateOps
    <3>2. id \in Rides /\ id \notin Offers
      BY <3>1, <1>0 DEF CallOK, WellFormed, HoldsRow
    <3>3. ride[id].status = call[w].seen /\ call[w].seen # "ABSENT" /\ CanMove(id, call[w].seen, s)
      BY <3>1, <3>2, <1>0 DEF CallOK, HoldsRow, Status
    <3>4. s \in {"MATCHING", "IN_PROGRESS", "COMPLETED", "CANCELLED"}
      BY <1>2 DEF NewStatus
    <3>5. QED
      BY <3>2, <3>3, <3>4 DEF CanMove
  <2>2. ride' = [ride EXCEPT ![id].status = s] /\ offer' = offer
    BY <1>0, <1>2, <2>1 DEF Apply
  <2>3. RideMoved(id, s)
    BY <1>0, <2>1, <2>2 DEF RideMoved
  <2>4. NextTables
    BY <2>1, <2>3 DEF NextTables
  <2>5. ride'[id].status # "ABSENT" /\ \A x \in Rides \ {id} : ride'[x] = ride[x]
    BY <1>0, <2>1, <2>2 DEF RideRow
  <2>6. QED
    BY <1>0, <1>r, <2>1, <2>2, <2>4, <2>5
<1>3. CASE q.op = "AssignDriver"
  <2>1. /\ id \in Rides /\ id \notin Offers /\ ride[id].status # "ABSENT"
        /\ RideCanMove(ride[id].status, "DRIVER_ASSIGNED") /\ s = "DRIVER_ASSIGNED"
        /\ q.driver \in Drivers
    BY <1>0, <1>3 DEF CallOK, HoldsRow, RideOps, CreateOps, Status, CanMove, WellFormed, NewStatus
  <2>2. /\ ride' = [ride EXCEPT ![id] = [status |-> "DRIVER_ASSIGNED", driver |-> q.driver]]
        /\ offer' = offer
    BY <1>0, <1>3, <2>1 DEF Apply
  <2>3. DriverAssigned(id, q.driver)
    BY <1>0, <2>1, <2>2 DEF DriverAssigned
  <2>4. NextTables
    BY <2>1, <2>3 DEF NextTables
  <2>5. QED
    BY <1>0, <1>r, <2>1, <2>2, <2>4
<1>4. CASE q.op = "CreateOffer"
  <2>1. /\ id \in Offers /\ id \notin Rides /\ offer[id].status = "ABSENT" /\ s = "PENDING"
        /\ q.id \in Rides /\ ride[q.id].status # "ABSENT" /\ q.driver \in Drivers
    BY <1>0, <1>4 DEF CallOK, CreateOps, Status, NewStatus, WellFormed
  <2>2. /\ offer' = [offer EXCEPT ![id] = [status |-> "PENDING", ride |-> q.id, driver |-> q.driver]]
        /\ ride' = ride
    BY <1>0, <1>4, <2>1 DEF Apply
  <2>3. OfferCreated(id, q.id, q.driver)
    BY <1>0, <2>1, <2>2 DEF OfferCreated
  <2>4. NextTables
    BY <2>1, <2>3 DEF NextTables
  <2>5. QED
    BY <1>0, <1>o, <2>1, <2>2, <2>4
<1>5. CASE q.op \in OfferOps
  <2>1. /\ id \in Offers /\ id \notin Rides /\ offer[id].status # "ABSENT"
        /\ OfferCanMove(offer[id].status, s) /\ s \in Outcomes /\ s # "ABSENT"
    <3>1. q.op \notin CreateOps
      BY <1>5 DEF OfferOps, CreateOps
    <3>2. id \in Offers /\ id \notin Rides
      BY <3>1, <1>5, <1>0 DEF CallOK, WellFormed, HoldsRow
    <3>3. offer[id].status = call[w].seen /\ call[w].seen # "ABSENT" /\ CanMove(id, call[w].seen, s)
      BY <3>1, <3>2, <1>0 DEF CallOK, HoldsRow, Status
    <3>4. s \in Outcomes /\ s # "ABSENT"
      BY <1>5 DEF NewStatus, OfferOps, Outcomes, OfferStatus
    <3>5. QED
      BY <3>2, <3>3, <3>4 DEF CanMove
  <2>2. offer' = [offer EXCEPT ![id].status = s] /\ ride' = ride
    BY <1>0, <1>5, <2>1 DEF Apply, OfferOps
  <2>3. OfferSettled(id, s)
    BY <1>0, <2>1, <2>2 DEF OfferSettled
  <2>4. NextTables
    BY <2>1, <2>3 DEF NextTables
  <2>5. offer'[id].status # "ABSENT" /\ \A x \in Offers \ {id} : offer'[x] = offer[x]
    BY <1>0, <2>1, <2>2 DEF OfferRow
  <2>6. QED
    BY <1>0, <1>o, <2>1, <2>2, <2>4, <2>5
<1>6. QED
  BY <1>0, <1>1, <1>2, <1>3, <1>4, <1>5 DEF CreateOps, RideOps

LEMMA CommitStep ==
  ASSUME IInv, NEW w \in Actors, Commit(w)
  PROVE  IInv'
<1>1. /\ call' = [call EXCEPT ![w] = Idle] /\ HoldsRow(w) /\ CallOK(w) /\ call[w] \in Call
      /\ \A v \in Actors : call'[v] = IF v = w THEN Idle ELSE call[v]
  BY DEF Commit, Finish, HoldsRow, IInv, TypeOK, TransactionsOK
<1>2. /\ WellFormed(call[w].req)
      /\ call[w].id \in Rides \cup Offers
      /\ StatusAfter(call[w].id) # "ABSENT"
      /\ \A x \in (Rides \cup Offers) \ {call[w].id} : StatusAfter(x) = Status(x)
      /\ TablesTypeOK'
  <2>1. TablesTypeOK'
    BY CommitImplements, TablesStep DEF IInv, TypeOK
  <2>2. QED
    BY <1>1, <2>1, CommitImplements DEF CallOK, HoldsRow
<1>3. call[w].saved = "stored" => /\ Key(w) \in Keys /\ HoldsKey(w) /\ idem[Key(w)] = None
                                  /\ ReplyOf(w) \in Reply
  <2>1. ReplyOf(w) \in Reply
    BY <1>2, NewStatusAnnounced DEF ReplyOf, Reply
  <2>2. QED
    BY <1>1, <2>1 DEF Commit, HoldsKey, CallOK, Key, Call, Request
<1>4. call[w].saved = "skipped" => Key(w) \in Keys
  BY <1>1 DEF CallOK, Key, Call, Request
<1>5. /\ idem' = IF call[w].saved = "stored" THEN [idem EXCEPT ![Key(w)] = ReplyOf(w)] ELSE idem
      /\ history' =
           IF call[w].saved = "stored"
           THEN [history EXCEPT ![Key(w)].applied = @ + 1, ![Key(w)].answers = @ \cup {ReplyOf(w)}]
           ELSE IF call[w].saved = "skipped"
                THEN [history EXCEPT ![Key(w)].skipped = @ + 1] ELSE history
      /\ batch' = batch /\ due' = due /\ budget' = budget
  BY DEF Commit
<1>6. TypeOK'
  <2>1. idem' \in [Keys -> Reply \cup {None}]
    BY <1>3, <1>5 DEF IInv, TypeOK
  <2>2. history' \in [Keys -> [applied: Nat, skipped: Nat, answers: SUBSET Reply]]
    <3>1. CASE call[w].saved = "stored"
      <4>1. history' = [history EXCEPT ![Key(w)].applied = @ + 1,
                                        ![Key(w)].answers = @ \cup {ReplyOf(w)}]
        BY <3>1, <1>5
      <4>2. history[Key(w)] \in [applied: Nat, skipped: Nat, answers: SUBSET Reply]
        BY <3>1, <1>3 DEF IInv, TypeOK
      <4>3. /\ history[Key(w)].applied + 1 \in Nat
            /\ history[Key(w)].answers \cup {ReplyOf(w)} \in SUBSET Reply
        BY <4>2, <1>3, <3>1
      <4>4. history'[Key(w)] = [applied |-> history[Key(w)].applied + 1,
                                skipped |-> history[Key(w)].skipped,
                                answers |-> history[Key(w)].answers \cup {ReplyOf(w)}]
        BY <3>1, <4>1, <4>2, <1>3 DEF IInv, TypeOK
      <4>5. history' = [history EXCEPT ![Key(w)] = history'[Key(w)]]
        BY <3>1, <4>1, <4>2, <1>3 DEF IInv, TypeOK
      <4>6. history'[Key(w)] \in [applied: Nat, skipped: Nat, answers: SUBSET Reply]
        BY <4>2, <4>3, <4>4
      <4>7. QED
        BY <4>5, <4>6, <3>1, <1>3 DEF IInv, TypeOK
    <3>2. CASE call[w].saved = "skipped"
      BY <3>2, <1>4, <1>5 DEF IInv, TypeOK
    <3>3. CASE call[w].saved \notin {"stored", "skipped"}
      BY <3>3, <1>5 DEF IInv, TypeOK
    <3>4. QED
      BY <3>1, <3>2, <3>3
  <2>3. call' \in [Actors -> Call]
    BY <1>1, IdleIsCall DEF IInv, TypeOK
  <2>4. QED
    BY <1>2, <1>5, <2>1, <2>2, <2>3 DEF IInv, TypeOK
<1>7. \A v \in Actors : /\ HoldsRow(v)' => v # w /\ HoldsRow(v) /\ call'[v] = call[v]
                        /\ HoldsKey(v)' => v # w /\ HoldsKey(v) /\ call'[v] = call[v]
  BY <1>1, IdleIsCall DEF HoldsRow, HoldsKey
<1>8. RowLocksExclusive'
  BY <1>7 DEF IInv, TransactionsOK, RowLocksExclusive
<1>9. KeyLocksExclusive'
  BY <1>7 DEF IInv, TransactionsOK, KeyLocksExclusive, Key
<1>10. ASSUME NEW v \in Actors PROVE CallOK(v)'
  <2>1. CASE v = w
    BY <2>1, <1>1, IdleIsCall DEF CallOK, HoldsRow, HoldsKey
  <2>2. CASE v # w
    <3>1. CallOK(v) /\ call'[v] = call[v] /\ call[v] \in Call
      BY <2>2, <1>1 DEF IInv, TransactionsOK, TypeOK
    <3>2. HoldsRow(v) => call[v].id # call[w].id
      BY <2>2, <1>1 DEF IInv, TransactionsOK, RowLocksExclusive
    <3>3. HoldsKey(v) => idem'[Key(v)] = None
      <4> SUFFICES ASSUME HoldsKey(v) PROVE idem'[Key(v)] = None
        OBVIOUS
      <4>1. Key(v) \in Keys /\ idem[Key(v)] = None
        BY <3>1 DEF CallOK, HoldsKey, Key, Call, Request
      <4>2. call[w].saved = "stored" => Key(w) # Key(v)
        BY <2>2, <1>3 DEF IInv, TransactionsOK, KeyLocksExclusive
      <4>3. QED
        BY <4>1, <4>2, <1>5 DEF IInv, TypeOK
    <3>4. HoldsRow(v) => /\ call[v].id \in Rides \cup Offers
                         /\ StatusAfter(call[v].id) = Status(call[v].id)
      <4> SUFFICES ASSUME HoldsRow(v) PROVE call[v].id \in Rides \cup Offers
        BY <1>2, <3>2
      <4>1. WellFormed(call[v].req) /\ Op(v) \in CreateOps \cup RideOps \cup OfferOps
        BY <3>1 DEF CallOK, HoldsRow, Op, WellFormed, Request
      <4>2. QED
        BY <3>1, <4>1 DEF CallOK, HoldsRow, Op, WellFormed
    <3>5. (HoldsRow(v) /\ Op(v) = "CreateOffer") => StatusAfter(call[v].req.id) # "ABSENT"
      <4> SUFFICES ASSUME HoldsRow(v), Op(v) = "CreateOffer"
                   PROVE  StatusAfter(call[v].req.id) # "ABSENT"
        OBVIOUS
      <4>1. call[v].req.id \in Rides /\ Status(call[v].req.id) # "ABSENT"
        BY <3>1 DEF CallOK, HoldsRow, Op, WellFormed, CreateOps
      <4>2. QED
        BY <4>1, <1>2
    <3>6. CallOK(v)'
      BY <3>1, <3>3, <3>4, <3>5 DEF CallOK, HoldsRow, HoldsKey, Key, Op, CanMove, CreateOps, Status, StatusAfter
    <3>7. QED
      BY <3>6
  <2>3. QED
    BY <2>1, <2>2
<1>11. KeysOK'
  <2>1. \A k \in Keys : /\ history[k] \in [applied: Nat, skipped: Nat, answers: SUBSET Reply]
                        /\ history[k].applied = IF idem[k] = None THEN 0 ELSE 1
                        /\ history[k].answers \subseteq {idem[k]} \ {None}
    BY DEF IInv, TransactionsOK, KeysOK, TypeOK
  <2>2. CASE call[w].saved = "stored"
    <3>1. /\ idem' = [idem EXCEPT ![Key(w)] = ReplyOf(w)]
          /\ history' = [history EXCEPT ![Key(w)].applied = @ + 1,
                                        ![Key(w)].answers = @ \cup {ReplyOf(w)}]
      BY <2>2, <1>5
    <3>2. ReplyOf(w) # None
      BY <1>3, <2>2, ServiceAssumption
    <3>3. /\ idem'[Key(w)] = ReplyOf(w)
          /\ history'[Key(w)].applied = history[Key(w)].applied + 1
          /\ history'[Key(w)].answers = history[Key(w)].answers \cup {ReplyOf(w)}
          /\ \A k \in Keys \ {Key(w)} : history'[k] = history[k] /\ idem'[k] = idem[k]
      BY <2>1, <2>2, <3>1, <1>3 DEF IInv, TypeOK
    <3>4. QED
      BY <2>1, <2>2, <3>2, <3>3, <1>3 DEF KeysOK
  <2>3. CASE call[w].saved # "stored"
    BY <2>1, <2>3, <1>4, <1>5 DEF KeysOK, IInv, TypeOK
  <2>4. QED
    BY <2>2, <2>3
<1>12. QED
  BY <1>6, <1>8, <1>9, <1>10, <1>11 DEF IInv, TransactionsOK

-----------------------------------------------------------------------------
\* The steps that belong to no call.
LEMMA CleanupStep ==
  ASSUME IInv, NEW k \in Keys, CleanupKey(k)
  PROVE  IInv'
<1>1. /\ UNCHANGED <<tables, call, batch, due>>
      /\ idem' = [idem EXCEPT ![k] = None] /\ history' = [history EXCEPT ![k] = Fresh]
      /\ budget' \in [calls: Nat, faults: Nat, cleanups: Nat]
  BY BudgetTyped DEF CleanupKey, IInv
<1>2. Fresh \in [applied: Nat, skipped: Nat, answers: SUBSET Reply]
      /\ Fresh.applied = 0 /\ Fresh.answers = {}
  BY DEF Fresh
<1>3. TypeOK'
  BY <1>1, <1>2 DEF IInv, TypeOK, TablesTypeOK, tables
<1>4. \A w \in Actors : CallOK(w)'
  <2> SUFFICES ASSUME NEW w \in Actors PROVE CallOK(w)'
    OBVIOUS
  <2>1. HoldsKey(w) => Key(w) \in Keys
    BY DEF IInv, TypeOK, TransactionsOK, CallOK, HoldsKey, Key, Call, Request
  <2>2. HoldsKey(w) => idem'[Key(w)] = None
    BY <1>1, <2>1 DEF IInv, TypeOK, TransactionsOK, CallOK
  <2>3. QED
    BY <1>1, <2>2 DEF IInv, TransactionsOK, CallOK, HoldsRow, HoldsKey, Key, Op, Status, CanMove, tables
<1>5. KeysOK'
  BY <1>1, <1>2 DEF IInv, TypeOK, TransactionsOK, KeysOK
<1>6. RowLocksExclusive' /\ KeyLocksExclusive'
  BY <1>1 DEF IInv, TransactionsOK, RowLocksExclusive, KeyLocksExclusive, HoldsRow, HoldsKey, Key
<1>7. QED
  BY <1>3, <1>4, <1>5, <1>6 DEF IInv, TransactionsOK

LEMMA MarkOfferedStep ==
  ASSUME IInv, NEW r \in Rides, MarkOffered(r)
  PROVE  IInv' /\ RideOffered(r)
<1>1. /\ ride' = [ride EXCEPT ![r].status = "OFFERED"] /\ ride[r].status = "MATCHING"
      /\ \A w \in Actors : HoldsRow(w) => call[w].id # r
      /\ UNCHANGED <<offer, outbox, idem, call, batch, due, budget, history>>
  BY DEF MarkOffered, HoldsRow
<1>2. RideOffered(r)
  BY <1>1 DEF RideOffered
<1>3. TypeOK'
  <2>1. TablesTypeOK'
    BY <1>2, TablesStep DEF NextTables, IInv, TypeOK
  <2>2. QED
    BY <2>1, <1>1 DEF IInv, TypeOK
<1>4. ASSUME NEW w \in Actors PROVE CallOK(w)'
  <2>1. StatusAfter(r) = "OFFERED"
        /\ \A x \in (Rides \cup Offers) \ {r} : StatusAfter(x) = Status(x)
    BY <1>1 DEF StatusAfter, Status, IInv, TypeOK, TablesTypeOK, RideRow
  <2>2. HoldsRow(w) => /\ call[w].id \in Rides \cup Offers
                       /\ StatusAfter(call[w].id) = Status(call[w].id)
    <3> SUFFICES ASSUME HoldsRow(w) PROVE call[w].id \in Rides \cup Offers
      BY <1>1, <2>1
    <3>1. /\ CallOK(w) /\ WellFormed(call[w].req)
          /\ Op(w) \in CreateOps \cup RideOps \cup OfferOps
      BY DEF IInv, TransactionsOK, CallOK, HoldsRow, Op, WellFormed, Request
    <3>2. QED
      BY <3>1 DEF CallOK, HoldsRow, Op, WellFormed
  <2>3. (HoldsRow(w) /\ Op(w) = "CreateOffer") => StatusAfter(call[w].req.id) # "ABSENT"
    <3> SUFFICES ASSUME HoldsRow(w), Op(w) = "CreateOffer"
                 PROVE  StatusAfter(call[w].req.id) # "ABSENT"
      OBVIOUS
    <3>1. call[w].req.id \in Rides /\ Status(call[w].req.id) # "ABSENT"
      BY DEF IInv, TransactionsOK, CallOK, HoldsRow, Op, WellFormed, CreateOps
    <3>2. QED
      BY <3>1, <2>1
  <2>4. QED
    BY <1>1, <2>2, <2>3 DEF IInv, TransactionsOK, CallOK, HoldsRow, HoldsKey, Key, Op, CanMove,
       CreateOps, Status, StatusAfter
<1>5. RowLocksExclusive' /\ KeyLocksExclusive' /\ KeysOK'
  BY <1>1 DEF IInv, TransactionsOK, RowLocksExclusive, KeyLocksExclusive, HoldsRow, HoldsKey, Key, KeysOK
<1>6. QED
  BY <1>2, <1>3, <1>4, <1>5 DEF IInv, TransactionsOK

\* Steps that leave the tables, the keys and the calls alone.
LEMMA StutterStep ==
  ASSUME IInv, UNCHANGED <<tables, idem, call, history, budget>>,
         batch' \in [Sweepers -> SUBSET Offers], due' \in SUBSET Offers
  PROVE  IInv'
<1>1. TypeOK'
  BY DEF IInv, TypeOK, TablesTypeOK, tables
<1>2. \A w \in Actors : CallOK(w)'
  BY DEF IInv, TransactionsOK, CallOK, HoldsRow, HoldsKey, Key, Op, Status, CanMove, tables
<1>3. RowLocksExclusive' /\ KeyLocksExclusive' /\ KeysOK'
  BY DEF IInv, TransactionsOK, RowLocksExclusive, KeyLocksExclusive, HoldsRow, HoldsKey, Key, KeysOK
<1>4. QED
  BY <1>1, <1>2, <1>3 DEF IInv, TransactionsOK

LEMMA ExpireRequest ==
  ASSUME NEW o \in Offers
  PROVE  LET q == [op |-> "ExpireOffer", key |-> None, id |-> o, driver |-> None]
         IN  q \in Request /\ WellFormed(q)
BY DEF Request, WellFormed, OfferOps, RideOps, CreateOps

LEMMA SweeperStep ==
  ASSUME IInv, NEW s \in Sweepers, ListExpired(s) \/ ExpireNext(s)
  PROVE  IInv'
<1>1. CASE ListExpired(s)
  <2>1. batch' \in [Sweepers -> SUBSET Offers]
    BY <1>1 DEF ListExpired, IInv, TypeOK
  <2>2. QED
    BY <1>1, <2>1, StutterStep DEF ListExpired, IInv, TypeOK
<1>2. CASE ExpireNext(s)
  <2>1. PICK o \in batch[s] :
          /\ Begin(s, [op |-> "ExpireOffer", key |-> None, id |-> o, driver |-> None])
          /\ batch' = [batch EXCEPT ![s] = @ \ {o}]
    BY <1>2 DEF ExpireNext
  <2>2. batch' \in [Sweepers -> SUBSET Offers] /\ o \in Offers /\ s \in Actors
    BY <2>1 DEF IInv, TypeOK, Actors
  <2>3. QED
    BY <1>2, <2>1, <2>2, ExpireRequest, BeginStep DEF ExpireNext, IInv, TypeOK
<1>3. QED
  BY <1>1, <1>2

LEMMA ActorStep ==
  ASSUME IInv, NEW w \in Actors, Step(w) \/ Abort(w)
  PROVE  IInv'
<1>1. CASE Abort(w)
  <2>1. batch' \in [Sweepers -> SUBSET Offers]
    BY <1>1 DEF Abort, IInv, TypeOK
  <2>2. QED
    BY <1>1, <2>1, FinishStep, BudgetTyped DEF Abort, IInv
<1>2. CASE CommitFails(w)
  BY <1>2, FinishStep DEF CommitFails, IInv, TypeOK
<1>3. QED
  BY <1>1, <1>2, ReplayStep, LookupMissStep, LoadStep, CompareAndSetStep, InsertStep, SaveKeyStep,
     SkipKeyStep, CommitStep DEF Step

LEMMA InvHoldsInitially == Init => IInv
<1> SUFFICES ASSUME Init PROVE IInv
  OBVIOUS
<1>1. /\ Fresh \in [applied: Nat, skipped: Nat, answers: SUBSET Reply]
      /\ Fresh.applied = 0 /\ Fresh.answers = {}
  BY DEF Fresh
<1>2. TypeOK
  <2>1. TablesTypeOK
    BY DEF Init, InitTables, TablesTypeOK, NoRide, NoOffer, RideRow, OfferRow
  <2>2. QED
    BY <1>1, <2>1, IdleIsCall DEF Init, TypeOK
<1>3. \A w \in Actors : call[w].pc = "idle" /\ call[w].saved = "no"
  BY IdleIsCall DEF Init
<1>4. KeysOK
  BY <1>1 DEF Init, KeysOK
<1>5. RowLocksExclusive /\ KeyLocksExclusive /\ \A w \in Actors : CallOK(w)
  BY <1>3 DEF RowLocksExclusive, KeyLocksExclusive, CallOK, HoldsRow, HoldsKey
<1>6. QED
  BY <1>2, <1>4, <1>5 DEF IInv, TransactionsOK

LEMMA InvIsKept == IInv /\ [Next]_vars => IInv'
<1> SUFFICES ASSUME IInv, [Next]_vars PROVE IInv'
  OBVIOUS
<1>1. ASSUME NEW w \in Handlers, NEW q \in Requests, Receive(w, q) PROVE IInv'
  <2>1. w \in Actors /\ WellFormed(q) /\ q \in Request
    BY ServiceAssumption DEF Actors, WellFormed
  <2>2. QED
    BY <1>1, <2>1, BeginStep, BudgetTyped DEF Receive, IInv, TypeOK
<1>2. ASSUME NEW o \in Offers, OfferDue(o) PROVE IInv'
  BY <1>2, StutterStep DEF OfferDue, IInv, TypeOK
<1>3. CASE UNCHANGED vars
  BY <1>3, StutterStep DEF vars, tables, IInv, TypeOK
<1>4. QED
  BY <1>1, <1>2, <1>3, ActorStep, SweeperStep, CleanupStep, MarkOfferedStep DEF Next

-----------------------------------------------------------------------------
\* Everything keeps its type.
THEOREM ServiceTypes == Spec => []TypeOK
<1>1. IInv => TypeOK
  BY DEF IInv
<1>2. QED
  BY <1>1, InvHoldsInitially, InvIsKept, PTL DEF Spec

\* A transaction that has written a row is alone with it, the row is as the
\* transaction read it, and the same holds of the key it has inserted.
THEOREM ServiceTransactions == Spec => []TransactionsOK
<1>1. IInv => TransactionsOK
  BY DEF IInv
<1>2. QED
  BY <1>1, InvHoldsInitially, InvIsKept, PTL DEF Spec

\* Of the transactions that saved one key, at most one committed.
THEOREM KeyIsUsedOnce == Spec => []OneUsePerKey
<1>1. IInv => OneUsePerKey
  BY DEF IInv, TransactionsOK, KeysOK, OneUsePerKey
<1>2. QED
  BY <1>1, InvHoldsInitially, InvIsKept, PTL DEF Spec

\* All the answers given under one key are the same.
THEOREM KeyHasOneAnswer == Spec => []AnswersAgree
<1>1. IInv => AnswersAgree
  BY DEF IInv, TransactionsOK, KeysOK, AnswersAgree
<1>2. QED
  BY <1>1, InvHoldsInitially, InvIsKept, PTL DEF Spec

-----------------------------------------------------------------------------
\* Only a commit and the write of OFFERED touch the tables, each as one operation of
\* the lifecycle.
LEMMA StepImplements == IInv /\ [Next]_vars => [NextTables]_tables
<1> SUFFICES ASSUME IInv, [Next]_vars PROVE NextTables \/ UNCHANGED tables
  OBVIOUS
<1>1. ASSUME NEW w \in Handlers, NEW q \in Requests, Receive(w, q) PROVE UNCHANGED tables
  BY <1>1 DEF Receive
<1>2. ASSUME NEW w \in Actors, Step(w) \/ Abort(w) PROVE NextTables \/ UNCHANGED tables
  <2>1. CASE Commit(w)
    BY <2>1, CommitImplements
  <2>2. CASE ~Commit(w)
    BY <1>2, <2>2 DEF Step, Replay, LookupMiss, Load, CompareAndSet, Insert, SaveKey, SkipKey,
       CommitFails, Abort
  <2>3. QED
    BY <2>1, <2>2
<1>3. ASSUME NEW s \in Sweepers, ListExpired(s) \/ ExpireNext(s) PROVE UNCHANGED tables
  BY <1>3 DEF ListExpired, ExpireNext
<1>4. ASSUME NEW o \in Offers, OfferDue(o) PROVE UNCHANGED tables
  BY <1>4 DEF OfferDue
<1>5. ASSUME NEW k \in Keys, CleanupKey(k) PROVE UNCHANGED tables
  BY <1>5 DEF CleanupKey
<1>6. ASSUME NEW r \in Rides, MarkOffered(r) PROVE NextTables
  BY <1>6, MarkOfferedStep DEF NextTables
<1>7. CASE UNCHANGED vars
  BY <1>7 DEF vars, tables
<1>8. QED
  BY <1>1, <1>2, <1>3, <1>4, <1>5, <1>6, <1>7 DEF Next

\* The optimistic transactions, with their locks, keys, faults and retries, implement
\* the atomic operations of RideLifecycle.
THEOREM ServiceImplementsLifecycle == Spec => Lifecycle
<1>1. Init => InitTables
  BY DEF Init
<1>2. QED
  BY <1>1, StepImplements, InvHoldsInitially, InvIsKept, PTL DEF Spec, Lifecycle

\* What the lifecycle guarantees, the service guarantees.
THEOREM ServiceOneOutcome == Spec => []OneOutcome
BY ServiceImplementsLifecycle, LifecycleOneOutcome, PTL

THEOREM ServiceOutbox == Spec => []OutboxTellsStatus
BY ServiceImplementsLifecycle, LifecycleOutbox, PTL

THEOREM ServiceDrivers == Spec => []DriverMatchesStatus
BY ServiceImplementsLifecycle, LifecycleDrivers, PTL

THEOREM ServiceFixed == Spec => StartedRideIsFixed
BY ServiceImplementsLifecycle, LifecycleFixed, PTL

-----------------------------------------------------------------------------
\* A stored reply reports an operation whose event is in the outbox.
THEOREM StoredReplyIsTrue == Spec => []StoredReplyHasEffect
<1> DEFINE Told(k) == \E i \in 1..Len(outbox) : outbox[i] = EventOf(idem[k].status, idem[k].id)
<1>1. Init => StoredReplyHasEffect
  BY DEF Init, StoredReplyHasEffect
<1>2. IInv /\ StoredReplyHasEffect /\ [Next]_vars => StoredReplyHasEffect'
  <2> SUFFICES ASSUME IInv, StoredReplyHasEffect, [Next]_vars
               PROVE  StoredReplyHasEffect'
    OBVIOUS
  \* Most steps change neither the outbox nor the keys.
  <2>1. ASSUME outbox' = outbox,
               \A k \in Keys : idem'[k] # None => idem'[k] = idem[k]
        PROVE  StoredReplyHasEffect'
    BY <2>1 DEF StoredReplyHasEffect
  <2>2. ASSUME NEW w \in Actors, Commit(w) PROVE StoredReplyHasEffect'
    <3> DEFINE e == EventOf(NewStatus(Op(w)), call[w].id)
    <3>1. /\ outbox' = Append(outbox, e) /\ outbox \in Seq(Event)
          /\ CallOK(w) /\ HoldsRow(w) /\ call[w] \in Call
          /\ idem' = IF call[w].saved = "stored"
                     THEN [idem EXCEPT ![Key(w)] = ReplyOf(w)] ELSE idem
      BY <2>2 DEF Commit, Announce, HoldsRow, IInv, TypeOK, TablesTypeOK, TransactionsOK
    <3>2. e \in Event
      BY <2>2, <3>1, CommitImplements, NewStatusAnnounced
         DEF EventOf, Event, Topics, CallOK, HoldsRow, Op
    <3>3. /\ Len(outbox') = Len(outbox) + 1 /\ Len(outbox) \in Nat
          /\ outbox'[Len(outbox) + 1] = e
          /\ \A i \in 1..Len(outbox) : outbox'[i] = outbox[i]
      BY <3>1, <3>2
    <3>4. ASSUME NEW k \in Keys, idem'[k] # None PROVE Told(k)'
      <4>1. CASE idem'[k] = idem[k]
        <5>1. PICK i \in 1..Len(outbox) : outbox[i] = EventOf(idem[k].status, idem[k].id)
          BY <3>4, <4>1 DEF StoredReplyHasEffect
        <5>2. i \in 1..Len(outbox') /\ outbox'[i] = outbox[i]
          BY <3>3
        <5>3. outbox'[i] = EventOf(idem'[k].status, idem'[k].id)
          BY <5>1, <5>2, <4>1
        <5>4. QED
          BY <5>2, <5>3 DEF EventOf
      <4>2. CASE idem'[k] # idem[k]
        <5>1. idem'[k] = ReplyOf(w)
          BY <4>2, <3>1 DEF IInv, TypeOK
        <5>2. EventOf(idem'[k].status, idem'[k].id) = e
          BY <5>1 DEF ReplyOf, Op, EventOf
        <5>3. Len(outbox) + 1 \in 1..Len(outbox')
          BY <3>3
        <5>4. QED
          BY <5>2, <5>3, <3>3 DEF EventOf
      <4>3. QED
        BY <4>1, <4>2
    <3>5. QED
      BY <3>4 DEF StoredReplyHasEffect
  <2>3. ASSUME NEW w \in Actors, Step(w) \/ Abort(w), ~Commit(w)
        PROVE  outbox' = outbox /\ idem' = idem
    BY <2>3 DEF Step, Replay, LookupMiss, Load, CompareAndSet, Insert, SaveKey, SkipKey,
       CommitFails, Abort, tables
  <2>4. ASSUME NEW w \in Handlers, NEW q \in Requests, Receive(w, q)
        PROVE  outbox' = outbox /\ idem' = idem
    BY <2>4 DEF Receive, tables
  <2>5. ASSUME NEW s \in Sweepers, ListExpired(s) \/ ExpireNext(s)
        PROVE  outbox' = outbox /\ idem' = idem
    BY <2>5 DEF ListExpired, ExpireNext, tables
  <2>6. ASSUME NEW o \in Offers, OfferDue(o) PROVE outbox' = outbox /\ idem' = idem
    BY <2>6 DEF OfferDue, tables
  <2>7. ASSUME NEW k \in Keys, CleanupKey(k) PROVE StoredReplyHasEffect'
    <3>1. outbox' = outbox /\ idem' = [idem EXCEPT ![k] = None]
      BY <2>7 DEF CleanupKey, tables
    <3>2. \A x \in Keys : idem'[x] # None => idem'[x] = idem[x]
      BY <3>1 DEF IInv, TypeOK
    <3>3. QED
      BY <3>1, <3>2, <2>1
  <2>8. ASSUME NEW r \in Rides, MarkOffered(r) PROVE outbox' = outbox /\ idem' = idem
    BY <2>8 DEF MarkOffered
  <2>9. CASE UNCHANGED vars
    BY <2>9, <2>1 DEF vars
  <2>10. QED
    BY <2>1, <2>2, <2>3, <2>4, <2>5, <2>6, <2>7, <2>8, <2>9 DEF Next
<1>3. QED
  BY <1>1, <1>2, InvHoldsInitially, InvIsKept, PTL DEF Spec
=============================================================================
