--------------------------- MODULE MatchingProofs ---------------------------
(***************************************************************************)
(* What the runs check of matching on one ride and two handlers, for any   *)
(* number of rides, drivers, offers and handlers.                          *)
(***************************************************************************)
EXTENDS Matching, FiniteSetTheorems, TLAPS

(* ---------------------- the tables and their events -------------------- *)

\* Distinct statuses are announced under distinct topics.
LEMMA TopicsDiffer ==
  ASSUME NEW s \in Announced, NEW t \in Announced, TopicOf(s) = TopicOf(t)
  PROVE  s = t
BY DEF TopicOf, Announced, RideStatus, OfferStatus

\* Every status an operation moves a row to is announced.
LEMMA AnnouncedStatuses ==
  /\ OfferStatus \subseteq Announced
  /\ Outcomes \subseteq Announced
  /\ {"REQUESTED", "MATCHING", "DRIVER_ASSIGNED", "IN_PROGRESS", "COMPLETED", "CANCELLED",
      "PENDING"} \subseteq Announced
BY DEF Announced, RideStatus, OfferStatus, Outcomes

LEMMA AnnounceTyped ==
  ASSUME outbox \in Seq(Event), NEW s \in Announced, NEW id \in Rides \cup Offers,
         Announce(s, id)
  PROVE  outbox' \in Seq(Event)
<1>1. EventOf(s, id) \in Event
  BY DEF EventOf, Event, Topics
<1>2. QED
  BY <1>1 DEF Announce

\* Every operation keeps the tables typed.
LEMMA TablesStep == TablesTypeOK /\ [NextTables]_tables => TablesTypeOK'
<1> SUFFICES ASSUME TablesTypeOK, [NextTables]_tables PROVE TablesTypeOK'
  OBVIOUS
<1> USE AnnouncedStatuses, AnnounceTyped DEF TablesTypeOK
<1>1. ASSUME NEW r \in Rides, RideCreated(r) PROVE TablesTypeOK'
  BY <1>1 DEF RideCreated, RideRow, RideStatus
<1>2. ASSUME NEW r \in Rides, NEW s \in {"MATCHING", "IN_PROGRESS", "COMPLETED", "CANCELLED"},
             RideMoved(r, s)
      PROVE TablesTypeOK'
  <2>1. ride' \in [Rides -> RideRow]
    BY <1>2 DEF RideMoved, RideRow, RideStatus
  <2>2. QED
    BY <1>2, <2>1 DEF RideMoved
<1>3. ASSUME NEW r \in Rides, NEW d \in Drivers, DriverAssigned(r, d) PROVE TablesTypeOK'
  BY <1>3 DEF DriverAssigned, RideRow, RideStatus
<1>4. ASSUME NEW r \in Rides, RideOffered(r) PROVE TablesTypeOK'
  BY <1>4 DEF RideOffered, RideRow, RideStatus
<1>5. ASSUME NEW o \in Offers, NEW r \in Rides, NEW d \in Drivers, OfferCreated(o, r, d)
      PROVE TablesTypeOK'
  <2>1. offer' \in [Offers -> OfferRow]
    BY <1>5 DEF OfferCreated, OfferRow, OfferStatus
  <2>2. QED
    BY <1>5, <2>1 DEF OfferCreated
<1>6. ASSUME NEW o \in Offers, NEW s \in Outcomes, OfferSettled(o, s) PROVE TablesTypeOK'
  <2>1. offer' \in [Offers -> OfferRow]
    BY <1>6 DEF OfferSettled, OfferRow, OfferStatus, Outcomes
  <2>2. QED
    BY <1>6, <2>1 DEF OfferSettled
<1>7. CASE UNCHANGED tables
  BY <1>7 DEF tables
<1>8. QED
  BY <1>1, <1>2, <1>3, <1>4, <1>5, <1>6, <1>7 DEF NextTables

\* What one more event does to the record of the events.
OneMore(s, id) ==
  /\ Len(outbox') = Len(outbox) + 1
  /\ Len(outbox) \in Nat
  /\ \A i \in 1..Len(outbox) : outbox'[i] = outbox[i] /\ outbox[i].id \in Rides \cup Offers
  /\ outbox'[Len(outbox) + 1] = [topic |-> TopicOf(s), id |-> id]

LEMMA AnnounceShape ==
  ASSUME outbox \in Seq(Event), NEW s \in Announced, NEW id \in Rides \cup Offers,
         Announce(s, id)
  PROVE  OneMore(s, id)
<1>1. \A i \in 1..Len(outbox) : outbox[i].id \in Rides \cup Offers
  <2>1. \A i \in 1..Len(outbox) : outbox[i] \in Event
    OBVIOUS
  <2>2. QED
    BY <2>1 DEF Event
<1>2. outbox' = Append(outbox, [topic |-> TopicOf(s), id |-> id])
  BY DEF Announce, EventOf
<1>3. QED
  BY <1>1, <1>2 DEF OneMore

(* ------------------------ inductive invariants ------------------------- *)

Resting == {"idle", "stopped"}
Asking == {"count", "busy", "create"}
Opening == {"active", "has", "lock", "find", "store"}
OfferTopics == {TopicOf(s) : s \in OfferStatus}

\* The ride an event is about.
About(i) == IF outbox[i].id \in Rides THEN outbox[i].id ELSE offer[outbox[i].id].ride

\* Rows and events refer to each other; a ride is requested once.
RowsRefer ==
  /\ \A o \in Offers : offer[o].ride \in Rides => ride[offer[o].ride].status # "ABSENT"
  /\ \A o \in Offers : offer[o].status # "ABSENT" => offer[o].ride \in Rides /\ offer[o].driver \in Drivers
  /\ \A i \in 1..Len(outbox) :
       IF outbox[i].topic \in OfferTopics
       THEN outbox[i].id \in Offers /\ offer[outbox[i].id].status # "ABSENT"
       ELSE outbox[i].id \in Rides /\ ride[outbox[i].id].status # "ABSENT"
  /\ \A i, j \in 1..Len(outbox) :
       outbox[i].topic = Requested /\ outbox[j].topic = Requested /\ outbox[i].id = outbox[j].id => i = j

\* A handler works on an event of its subjects and on the ride it is about.
Fit(c) ==
  /\ IF c.pc \in Resting THEN c.event = 0
     ELSE /\ c.event \in 1..Len(outbox) /\ outbox[c.event].topic \in Handled
          /\ c.ride = About(c.event) /\ c.ride \in Rides
  /\ c.pc \in Opening \cup {"release"} => outbox[c.event].topic = Requested
  /\ c.pc \in Asking \cup {"sent"} => c.driver \in Drivers
  /\ c.pc \in {"sent", "activate"} => c.offer \in Offers
  /\ c.pc \in {"cool", "match"} => c.offer \in Offers /\ c.offer = outbox[c.event].id

KeysOK ==
  /\ maxOffers \in Limits
  /\ candidates \in [Rides -> Seq(Drivers)]
  /\ active \in [Rides -> Offers \cup {None}]
  /\ count \in [Rides -> Nat]
  /\ lock \in SUBSET Rides
  /\ driverOffer \in [Drivers -> Offers \cup {None, ForeignOffer}]
  /\ available \in SUBSET Drivers /\ cooldown \in SUBSET Drivers
  /\ gaveUp \in SUBSET Rides
  /\ rounds \in [Rides -> Nat]
  /\ incidents \in [Incidents -> Nat]

Rows == TablesTypeOK /\ RowsRefer
Hands ==
  /\ done \in SUBSET (1..Len(outbox))
  /\ call \in [Workers -> Call]
  /\ \A w \in Workers : Fit(call[w])

TypeInv == KeysOK /\ Rows /\ Hands

Distinct(s) == \A i, j \in 1..Len(s) : s[i] = s[j] => i = j

Asked(r, d) == {o \in OffersOf(r) : offer[o].driver = d}
Holding(r, d) == {w \in Workers : call[w].pc \in Asking /\ Ride(w) = r /\ call[w].driver = d}
Listed(r, d) == IF Ext!Contains(candidates[r], d) THEN 1 ELSE 0

\* A driver who is listed, in hand or asked is so once per search.
AskInv ==
  /\ \A r \in Rides : Distinct(candidates[r])
  /\ \A w \in Workers : Distinct(call[w].list)
  /\ \A r \in Rides, d \in Drivers :
       /\ IsFiniteSet(Asked(r, d))
       /\ Cardinality(Asked(r, d)) + Cardinality(Holding(r, d)) + Listed(r, d) <= rounds[r]

\* No handler was ended before its end, and no key of a ride expired.
Clean == \A kind \in Incidents \cap {"redis", "rpc", "crash", "ride key"} : incidents[kind] = 0
Again == IF "again" \in Incidents THEN incidents["again"] ELSE 0
SameEvent(v, w) == call[v].event = call[w].event /\ call[v].event # 0

Searching(w) == call[w].pc \in {"find", "store"}

\* A handler of event i has ended or gone past its search.
Opened(i) == i \in done \/ \E u \in Workers : call[u].event = i /\ call[u].pc \notin Opening

\* While no event is delivered again, each is in one hand and not done.  With one
\* delivered again, a second search for a ride waits for the lock or comes too late.
OneHand ==
  /\ \A v, w \in Workers : SameEvent(v, w) => v = w
  /\ \A w \in Workers : call[w].event \notin done
TwoHands ==
  /\ \A u, v, w \in Workers : SameEvent(u, v) /\ SameEvent(v, w) => u = v \/ v = w \/ u = w
  /\ \A v, w \in Workers : SameEvent(v, w) /\ v # w => call[v].event \notin done
OffersFollow ==
  \A i \in 1..Len(outbox), o \in Offers :
    outbox[i].topic = Requested /\ offer[o].ride = outbox[i].id => Opened(i)
SearchLocked == \A w \in Workers : Searching(w) => Ride(w) \in lock \/ Opened(call[w].event)
SearchAlone == \A v, w \in Workers : Searching(v) /\ Searching(w) /\ SameEvent(v, w) => v = w

SearchInv ==
  /\ Again = 0 => OneHand
  /\ Clean /\ Again <= 1 => TwoHands /\ OffersFollow /\ SearchLocked /\ SearchAlone


(* ------------------------------ the tables ------------------------------ *)

LEMMA Topics1 ==
  /\ Requested \notin OfferTopics
  /\ Handled \subseteq OfferTopics \cup {Requested}
  /\ \A s \in Announced : TopicOf(s) \in OfferTopics => s \in OfferStatus
  /\ \A s \in Announced : TopicOf(s) = Requested => s = "REQUESTED"
  /\ \A s \in OfferStatus : TopicOf(s) \in OfferTopics
<1>1. "REQUESTED" \in Announced \ OfferStatus
  BY DEF Announced, RideStatus, OfferStatus
<1>2. Outcomes \subseteq OfferStatus
  BY DEF Outcomes
<1> QED BY <1>1, <1>2, TopicsDiffer, AnnouncedStatuses DEF OfferTopics, Requested, Handled

\* Events stay what they are, and rows keep what events say of them.
Grows ==
  /\ Len(outbox) \in Nat /\ Len(outbox') \in Nat
  /\ Len(outbox) <= Len(outbox')
  /\ \A i \in 1..Len(outbox) : outbox'[i] = outbox[i] /\ About(i)' = About(i)
  /\ \A i \in (Len(outbox) + 1)..Len(outbox') :
       outbox'[i].topic = Requested => ride[outbox'[i].id].status = "ABSENT"

LEMMA RowsAnnounce ==
  ASSUME Rows, NEW s \in Announced, NEW id \in Rides \cup Offers, Announce(s, id),
         \A r \in Rides : ride[r].status # "ABSENT" => ride'[r].status # "ABSENT",
         \A o \in Offers : offer[o].status # "ABSENT" =>
           offer'[o].status # "ABSENT" /\ offer'[o].ride = offer[o].ride /\ offer'[o].driver = offer[o].driver,
         \A o \in Offers : offer'[o].status # "ABSENT" => offer'[o].ride \in Rides /\ offer'[o].driver \in Drivers,
         \A o \in Offers : offer'[o].ride \in Rides => ride'[offer'[o].ride].status # "ABSENT",
         IF s \in OfferStatus THEN id \in Offers /\ offer'[id].status # "ABSENT"
                              ELSE id \in Rides /\ ride'[id].status # "ABSENT",
         s = "REQUESTED" => ride[id].status = "ABSENT"
  PROVE  RowsRefer' /\ Grows
<1>1. OneMore(s, id)
  BY AnnounceShape DEF Rows, TablesTypeOK
<1> DEFINE n == Len(outbox)
<1>2. Len(outbox') = n + 1 /\ n \in Nat /\ outbox'[n + 1].topic = TopicOf(s) /\ outbox'[n + 1].id = id
  BY <1>1 DEF OneMore
<1>3. \A i \in 1..n : outbox'[i] = outbox[i]
  BY <1>1 DEF OneMore
<1>4. \A i \in 1..n : IF outbox[i].topic \in OfferTopics
       THEN outbox[i].id \in Offers /\ offer[outbox[i].id].status # "ABSENT"
       ELSE outbox[i].id \in Rides /\ ride[outbox[i].id].status # "ABSENT"
  BY DEF Rows, RowsRefer
<1>5. \A i \in 1..Len(outbox') : i \in 1..n \/ i = n + 1
  BY <1>2
<1> HIDE DEF n
<1>6. \A i \in 1..n : About(i)' = About(i)
  BY <1>3, <1>4, IdsDiffer DEF About
<1>7. \A i \in 1..Len(outbox') :
       IF outbox'[i].topic \in OfferTopics
       THEN outbox'[i].id \in Offers /\ offer'[outbox'[i].id].status # "ABSENT"
       ELSE outbox'[i].id \in Rides /\ ride'[outbox'[i].id].status # "ABSENT"
  <2> TAKE i \in 1..Len(outbox')
  <2>1. CASE i \in 1..n
    BY <2>1, <1>3, <1>4
  <2>2. CASE i = n + 1
    BY <2>2, <1>2, Topics1
  <2> QED BY <1>5, <2>1, <2>2
<1>8. \A i, j \in 1..Len(outbox') :
       outbox'[i].topic = Requested /\ outbox'[j].topic = Requested /\ outbox'[i].id = outbox'[j].id => i = j
  <2>1. ASSUME NEW i \in 1..n, outbox[i].topic = Requested, TopicOf(s) = Requested PROVE outbox[i].id # id
    BY <2>1, <1>4, Topics1
  <2>2. \A i, j \in 1..n : outbox[i].topic = Requested /\ outbox[j].topic = Requested
                            /\ outbox[i].id = outbox[j].id => i = j
    BY DEF Rows, RowsRefer, n
  <2> QED BY <1>2, <1>3, <1>5, <2>1, <2>2
<1>9. RowsRefer'
  BY <1>7, <1>8 DEF RowsRefer
<1>10. \A i \in (n + 1)..Len(outbox') :
         outbox'[i].topic = Requested => ride[outbox'[i].id].status = "ABSENT"
  <2>1. \A i \in (n + 1)..Len(outbox') : i = n + 1
    BY <1>2
  <2> QED BY <2>1, <1>2, Topics1
<1>11. n \in Nat /\ Len(outbox') \in Nat /\ n <= Len(outbox')
  BY <1>2
<1> QED BY <1>9, <1>10, <1>11, <1>3, <1>6 DEF Grows, n

LEMMA RowsStep ==
  ASSUME Rows, [NextTables]_tables
  PROVE  Rows' /\ Grows
<1>1. TablesTypeOK'
  BY TablesStep DEF Rows
<1>a. "REQUESTED" \in Announced /\ "REQUESTED" \notin OfferStatus /\ "DRIVER_ASSIGNED" \in Announced
      /\ "DRIVER_ASSIGNED" \notin OfferStatus /\ "PENDING" \in Announced /\ "PENDING" \in OfferStatus
      /\ Outcomes \subseteq Announced /\ Outcomes \subseteq OfferStatus
  BY DEF Announced, RideStatus, OfferStatus, Outcomes
<1>b. \A o \in Offers : offer[o].status # "ABSENT" => offer[o].ride \in Rides /\ offer[o].driver \in Drivers
  BY DEF Rows, RowsRefer
<1>d. \A o \in Offers : offer[o].ride \in Rides => ride[offer[o].ride].status # "ABSENT"
  BY DEF Rows, RowsRefer
<1>c. ride \in [Rides -> RideRow] /\ offer \in [Offers -> OfferRow]
  BY DEF Rows, TablesTypeOK
<1>2. ASSUME NEW r \in Rides, RideCreated(r) PROVE RowsRefer' /\ Grows
  <2>1. \A q \in Rides : q # r => ride'[q] = ride[q]
    BY <1>2, <1>c DEF RideCreated
  <2>2. ride'[r].status = "REQUESTED"
    BY <1>2, <1>c DEF RideCreated
  <2> QED BY <2>1, <2>2, <1>2, <1>a, <1>b, <1>d, RowsAnnounce DEF RideCreated
<1>3. ASSUME NEW r \in Rides, NEW s \in {"MATCHING", "IN_PROGRESS", "COMPLETED", "CANCELLED"}, RideMoved(r, s)
      PROVE RowsRefer' /\ Grows
  <2>1. \A q \in Rides : q # r => ride'[q] = ride[q]
    BY <1>3, <1>c DEF RideMoved
  <2>2. ride'[r].status = s
    BY <1>3, <1>c DEF RideMoved, RideRow
  <2>3. s \in Announced /\ s \notin OfferStatus /\ s # "REQUESTED" /\ s # "ABSENT"
    BY DEF Announced, RideStatus, OfferStatus
  <2> QED BY <2>1, <2>2, <2>3, <1>3, <1>a, <1>b, <1>d, RowsAnnounce DEF RideMoved
<1>4. ASSUME NEW r \in Rides, NEW d \in Drivers, DriverAssigned(r, d) PROVE RowsRefer' /\ Grows
  <2>1. \A q \in Rides : q # r => ride'[q] = ride[q]
    BY <1>4, <1>c DEF DriverAssigned
  <2>2. ride'[r].status = "DRIVER_ASSIGNED"
    BY <1>4, <1>c DEF DriverAssigned
  <2> QED BY <2>1, <2>2, <1>4, <1>a, <1>b, <1>d, RowsAnnounce DEF DriverAssigned
<1>6. ASSUME NEW o \in Offers, NEW r \in Rides, NEW d \in Drivers, OfferCreated(o, r, d)
      PROVE RowsRefer' /\ Grows
  <2>1. \A q \in Offers : q # o => offer'[q] = offer[q]
    BY <1>6, <1>c DEF OfferCreated
  <2>2. offer'[o] = [status |-> "PENDING", ride |-> r, driver |-> d]
    BY <1>6, <1>c DEF OfferCreated
  <2> QED BY <2>1, <2>2, <1>6, <1>a, <1>b, <1>d, RowsAnnounce DEF OfferCreated
<1>7. ASSUME NEW o \in Offers, NEW s \in Outcomes, OfferSettled(o, s) PROVE RowsRefer' /\ Grows
  <2>1. \A q \in Offers : q # o => offer'[q] = offer[q]
    BY <1>7, <1>c DEF OfferSettled
  <2>2. offer'[o].status = s /\ offer'[o].ride = offer[o].ride /\ offer'[o].driver = offer[o].driver
    BY <1>7, <1>c DEF OfferSettled, OfferRow
  <2>3. s # "ABSENT" /\ s # "REQUESTED"
    BY DEF Outcomes, OfferStatus
  <2> QED BY <2>1, <2>2, <2>3, <1>7, <1>a, <1>b, <1>d, RowsAnnounce DEF OfferSettled
<1>8. ASSUME outbox' = outbox, offer' = offer,
             \A r \in Rides : ride[r].status # "ABSENT" => ride'[r].status # "ABSENT"
      PROVE  RowsRefer' /\ Grows
  <2>1. Len(outbox) \in Nat
    BY DEF Rows, TablesTypeOK
  <2>2. Grows
    <3>1. \A i \in (Len(outbox) + 1)..Len(outbox') : FALSE
      BY <1>8, <2>1
    <3> QED BY <1>8, <2>1, <3>1 DEF Grows, About
  <2> QED BY <1>8, <2>2 DEF Rows, RowsRefer
<1>5. ASSUME NEW r \in Rides, RideOffered(r) PROVE RowsRefer' /\ Grows
  <2>1. \A q \in Rides : q # r => ride'[q] = ride[q]
    BY <1>5, <1>c DEF RideOffered
  <2>2. ride'[r].status = "OFFERED"
    BY <1>5, <1>c DEF RideOffered, RideRow
  <2> QED BY <2>1, <2>2, <1>5, <1>8 DEF RideOffered
<1> QED
  BY <1>1, <1>2, <1>3, <1>4, <1>5, <1>6, <1>7, <1>8 DEF NextTables, tables, Rows

\* What fits a handler goes on fitting it.
LEMMA FitStays ==
  ASSUME Rows, Grows, NEW c, Fit(c)
  PROVE  Fit(c)'
<1>1. c.event \in 1..Len(outbox) => c.event \in 1..Len(outbox') /\ outbox'[c.event] = outbox[c.event]
                                    /\ About(c.event)' = About(c.event)
  BY DEF Grows
<1>2. c.pc \in Resting \/ c.event \in 1..Len(outbox)
  BY DEF Fit
<1>3. (Opening \cup {"release", "cool", "match"}) \cap Resting = {}
  BY DEF Opening, Resting
<1> QED BY <1>1, <1>2, <1>3 DEF Fit


(* ---------------------------- one handler ------------------------------ *)

Alone(w) == \A v \in Workers : v # w => call'[v] = call[v]
Late(w) == call[w].pc \notin Opening \cup Resting

\* The ways on: to another step, to the end, or out of the handler by a failure.
Onward(w) ==
  /\ done' = done
  /\ call'[w].event = call[w].event /\ call'[w].ride = call[w].ride
  /\ call'[w].pc \in Opening => call[w].pc \in Opening
  /\ call'[w].pc \in {"find", "store"} =>
       Searching(w) \/ (call[w].pc = "lock" /\ Ride(w) \notin lock /\ Ride(w) \in lock')
Finish(w) == call'[w] = Idle /\ done' = done \cup {call[w].event}
Drop(w) == call'[w] = Idle /\ done' = done /\ ~Clean'

NewList(w) ==
  \/ call'[w].list \in {call[w].list, <<>>}
  \/ \E d \in Drivers : ~Ext!Contains(call[w].list, d) /\ call'[w].list \in RankedWith(call[w].list, d)
HoldsNoNew(w) ==
  call'[w].pc \in Asking =>
    call[w].pc \in Asking /\ call'[w].ride = call[w].ride /\ call'[w].driver = call[w].driver

Hand(w) ==
  /\ call' \in [Workers -> Call] /\ Alone(w) /\ Fit(call[w])'
  /\ Onward(w) \/ Finish(w) \/ Drop(w)
  /\ NewList(w)

\* What it does to the lock, to the offers and to the record of incidents.
Control(w) ==
  /\ Alone(w) /\ (Onward(w) \/ Finish(w) \/ Drop(w))
  /\ \A r \in lock \ lock' : r = Ride(w) /\ (Late(w) \/ ~Clean')
  /\ \A o \in Offers : offer'[o].ride # offer[o].ride => offer'[o].ride = Ride(w) /\ Late(w)
  /\ Again' = Again /\ (Clean' => Clean)

\* What it does to the drivers listed, in hand and asked.
SameAsked == \A o \in Offers : offer'[o].ride = offer[o].ride /\ offer'[o].driver = offer[o].driver
Shorter(r) ==
  \/ candidates'[r] \in {candidates[r], <<>>}
  \/ candidates[r] # <<>> /\ candidates'[r] = Tail(candidates[r])
Quiet(w) == SameAsked /\ HoldsNoNew(w) /\ rounds' = rounds /\ \A r \in Rides : Shorter(r)
Stores(w) ==
  /\ SameAsked /\ HoldsNoNew(w) /\ Ride(w) \in Rides
  /\ rounds'[Ride(w)] = rounds[Ride(w)] + 1
  /\ candidates'[Ride(w)] \in {candidates[Ride(w)], call[w].list}
  /\ \A r \in Rides : r # Ride(w) => rounds'[r] = rounds[r] /\ candidates'[r] = candidates[r]
Pops(w) ==
  /\ SameAsked /\ rounds' = rounds
  /\ Ride(w) \in Rides /\ candidates[Ride(w)] # <<>>
  /\ candidates'[Ride(w)] = Tail(candidates[Ride(w)])
  /\ \A r \in Rides : r # Ride(w) => candidates'[r] = candidates[r]
  /\ call'[w].ride = Ride(w) /\ call'[w].driver = Head(candidates[Ride(w)])
  /\ call[w].pc \notin Asking
Creates(w) ==
  /\ UNCHANGED <<candidates, rounds>>
  /\ call[w].pc \in Asking /\ call'[w].pc \notin Asking
  /\ \E o \in Offers :
       /\ offer'[o].ride = Ride(w) /\ offer'[o].driver = call[w].driver
       /\ \A p \in Offers : p # o => offer'[p] = offer[p]
Asks(w) == Alone(w) /\ NewList(w) /\ (Quiet(w) \/ Stores(w) \/ Pops(w) \/ Creates(w))

Shape(w) == TypeInv' /\ Grows /\ Control(w) /\ Asks(w)

\* Where a handler may go without leaving its ride.
MayGo(w, pc) ==
  /\ call[w].pc \notin Resting
  /\ pc \in Steps \ Resting
  /\ pc \in Opening \cup {"release"} => call[w].pc \in Opening
  /\ pc \in {"find", "store"} =>
       Searching(w) \/ (call[w].pc = "lock" /\ Ride(w) \notin lock /\ Ride(w) \in lock')
  /\ pc \in Asking => call[w].pc \in Asking
  /\ pc # "sent"
  /\ pc = "activate" => call[w].pc = "sent"
  /\ pc \in {"cool", "match"} => call[w].pc = "cool"

LEMMA CallFits ==
  ASSUME TypeInv, NEW w \in Workers
  PROVE  /\ call[w] \in Call /\ Fit(call[w]) /\ call[w].pc \in Steps
         /\ call[w].list \in Seq(Drivers) /\ call[w].tried \in Nat
         /\ call[w].pc \notin Resting => Ride(w) \in Rides /\ call[w].event \in 1..Len(outbox)
BY DEF TypeInv, Hands, Call, Fit, Ride

LEMMA GoHand ==
  ASSUME TypeInv, Grows, NEW w \in Workers, NEW pc, MayGo(w, pc), Go(w, pc), done' = done
  PROVE  Hand(w) /\ HoldsNoNew(w)
<1>1. call' \in [Workers -> Call] /\ Alone(w)
  BY DEF TypeInv, Hands, Go, MayGo, Call, Alone
<1>2. call[w] \in Call
  BY CallFits
<1>3. call'[w] = [call[w] EXCEPT !.pc = pc]
  BY DEF TypeInv, Hands, Go
<1>4. /\ call'[w].pc = pc /\ call'[w].event = call[w].event /\ call'[w].ride = call[w].ride
      /\ call'[w].list = call[w].list /\ call'[w].driver = call[w].driver /\ call'[w].offer = call[w].offer
  BY <1>2, <1>3 DEF Call
<1>5. PICK c : c = call[w]
  OBVIOUS
<1>6. Fit(c) /\ Fit(c)'
  BY <1>5, CallFits, FitStays DEF TypeInv
<1>7. Fit(call[w])'
  BY <1>4, <1>5, <1>6 DEF Fit, MayGo, Opening, Resting, Asking, Searching
<1>8. Onward(w)
  BY <1>4 DEF Onward, MayGo
<1>9. HoldsNoNew(w)
  BY <1>4 DEF HoldsNoNew, MayGo
<1> QED BY <1>1, <1>4, <1>7, <1>8, <1>9 DEF Hand, NewList

LEMMA IdleFits == Idle \in Call /\ Fit(Idle)' /\ Idle.pc = "idle" /\ Idle.list = <<>> /\ Idle.event = 0
BY DEF Idle, Call, Steps, Fit, Resting, Opening, Asking

LEMMA EndHand ==
  ASSUME TypeInv, NEW w \in Workers, Ack(w) \/ (Nak(w) /\ ~Clean')
  PROVE  Hand(w) /\ HoldsNoNew(w)
<1>1. call' = [call EXCEPT ![w] = Idle]
  BY DEF Ack, Nak
<1>2. call' \in [Workers -> Call] /\ Alone(w) /\ call'[w] = Idle
  BY <1>1, IdleFits DEF TypeInv, Hands, Alone
<1>3. Fit(call[w])'
  BY <1>2, IdleFits
<1>4. Finish(w) \/ Drop(w)
  BY <1>2 DEF Ack, Nak, Finish, Drop
<1>5. HoldsNoNew(w)
  BY <1>2, IdleFits DEF HoldsNoNew, Asking
<1> QED BY <1>2, <1>3, <1>4, <1>5, IdleFits DEF Hand, NewList

LEMMA ContinueHand ==
  ASSUME TypeInv, Grows, NEW w \in Workers, call[w].pc \notin Resting, Continue(w)
  PROVE  Hand(w) /\ HoldsNoNew(w) /\ call'[w].pc \in {"pop", "idle"}
<1>1. CASE Ack(w)
  <2>1. call'[w] = Idle
    BY <1>1 DEF Ack, TypeInv, Hands
  <2> QED BY <1>1, <2>1, EndHand, IdleFits
<1>2. CASE /\ call' = [call EXCEPT ![w].pc = "pop", ![w].tried = @ + 1, ![w].driver = None]
           /\ UNCHANGED done
  <2>1. call[w] \in Call /\ call[w].tried \in Nat
    BY CallFits
  <2>2. call'[w] = [call[w] EXCEPT !.pc = "pop", !.tried = @ + 1, !.driver = None]
    BY <1>2 DEF TypeInv, Hands
  <2>t. PICK t \in Nat : t = call[w].tried + 1
    BY <2>1
  <2>d. "pop" \in Steps /\ None \in Drivers \cup {None}
    BY DEF Steps
  <2>e. call'[w] = [call[w] EXCEPT !.pc = "pop", !.tried = t, !.driver = None]
    BY <2>2, <2>t
  <2>3. call'[w] \in Call
    BY <2>1, <2>e, <2>d DEF Call
  <2>4. call' \in [Workers -> Call] /\ Alone(w)
    BY <1>2, <2>2, <2>3 DEF TypeInv, Hands, Alone
  <2>5. call'[w].pc = "pop" /\ call'[w].event = call[w].event /\ call'[w].ride = call[w].ride
        /\ call'[w].list = call[w].list
    BY <2>1, <2>2 DEF Call
  <2>6. PICK c : c = call[w]
    OBVIOUS
  <2>7. Fit(c) /\ Fit(c)'
    BY <2>6, CallFits, FitStays DEF TypeInv
  <2>8. Fit(call[w])'
    BY <2>5, <2>6, <2>7 DEF Fit, Opening, Resting, Asking
  <2>9. Onward(w) /\ HoldsNoNew(w)
    BY <1>2, <2>5 DEF Onward, HoldsNoNew, Opening, Asking
  <2> QED BY <2>4, <2>5, <2>8, <2>9 DEF Hand, NewList
<1> QED BY <1>1, <1>2 DEF Continue

\* The other handlers go on fitting the tables.
LEMMA HandsStep ==
  ASSUME TypeInv, Grows, NEW w \in Workers, Hand(w), call[w].pc \notin Resting
  PROVE  Hands'
<1>1. done' \subseteq done \cup {call[w].event} /\ call[w].event \in 1..Len(outbox)
  BY CallFits DEF Hand, Onward, Finish, Drop
<1>2. done' \in SUBSET (1..Len(outbox'))
  BY <1>1 DEF Grows, TypeInv, Hands
<1>3. ASSUME NEW v \in Workers PROVE Fit(call[v])'
  <2>1. CASE v = w
    BY <2>1 DEF Hand
  <2>2. CASE v # w
    <3>1. PICK c : c = call[v]
      OBVIOUS
    <3>2. Fit(c)'
      BY <3>1, CallFits, FitStays DEF TypeInv
    <3>3. call'[v] = c
      BY <2>2, <3>1 DEF Hand, Alone
    <3> QED BY <3>2, <3>3
  <2> QED BY <2>1, <2>2
<1> QED BY <1>2, <1>3 DEF Hands, Hand

\* A step that asks nobody and lists nobody.
Unlocks(w) == \A r \in lock \ lock' : r = Ride(w) /\ (Late(w) \/ ~Clean')
Counts == Again' = Again /\ (Clean' => Clean)

LEMMA QuietStep ==
  ASSUME TypeInv, KeysOK', NEW w \in Workers, call[w].pc \notin Resting, [NextTables]_tables, offer' = offer,
         Hand(w), HoldsNoNew(w), rounds' = rounds, \A r \in Rides : Shorter(r), Unlocks(w), Counts
  PROVE  Shape(w)
<1>1. Rows' /\ Grows
  BY RowsStep DEF TypeInv
<1>2. TypeInv'
  BY <1>1, HandsStep DEF TypeInv
<1>3. Control(w)
  BY DEF Control, Hand, Unlocks, Counts
<1>4. Asks(w)
  BY DEF Asks, Quiet, SameAsked, Hand
<1> QED BY <1>1, <1>2, <1>3, <1>4 DEF Shape

\* ... and leaves the tables, the candidates and the lock alone.
LEMMA PlainStep ==
  ASSUME TypeInv, KeysOK', NEW w \in Workers, call[w].pc \notin Resting,
         UNCHANGED <<tables, candidates, lock, rounds>>, Counts,
         Ack(w) \/ \E pc : MayGo(w, pc) /\ Go(w, pc) /\ done' = done
  PROVE  Shape(w)
<1>1. Grows
  BY RowsStep DEF TypeInv
<1>2. Hand(w) /\ HoldsNoNew(w)
  BY <1>1, GoHand, EndHand
<1> QED BY <1>2, QuietStep DEF Shorter, Unlocks, tables

LEMMA IncidentCounts ==
  ASSUME KeysOK, NEW kind, Incident(kind), kind # "again"
  PROVE  /\ incidents' \in [Incidents -> Nat] /\ Counts
         /\ kind \in {"redis", "rpc", "crash", "ride key"} => ~Clean'
<1>1. kind \in Incidents /\ incidents' = [incidents EXCEPT ![kind] = @ + 1]
  BY DEF Incident
<1>2. incidents \in [Incidents -> Nat]
  BY DEF KeysOK
<1>3. incidents'[kind] = incidents[kind] + 1 /\ incidents[kind] \in Nat
  BY <1>1, <1>2
<1>4. \A k \in Incidents : k # kind => incidents'[k] = incidents[k]
  BY <1>1, <1>2
<1>k. kind \in Incidents
  BY <1>1
<1>p. incidents'[kind] # 0
  BY <1>3
<1>5. Counts
  <2>1. Again' = Again
    BY <1>4 DEF Again
  <2>2. ASSUME Clean', NEW k \in Incidents \cap {"redis", "rpc", "crash", "ride key"} PROVE incidents[k] = 0
    <3>1. incidents'[k] = 0 /\ k \in Incidents
      BY <2>2 DEF Clean
    <3> QED BY <3>1, <1>p, <1>4
  <2>3. Clean' => Clean
    BY <2>2 DEF Clean
  <2> QED BY <2>1, <2>3 DEF Counts
<1>6. kind \in {"redis", "rpc", "crash", "ride key"} => ~Clean'
  BY <1>k, <1>p DEF Clean
<1>7. incidents' \in [Incidents -> Nat]
  BY <1>1, <1>2, <1>3
<1> QED BY <1>k, <1>5, <1>6, <1>7

LEMMA NoIncident == UNCHANGED incidents => Counts
BY DEF Counts, Again, Clean

(* ------------------- what each of its commands does -------------------- *)

LEMMA GetActiveShape ==
  ASSUME TypeInv, UNCHANGED maxOffers, NEW w \in Workers, GetActive(w)
  PROVE  Shape(w)
<1>1. call[w].pc = "active"
  BY DEF GetActive, At
<1>2. KeysOK' /\ UNCHANGED <<tables, candidates, lock, rounds, incidents>>
  BY <1>1 DEF GetActive, TypeInv, KeysOK, redis
<1>3. Ack(w) \/ (MayGo(w, "has") /\ Go(w, "has") /\ done' = done)
  BY <1>1 DEF GetActive, Stop, MayGo, Steps, Opening, Resting, Asking, Searching
<1>4. call[w].pc \notin Resting
  BY <1>1 DEF Resting
<1> QED BY <1>2, <1>3, <1>4, PlainStep, NoIncident


LEMMA HasCandidatesShape ==
  ASSUME TypeInv, UNCHANGED maxOffers, NEW w \in Workers, HasCandidates(w)
  PROVE  Shape(w)
<1>1. call[w].pc = "has"
  BY DEF HasCandidates, At
<1>2. KeysOK' /\ UNCHANGED <<tables, candidates, lock, rounds, incidents>>
  BY <1>1 DEF HasCandidates, TypeInv, KeysOK, redis
<1>3. Ack(w) \/ (MayGo(w, "lock") /\ Go(w, "lock") /\ done' = done)
  BY <1>1 DEF HasCandidates, Stop, MayGo, Steps, Opening, Resting, Asking, Searching
<1>4. call[w].pc \notin Resting
  BY <1>1 DEF Resting
<1> QED BY <1>2, <1>3, <1>4, PlainStep, NoIncident


LEMMA FindCandidatesShape ==
  ASSUME TypeInv, UNCHANGED maxOffers, NEW w \in Workers, FindCandidates(w)
  PROVE  Shape(w)
<1>1. call[w].pc = "find"
  BY DEF FindCandidates, At
<1>2. KeysOK' /\ UNCHANGED <<tables, candidates, lock, rounds, incidents>>
  BY <1>1 DEF FindCandidates, TypeInv, KeysOK, redis
<1>3. (MayGo(w, "release") /\ Go(w, "release") /\ done' = done)
      \/ (MayGo(w, "store") /\ Go(w, "store") /\ done' = done)
  BY <1>1 DEF FindCandidates, Stop, MayGo, Steps, Opening, Resting, Asking, Searching
<1>4. call[w].pc \notin Resting
  BY <1>1 DEF Resting
<1> QED BY <1>2, <1>3, <1>4, PlainStep, NoIncident


LEMMA SetCooldownShape ==
  ASSUME TypeInv, UNCHANGED maxOffers, NEW w \in Workers, SetCooldown(w)
  PROVE  Shape(w)
<1>1. call[w].pc = "cool"
  BY DEF SetCooldown, At
<1>9. offer[call[w].offer].driver \in Drivers
  <2>1. call[w].offer \in Offers /\ call[w].offer = outbox[call[w].event].id /\ call[w].event \in 1..Len(outbox)
    BY <1>1, CallFits DEF Fit, Resting
  <2>2. offer[call[w].offer].status # "ABSENT"
    BY <2>1, IdsDiffer DEF TypeInv, Rows, RowsRefer
  <2> QED BY <2>1, <2>2 DEF TypeInv, Rows, RowsRefer
<1>2. KeysOK' /\ UNCHANGED <<tables, candidates, lock, rounds, incidents>>
  BY <1>1, <1>9 DEF SetCooldown, TypeInv, KeysOK, redis
<1>3. MayGo(w, "match") /\ Go(w, "match") /\ done' = done
  BY <1>1 DEF SetCooldown, Stop, MayGo, Steps, Opening, Resting, Asking, Searching
<1>4. call[w].pc \notin Resting
  BY <1>1 DEF Resting
<1> QED BY <1>2, <1>3, <1>4, PlainStep, NoIncident


LEMMA MatchActiveShape ==
  ASSUME TypeInv, UNCHANGED maxOffers, NEW w \in Workers, MatchActive(w)
  PROVE  Shape(w)
<1>1. call[w].pc = "match"
  BY DEF MatchActive, At
<1>2. KeysOK' /\ UNCHANGED <<tables, candidates, lock, rounds, incidents>>
  BY <1>1 DEF MatchActive, TypeInv, KeysOK, redis
<1>3. Ack(w) \/ (MayGo(w, "clear") /\ Go(w, "clear") /\ done' = done)
  BY <1>1 DEF MatchActive, Stop, MayGo, Steps, Opening, Resting, Asking, Searching
<1>4. call[w].pc \notin Resting
  BY <1>1 DEF Resting
<1> QED BY <1>2, <1>3, <1>4, PlainStep, NoIncident


LEMMA ClearActiveShape ==
  ASSUME TypeInv, UNCHANGED maxOffers, NEW w \in Workers, ClearActive(w)
  PROVE  Shape(w)
<1>1. call[w].pc = "clear"
  BY DEF ClearActive, At
<1>2. KeysOK' /\ UNCHANGED <<tables, candidates, lock, rounds, incidents>>
  BY <1>1 DEF ClearActive, TypeInv, KeysOK, redis, Ride
<1>3. MayGo(w, "next") /\ Go(w, "next") /\ done' = done
  BY <1>1 DEF ClearActive, Stop, MayGo, Steps, Opening, Resting, Asking, Searching
<1>4. call[w].pc \notin Resting
  BY <1>1 DEF Resting
<1> QED BY <1>2, <1>3, <1>4, PlainStep, NoIncident


LEMMA NextOfferShape ==
  ASSUME TypeInv, UNCHANGED maxOffers, NEW w \in Workers, NextOffer(w)
  PROVE  Shape(w)
<1>1. call[w].pc = "next"
  BY DEF NextOffer, At
<1>2. KeysOK' /\ UNCHANGED <<tables, candidates, lock, rounds, incidents>>
  BY <1>1 DEF NextOffer, TypeInv, KeysOK, redis
<1>3. Ack(w) \/ (MayGo(w, "pop") /\ Go(w, "pop") /\ done' = done)
  BY <1>1 DEF NextOffer, Stop, MayGo, Steps, Opening, Resting, Asking, Searching
<1>4. call[w].pc \notin Resting
  BY <1>1 DEF Resting
<1> QED BY <1>2, <1>3, <1>4, PlainStep, NoIncident


LEMMA CheckCountShape ==
  ASSUME TypeInv, UNCHANGED maxOffers, NEW w \in Workers, CheckCount(w)
  PROVE  Shape(w)
<1>1. call[w].pc = "count"
  BY DEF CheckCount, At
<1>2. KeysOK' /\ UNCHANGED <<tables, candidates, lock, rounds, incidents>>
  BY <1>1 DEF CheckCount, TypeInv, KeysOK, redis
<1>3. (MayGo(w, "giveup") /\ Go(w, "giveup") /\ done' = done)
      \/ (MayGo(w, "busy") /\ Go(w, "busy") /\ done' = done)
  BY <1>1 DEF CheckCount, Stop, MayGo, Steps, Opening, Resting, Asking, Searching
<1>4. call[w].pc \notin Resting
  BY <1>1 DEF Resting
<1> QED BY <1>2, <1>3, <1>4, PlainStep, NoIncident


LEMMA NotifyOfferSentShape ==
  ASSUME TypeInv, UNCHANGED maxOffers, NEW w \in Workers, NotifyOfferSent(w)
  PROVE  Shape(w)
<1>1. call[w].pc = "sent"
  BY DEF NotifyOfferSent, At
<1>9. call[w].driver \in Drivers /\ call[w].offer \in Offers
  BY <1>1, CallFits DEF Fit
<1>2. KeysOK' /\ UNCHANGED <<tables, candidates, lock, rounds, incidents>>
  BY <1>1, <1>9 DEF NotifyOfferSent, TypeInv, KeysOK, redis
<1>3. MayGo(w, "activate") /\ Go(w, "activate") /\ done' = done
  BY <1>1 DEF NotifyOfferSent, Stop, MayGo, Steps, Opening, Resting, Asking, Searching
<1>4. call[w].pc \notin Resting
  BY <1>1 DEF Resting
<1> QED BY <1>2, <1>3, <1>4, PlainStep, NoIncident


LEMMA SetActiveShape ==
  ASSUME TypeInv, UNCHANGED maxOffers, NEW w \in Workers, SetActive(w)
  PROVE  Shape(w)
<1>1. call[w].pc = "activate"
  BY DEF SetActive, At
<1>9. call[w].offer \in Offers
  BY <1>1, CallFits DEF Fit
<1>2. KeysOK' /\ UNCHANGED <<tables, candidates, lock, rounds, incidents>>
  BY <1>1, <1>9 DEF SetActive, TypeInv, KeysOK, redis, Ride
<1>3. MayGo(w, "increment") /\ Go(w, "increment") /\ done' = done
  BY <1>1 DEF SetActive, Stop, MayGo, Steps, Opening, Resting, Asking, Searching
<1>4. call[w].pc \notin Resting
  BY <1>1 DEF Resting
<1> QED BY <1>2, <1>3, <1>4, PlainStep, NoIncident


LEMMA IncrementCountShape ==
  ASSUME TypeInv, UNCHANGED maxOffers, NEW w \in Workers, IncrementCount(w)
  PROVE  Shape(w)
<1>1. call[w].pc = "increment"
  BY DEF IncrementCount, At
<1>8. Ride(w) \in Rides
  BY <1>1, CallFits DEF Resting
<1>9. count[Ride(w)] + 1 \in Nat
  BY <1>8 DEF TypeInv, KeysOK
<1>2. KeysOK' /\ UNCHANGED <<tables, candidates, lock, rounds, incidents>>
  BY <1>1, <1>9 DEF IncrementCount, TypeInv, KeysOK, redis, Ride
<1>3. Ack(w)
  BY <1>1 DEF IncrementCount, Stop, MayGo, Steps, Opening, Resting, Asking, Searching
<1>4. call[w].pc \notin Resting
  BY <1>1 DEF Resting
<1> QED BY <1>2, <1>3, <1>4, PlainStep, NoIncident


LEMMA ReleaseRideLockShape ==
  ASSUME TypeInv, UNCHANGED maxOffers, NEW w \in Workers, ReleaseRideLock(w)
  PROVE  Shape(w)
<1>1. call[w].pc = "release" /\ Ride(w) \in Rides
  BY CallFits DEF ReleaseRideLock, At, Resting
<1>2. KeysOK' /\ rounds' = rounds /\ UNCHANGED tables
  BY <1>1 DEF ReleaseRideLock, TypeInv, KeysOK, Release, Forget
<1>3. MayGo(w, "cancel") /\ Go(w, "cancel") /\ done' = done
  BY <1>1 DEF ReleaseRideLock, Stop, MayGo, Steps, Opening, Resting, Asking, Searching, Release
<1>4. Unlocks(w) /\ (\A r \in Rides : Shorter(r)) /\ Counts
  BY <1>1, NoIncident DEF ReleaseRideLock, Release, Forget, Unlocks, Shorter, Late, Opening, Resting, TypeInv, KeysOK
<1>5. Grows /\ call[w].pc \notin Resting
  BY <1>1, <1>2, RowsStep DEF TypeInv, Resting
<1>6. Hand(w) /\ HoldsNoNew(w)
  BY <1>3, <1>5, GoHand, EndHand
<1> QED BY <1>2, <1>4, <1>5, <1>6, QuietStep DEF tables


LEMMA ClearAcceptedShape ==
  ASSUME TypeInv, UNCHANGED maxOffers, NEW w \in Workers, ClearAccepted(w)
  PROVE  Shape(w)
<1>1. call[w].pc = "accepted" /\ Ride(w) \in Rides
  BY CallFits DEF ClearAccepted, At, Resting
<1>2. KeysOK' /\ rounds' = rounds /\ UNCHANGED tables
  BY <1>1 DEF ClearAccepted, TypeInv, KeysOK, Release, Forget
<1>3. MayGo(w, "unlock") /\ Go(w, "unlock") /\ done' = done
  BY <1>1 DEF ClearAccepted, Stop, MayGo, Steps, Opening, Resting, Asking, Searching, Release
<1>4. Unlocks(w) /\ (\A r \in Rides : Shorter(r)) /\ Counts
  BY <1>1, NoIncident DEF ClearAccepted, Release, Forget, Unlocks, Shorter, Late, Opening, Resting, TypeInv, KeysOK
<1>5. Grows /\ call[w].pc \notin Resting
  BY <1>1, <1>2, RowsStep DEF TypeInv, Resting
<1>6. Hand(w) /\ HoldsNoNew(w)
  BY <1>3, <1>5, GoHand, EndHand
<1> QED BY <1>2, <1>4, <1>5, <1>6, QuietStep DEF tables


LEMMA UnlockAcceptedShape ==
  ASSUME TypeInv, UNCHANGED maxOffers, NEW w \in Workers, UnlockAccepted(w)
  PROVE  Shape(w)
<1>1. call[w].pc = "unlock" /\ Ride(w) \in Rides
  BY CallFits DEF UnlockAccepted, At, Resting
<1>2. KeysOK' /\ rounds' = rounds /\ UNCHANGED tables
  BY <1>1 DEF UnlockAccepted, TypeInv, KeysOK, Release, Forget
<1>3. Ack(w)
  BY <1>1 DEF UnlockAccepted, Stop, MayGo, Steps, Opening, Resting, Asking, Searching, Release
<1>4. Unlocks(w) /\ (\A r \in Rides : Shorter(r)) /\ Counts
  BY <1>1, NoIncident DEF UnlockAccepted, Release, Forget, Unlocks, Shorter, Late, Opening, Resting, TypeInv, KeysOK
<1>5. Grows /\ call[w].pc \notin Resting
  BY <1>1, <1>2, RowsStep DEF TypeInv, Resting
<1>6. Hand(w) /\ HoldsNoNew(w)
  BY <1>3, <1>5, GoHand, EndHand
<1> QED BY <1>2, <1>4, <1>5, <1>6, QuietStep DEF tables


LEMMA GiveUpShape ==
  ASSUME TypeInv, UNCHANGED maxOffers, NEW w \in Workers, GiveUp(w)
  PROVE  Shape(w)
<1>1. call[w].pc = "giveup" /\ Ride(w) \in Rides
  BY CallFits DEF GiveUp, At, Resting
<1>2. KeysOK' /\ rounds' = rounds /\ UNCHANGED tables
  BY <1>1 DEF GiveUp, TypeInv, KeysOK, Release, Forget
<1>3. MayGo(w, "forget") /\ Go(w, "forget") /\ done' = done
  BY <1>1 DEF GiveUp, Stop, MayGo, Steps, Opening, Resting, Asking, Searching, Release
<1>4. Unlocks(w) /\ (\A r \in Rides : Shorter(r)) /\ Counts
  BY <1>1, NoIncident DEF GiveUp, Release, Forget, Unlocks, Shorter, Late, Opening, Resting, TypeInv, KeysOK
<1>5. Grows /\ call[w].pc \notin Resting
  BY <1>1, <1>2, RowsStep DEF TypeInv, Resting
<1>6. Hand(w) /\ HoldsNoNew(w)
  BY <1>3, <1>5, GoHand, EndHand
<1> QED BY <1>2, <1>4, <1>5, <1>6, QuietStep DEF tables


LEMMA ClearRideShape ==
  ASSUME TypeInv, UNCHANGED maxOffers, NEW w \in Workers, ClearRide(w)
  PROVE  Shape(w)
<1>1. call[w].pc = "forget" /\ Ride(w) \in Rides
  BY CallFits DEF ClearRide, At, Resting
<1>2. KeysOK' /\ rounds' = rounds /\ UNCHANGED tables
  BY <1>1 DEF ClearRide, TypeInv, KeysOK, Release, Forget
<1>3. MayGo(w, "cancel") /\ Go(w, "cancel") /\ done' = done
  BY <1>1 DEF ClearRide, Stop, MayGo, Steps, Opening, Resting, Asking, Searching, Release
<1>4. Unlocks(w) /\ (\A r \in Rides : Shorter(r)) /\ Counts
  BY <1>1, NoIncident DEF ClearRide, Release, Forget, Unlocks, Shorter, Late, Opening, Resting, TypeInv, KeysOK
<1>5. Grows /\ call[w].pc \notin Resting
  BY <1>1, <1>2, RowsStep DEF TypeInv, Resting
<1>6. Hand(w) /\ HoldsNoNew(w)
  BY <1>3, <1>5, GoHand, EndHand
<1> QED BY <1>2, <1>4, <1>5, <1>6, QuietStep DEF tables


LEMMA AcquireRideLockShape ==
  ASSUME TypeInv, UNCHANGED maxOffers, NEW w \in Workers, AcquireRideLock(w)
  PROVE  Shape(w)
<1>1. call[w].pc = "lock" /\ Ride(w) \in Rides
  BY CallFits DEF AcquireRideLock, At, Resting
<1>2. KeysOK' /\ rounds' = rounds /\ UNCHANGED tables
  BY <1>1 DEF AcquireRideLock, TypeInv, KeysOK, Release, Forget
<1>3. Ack(w) \/ (MayGo(w, "find") /\ Go(w, "find") /\ done' = done)
  BY <1>1 DEF AcquireRideLock, Stop, MayGo, Steps, Opening, Resting, Asking, Searching, Release
<1>4. Unlocks(w) /\ (\A r \in Rides : Shorter(r)) /\ Counts
  BY <1>1, NoIncident DEF AcquireRideLock, Release, Forget, Unlocks, Shorter, Late, Opening, Resting, TypeInv, KeysOK
<1>5. Grows /\ call[w].pc \notin Resting
  BY <1>1, <1>2, RowsStep DEF TypeInv, Resting
<1>6. Hand(w) /\ HoldsNoNew(w)
  BY <1>3, <1>5, GoHand, EndHand
<1> QED BY <1>2, <1>4, <1>5, <1>6, QuietStep DEF tables


LEMMA HasOfferShape ==
  ASSUME TypeInv, UNCHANGED maxOffers, NEW w \in Workers, HasOffer(w)
  PROVE  Shape(w)
<1>1. call[w].pc = "busy" /\ call[w].pc \notin Resting
  BY DEF HasOffer, At, Resting
<1>2. KeysOK' /\ UNCHANGED <<tables, candidates, lock, rounds, incidents>>
  BY DEF HasOffer, TypeInv, KeysOK, redis
<1>3. Grows
  BY <1>2, RowsStep DEF TypeInv
<1>4. Continue(w) \/ (MayGo(w, "create") /\ Go(w, "create") /\ done' = done)
  BY <1>1 DEF HasOffer, MayGo, Steps, Opening, Resting, Asking
<1>5. Hand(w) /\ HoldsNoNew(w)
  BY <1>1, <1>3, <1>4, GoHand, ContinueHand
<1> QED BY <1>1, <1>2, <1>5, QuietStep, NoIncident DEF Shorter, Unlocks, tables

\* Cancelling a ride is a step of the tables.
LEMMA CancelledStep ==
  ASSUME TypeInv, NEW r \in Rides, Cancelled(r) \/ UNCHANGED <<tables, gaveUp>>
  PROVE  [NextTables]_tables /\ offer' = offer /\ gaveUp' \in SUBSET Rides
BY DEF Cancelled, RideMoved, NextTables, tables, TypeInv, KeysOK

LEMMA CancelRideShape ==
  ASSUME TypeInv, UNCHANGED maxOffers, NEW w \in Workers, CancelRide(w)
  PROVE  Shape(w)
<1>1. call[w].pc = "cancel" /\ Ride(w) \in Rides /\ call[w].pc \notin Resting
  BY CallFits DEF CancelRide, At, Resting
<1>2. [NextTables]_tables /\ offer' = offer /\ gaveUp' \in SUBSET Rides
  BY <1>1, CancelledStep DEF CancelRide
<1>3. KeysOK' /\ UNCHANGED <<candidates, lock, rounds, incidents>>
  BY <1>2 DEF CancelRide, TypeInv, KeysOK, redis
<1>4. Hand(w) /\ HoldsNoNew(w)
  BY EndHand DEF CancelRide
<1> QED BY <1>1, <1>2, <1>3, <1>4, QuietStep, NoIncident DEF Shorter, Unlocks

\* A list of candidates with one more.
LEMMA RankedFacts ==
  ASSUME NEW s \in Seq(Drivers), NEW d \in Drivers, NEW t \in RankedWith(s, d)
  PROVE  /\ t \in Seq(Drivers)
         /\ Distinct(s) /\ ~Ext!Contains(s, d) => Distinct(t)
<1>1. PICK i \in 1..(Len(s) + 1) : t = SubSeq(s, 1, i - 1) \o <<d>> \o SubSeq(s, i, Len(s))
  BY DEF RankedWith, Ext!InsertAt
<1>2. PICK n \in Nat : n = Len(s)
  OBVIOUS
<1> DEFINE a == SubSeq(s, 1, i - 1)
           b == SubSeq(s, i, Len(s))
<1>3. /\ a \in Seq(Drivers) /\ Len(a) = i - 1 /\ \A j \in 1..(i - 1) : a[j] = s[j]
      /\ b \in Seq(Drivers) /\ Len(b) = n - i + 1 /\ \A j \in 1..(n - i + 1) : b[j] = s[i + j - 1]
  BY <1>1, <1>2
<1>i. i \in 1..(n + 1) /\ t = (a \o <<d>>) \o b
  BY <1>1, <1>2
<1> HIDE DEF a, b
<1>c. PICK c \in Seq(Drivers) : c = a \o <<d>>
  <2>1. a \in Seq(Drivers) /\ <<d>> \in Seq(Drivers)
    BY <1>3
  <2>2. a \o <<d>> \in Seq(Drivers)
    BY <2>1
  <2> QED BY <2>2, Zenon
<1>l. Len(c) = i /\ c[i] = d /\ \A j \in 1..(i - 1) : c[j] = a[j]
  BY <1>3, <1>c, <1>i
<1>z. t = c \o b
  BY <1>i, <1>c, Zenon
<1>n. i \in Nat /\ Len(b) = (n + 1) - i
  <2>1. Len(b) = n - i + 1
    BY <1>3
  <2> QED BY <2>1, <1>i
<1>t. t = c \o b /\ Len(b) \in Nat /\ Len(c) + Len(b) = n + 1
  BY <1>3, <1>n, <1>z, <1>l
<1>b. b \in Seq(Drivers)
  BY <1>3
<1>4. t \in Seq(Drivers) /\ Len(t) = n + 1
  <2>1. t \in Seq(Drivers)
    BY <1>b, <1>c, <1>z
  <2>2. Len(t) = Len(c) + Len(b)
    BY <1>b, <1>c, <1>z
  <2> QED BY <2>1, <2>2, <1>t
<1>u. \A j \in 1..(n + 1) : t[j] = IF j <= i THEN c[j] ELSE b[j - i]
  BY <1>3, <1>i, <1>c, <1>l, <1>t
<1>5. \A j \in 1..(n + 1) : t[j] = IF j < i THEN s[j] ELSE IF j = i THEN d ELSE s[j - 1]
  <2> TAKE j \in 1..(n + 1)
  <2>1. CASE j < i
    BY <2>1, <1>3, <1>i, <1>u, <1>l
  <2>2. CASE j = i
    BY <2>2, <1>3, <1>i, <1>u, <1>l
  <2>3. CASE j > i
    <3>0. j - i \in 1..(n - i + 1) /\ ~(j <= i)
      BY <2>3, <1>i
    <3>1. j - i \in 1..(n - i + 1) /\ t[j] = b[j - i]
      BY <3>0, <1>u
    <3>2. b[j - i] = s[i + (j - i) - 1] /\ i + (j - i) - 1 = j - 1
      BY <3>1, <2>3, <1>3, <1>i
    <3>3. ~(j < i) /\ j # i
      BY <2>3, <1>i
    <3>4. t[j] = s[j - 1]
      BY <3>1, <3>2, Zenon
    <3> QED BY <3>3, <3>4
  <2>4. j < i \/ j = i \/ j > i
    BY <1>i
  <2> QED BY <2>1, <2>2, <2>3, <2>4, Zenon
<1>6. ASSUME Distinct(s), ~Ext!Contains(s, d), NEW j \in 1..Len(t), NEW k \in 1..Len(t), t[j] = t[k]
      PROVE  j = k
  <2>1. \A m \in 1..n : s[m] # d
    BY <1>6, <1>2 DEF Ext!Contains
  <2>2. \A m, l \in 1..n : s[m] = s[l] => m = l
    BY <1>6, <1>2 DEF Distinct
  <2>3. i \in 1..(n + 1) /\ j \in 1..(n + 1) /\ k \in 1..(n + 1)
    BY <1>1, <1>2, <1>4
  <2> DEFINE p(x) == IF x < i THEN x ELSE x - 1
  <2>4. ASSUME NEW x \in 1..(n + 1), x # i PROVE p(x) \in 1..n /\ t[x] = s[p(x)] /\ t[x] # d
    <3>1. p(x) \in 1..n
      BY <2>3, <2>4
    <3>2. t[x] = s[p(x)]
      BY <1>5, <2>3, <2>4
    <3> QED BY <3>1, <3>2, <2>1
  <2>5. \A x, y \in 1..(n + 1) : x # i /\ y # i /\ p(x) = p(y) => x = y
    BY <2>3
  <2>6. t[i] = d
    BY <2>3, <1>5
  <2> HIDE DEF p
  <2> QED BY <2>2, <2>3, <2>4, <2>5, <2>6, <1>6
<1> QED BY <1>4, <1>6 DEF Distinct

LEMMA ConsiderShape ==
  ASSUME TypeInv, UNCHANGED maxOffers, NEW w \in Workers, Consider(w)
  PROVE  Shape(w)
<1>1. call[w].pc = "find" /\ call[w].pc \notin Resting
  BY DEF Consider, At, Resting
<1>2. KeysOK' /\ UNCHANGED <<tables, candidates, lock, rounds, incidents>>
  BY DEF Consider, TypeInv, KeysOK, redis
<1>3. Grows
  BY <1>2, RowsStep DEF TypeInv
<1>4. PICK d \in Drivers : \E list \in RankedWith(call[w].list, d) :
        ~Ext!Contains(call[w].list, d) /\ call' = [call EXCEPT ![w].list = list]
  BY DEF Consider, Near, TypeInv, KeysOK
<1>5. PICK list \in RankedWith(call[w].list, d) :
        ~Ext!Contains(call[w].list, d) /\ call' = [call EXCEPT ![w].list = list]
  BY <1>4
<1>6. list \in Seq(Drivers) /\ call[w] \in Call
  BY CallFits, RankedFacts
<1>7. call' \in [Workers -> Call] /\ Alone(w)
  BY <1>5, <1>6 DEF TypeInv, Hands, Call, Alone
<1>8. call'[w] = [call[w] EXCEPT !.list = list]
  BY <1>5 DEF TypeInv, Hands
<1>9. /\ call'[w].pc = "find" /\ call'[w].event = call[w].event /\ call'[w].ride = call[w].ride
      /\ call'[w].list = list
  BY <1>1, <1>6, <1>8 DEF Call
<1>10. Fit(call[w])'
  <2>1. PICK c : c = call[w]
    OBVIOUS
  <2>2. Fit(c) /\ Fit(c)'
    BY <2>1, <1>3, CallFits, FitStays DEF TypeInv
  <2> QED BY <2>1, <2>2, <1>1, <1>9 DEF Fit, Opening, Resting, Asking
<1>11. Onward(w) /\ HoldsNoNew(w)
  BY <1>1, <1>9 DEF Onward, HoldsNoNew, Opening, Asking, Searching, Consider
<1>12. Hand(w)
  BY <1>5, <1>7, <1>9, <1>10, <1>11 DEF Hand, NewList
<1> QED BY <1>1, <1>2, <1>11, <1>12, QuietStep, NoIncident DEF Shorter, Unlocks, tables

\* A step that may ask or list a driver.
LEMMA AskingStep ==
  ASSUME TypeInv, KeysOK', NEW w \in Workers, call[w].pc \notin Resting, [NextTables]_tables,
         Hand(w), lock' = lock \/ Unlocks(w), Counts, Stores(w) \/ Pops(w) \/ Creates(w),
         \A o \in Offers : offer'[o].ride # offer[o].ride => offer'[o].ride = Ride(w) /\ Late(w)
  PROVE  Shape(w)
<1>1. Rows' /\ Grows
  BY RowsStep DEF TypeInv
<1>2. TypeInv'
  BY <1>1, HandsStep DEF TypeInv
<1>3. Control(w)
  BY DEF Control, Hand, Unlocks, Counts
<1>4. Asks(w)
  BY DEF Asks, Hand
<1> QED BY <1>1, <1>2, <1>3, <1>4 DEF Shape

LEMMA StoreCandidatesShape ==
  ASSUME TypeInv, UNCHANGED maxOffers, NEW w \in Workers, StoreCandidates(w)
  PROVE  Shape(w)
<1>1. call[w].pc = "store" /\ call[w].pc \notin Resting /\ Ride(w) \in Rides /\ call[w].list \in Seq(Drivers)
      /\ call[w] \in Call
  BY CallFits DEF StoreCandidates, At, Resting
<1>2. rounds[Ride(w)] + 1 \in Nat
  BY <1>1 DEF TypeInv, KeysOK
<1>3. KeysOK'
  BY <1>1, <1>2 DEF StoreCandidates, TypeInv, KeysOK
<1>4. call'[w] = [call[w] EXCEPT !.pc = "next", !.list = <<>>, !.first = TRUE]
  BY DEF StoreCandidates, TypeInv, Hands
<1>5. call'[w] \in Call /\ call'[w].pc = "next" /\ call'[w].event = call[w].event /\ call'[w].ride = call[w].ride
      /\ call'[w].list = <<>>
  <2>1. <<>> \in Seq(Drivers) /\ "next" \in Steps
    BY DEF Steps
  <2> QED BY <1>1, <1>4, <2>1 DEF Call
<1>6. call' \in [Workers -> Call] /\ Alone(w)
  BY <1>5 DEF StoreCandidates, TypeInv, Hands, Alone
<1>7. Fit(call[w])'
  <2>1. PICK c : c = call[w]
    OBVIOUS
  <2>2. Fit(c) /\ Fit(c)'
    BY <2>1, CallFits, FitStays, RowsStep DEF TypeInv, StoreCandidates
  <2> QED BY <2>1, <2>2, <1>1, <1>5 DEF Fit, Opening, Resting, Asking
<1>8. Onward(w) /\ HoldsNoNew(w)
  BY <1>1, <1>5 DEF Onward, HoldsNoNew, Opening, Asking, StoreCandidates
<1>9. Hand(w)
  BY <1>5, <1>6, <1>7, <1>8 DEF Hand, NewList
<1>10. Stores(w)
  BY <1>1, <1>8 DEF Stores, StoreCandidates, SameAsked, tables, TypeInv, KeysOK
<1> QED BY <1>1, <1>3, <1>9, <1>10, AskingStep, NoIncident DEF StoreCandidates, tables

LEMMA PopCandidateShape ==
  ASSUME TypeInv, UNCHANGED maxOffers, NEW w \in Workers, PopCandidate(w)
  PROVE  Shape(w)
<1>1. call[w].pc = "pop" /\ call[w].pc \notin Resting /\ Ride(w) \in Rides /\ call[w] \in Call
  BY CallFits DEF PopCandidate, At, Resting
<1>2. Grows
  BY RowsStep DEF TypeInv, PopCandidate
<1>3. CASE candidates[Ride(w)] = <<>>
  <2>1. KeysOK' /\ UNCHANGED <<tables, candidates, lock, rounds, incidents>>
    BY <1>3 DEF PopCandidate, TypeInv, KeysOK
  <2>2. MayGo(w, "giveup") /\ Go(w, "giveup") /\ done' = done
    BY <1>1, <1>3 DEF PopCandidate, MayGo, Steps, Opening, Resting, Asking
  <2> QED BY <1>1, <2>1, <2>2, PlainStep, NoIncident
<1>4. CASE candidates[Ride(w)] # <<>>
  <2>1. PICK list \in Seq(Drivers) : list = candidates[Ride(w)]
    BY <1>1 DEF TypeInv, KeysOK
  <2>2. Head(list) \in Drivers /\ Tail(list) \in Seq(Drivers)
    BY <2>1, <1>4
  <2>3. /\ candidates' = [candidates EXCEPT ![Ride(w)] = Tail(list)]
        /\ call' = [call EXCEPT ![w].pc = "count", ![w].driver = Head(list)]
    BY <1>4, <2>1 DEF PopCandidate
  <2>4. KeysOK'
    BY <1>1, <2>2, <2>3 DEF PopCandidate, TypeInv, KeysOK
  <2>5. call'[w] = [call[w] EXCEPT !.pc = "count", !.driver = Head(list)]
    BY <2>3 DEF TypeInv, Hands
  <2>6. call'[w] \in Call /\ call'[w].pc = "count" /\ call'[w].event = call[w].event
        /\ call'[w].ride = call[w].ride /\ call'[w].list = call[w].list /\ call'[w].driver = Head(list)
    BY <1>1, <2>2, <2>5 DEF Call, Steps
  <2>7. call' \in [Workers -> Call] /\ Alone(w)
    BY <2>3, <2>5, <2>6 DEF TypeInv, Hands, Alone
  <2>8. Fit(call[w])'
    <3>1. PICK c : c = call[w]
      OBVIOUS
    <3>2. Fit(c) /\ Fit(c)'
      BY <3>1, <1>2, CallFits, FitStays DEF TypeInv
    <3> QED BY <3>1, <3>2, <1>1, <2>2, <2>6 DEF Fit, Opening, Resting, Asking
  <2>9. Onward(w)
    BY <1>1, <2>6 DEF Onward, Opening, PopCandidate
  <2>10. Hand(w)
    BY <2>6, <2>7, <2>8, <2>9 DEF Hand, NewList
  <2>11. Pops(w)
    BY <1>1, <1>4, <2>1, <2>3, <2>6 DEF Pops, PopCandidate, SameAsked, tables, Asking, TypeInv, KeysOK, Ride
  <2> QED BY <1>1, <2>4, <2>10, <2>11, AskingStep, NoIncident DEF PopCandidate, tables
<1> QED BY <1>3, <1>4


LEMMA CreatedCreates ==
  ASSUME TypeInv, NEW w \in Workers, call[w].pc = "create", NEW o \in NewOffer,
         OfferCreated(o, Ride(w), call[w].driver)
  PROVE  /\ [NextTables]_tables /\ o \in Offers
         /\ offer'[o].ride = Ride(w) /\ offer'[o].driver = call[w].driver
         /\ \A p \in Offers : p # o => offer'[p] = offer[p]
         /\ Late(w)
<1>1. o \in Offers
  BY DEF NewOffer
<1>2. Ride(w) \in Rides /\ call[w].driver \in Drivers
  BY CallFits DEF Fit, Asking, Resting
<1>3. NextTables
  BY <1>1, <1>2 DEF NextTables
<1>4. offer' = [offer EXCEPT ![o] = [status |-> "PENDING", ride |-> Ride(w), driver |-> call[w].driver]]
  BY DEF OfferCreated
<1>5. offer \in [Offers -> OfferRow]
  BY DEF TypeInv, Rows, TablesTypeOK
<1>6. offer'[o] = [status |-> "PENDING", ride |-> Ride(w), driver |-> call[w].driver]
  BY <1>1, <1>4, <1>5
<1>7. \A p \in Offers : p # o => offer'[p] = offer[p]
  BY <1>4, <1>5
<1>8. Late(w)
  BY DEF Late, Opening, Resting
<1> QED BY <1>1, <1>3, <1>6, <1>7, <1>8

LEMMA CreateOfferShape ==
  ASSUME TypeInv, UNCHANGED maxOffers, NEW w \in Workers, CreateOffer(w)
  PROVE  Shape(w)
<1>1. call[w].pc = "create" /\ call[w].pc \notin Resting /\ call[w] \in Call
  BY CallFits DEF CreateOffer, At, Resting
<1>2. PICK o \in NewOffer :
        OfferCreated(o, Ride(w), call[w].driver) /\ call' = [call EXCEPT ![w].pc = "sent", ![w].offer = o]
  BY DEF CreateOffer
<1>3. /\ [NextTables]_tables /\ o \in Offers
      /\ offer'[o].ride = Ride(w) /\ offer'[o].driver = call[w].driver
      /\ \A p \in Offers : p # o => offer'[p] = offer[p]
      /\ Late(w)
  BY <1>1, <1>2, CreatedCreates
<1>4. KeysOK' /\ UNCHANGED <<candidates, lock, rounds, incidents, done>>
  BY DEF CreateOffer, TypeInv, KeysOK, redis
<1>5. call'[w] = [call[w] EXCEPT !.pc = "sent", !.offer = o]
  BY <1>2 DEF TypeInv, Hands
<1>6. /\ call'[w] \in Call /\ call'[w].pc = "sent" /\ call'[w].event = call[w].event
      /\ call'[w].ride = call[w].ride /\ call'[w].list = call[w].list
      /\ call'[w].driver = call[w].driver /\ call'[w].offer = o
  <2>1. "sent" \in Steps
    BY DEF Steps
  <2> QED BY <1>1, <1>3, <1>5, <2>1 DEF Call
<1>7. call' \in [Workers -> Call] /\ Alone(w)
  BY <1>2, <1>5, <1>6 DEF TypeInv, Hands, Alone
<1>8. Fit(call[w])'
  <2>1. PICK c : c = call[w]
    OBVIOUS
  <2>2. Fit(c) /\ Fit(c)'
    BY <2>1, <1>3, CallFits, FitStays, RowsStep DEF TypeInv
  <2>3. c.driver \in Drivers
    BY <2>1, <2>2, <1>1 DEF Fit, Asking
  <2> QED BY <2>1, <2>2, <2>3, <1>1, <1>3, <1>6 DEF Fit, Opening, Resting, Asking
<1>9. Onward(w) /\ call'[w].pc \notin Asking /\ call[w].pc \in Asking
  BY <1>1, <1>4, <1>6 DEF Onward, Opening, Asking
<1>10. Hand(w)
  BY <1>6, <1>7, <1>8, <1>9 DEF Hand, NewList
<1>11. Creates(w)
  BY <1>3, <1>4, <1>9 DEF Creates
<1> QED BY <1>1, <1>3, <1>4, <1>10, <1>11, AskingStep, NoIncident

LEMMA CreateOfferFailsShape ==
  ASSUME TypeInv, UNCHANGED maxOffers, NEW w \in Workers, CreateOfferFails(w)
  PROVE  Shape(w)
<1>1. call[w].pc = "create" /\ call[w].pc \notin Resting
  BY DEF CreateOfferFails, At, Resting
<1>2. Counts /\ incidents' \in [Incidents -> Nat]
  BY IncidentCounts DEF CreateOfferFails, TypeInv
<1>3. KeysOK' /\ UNCHANGED <<candidates, lock, rounds>>
  BY <1>2 DEF CreateOfferFails, TypeInv, KeysOK, redis
<1>4. CASE UNCHANGED tables
  <2>1. Hand(w) /\ HoldsNoNew(w)
    BY <1>1, <1>4, ContinueHand, RowsStep DEF CreateOfferFails, TypeInv
  <2> QED BY <1>1, <1>2, <1>3, <1>4, <2>1, QuietStep DEF Shorter, Unlocks, tables
<1>5. CASE \E o \in NewOffer : OfferCreated(o, Ride(w), call[w].driver)
  <2>1. PICK o \in NewOffer : OfferCreated(o, Ride(w), call[w].driver)
    BY <1>5
  <2>2. /\ [NextTables]_tables /\ o \in Offers
        /\ offer'[o].ride = Ride(w) /\ offer'[o].driver = call[w].driver
        /\ \A p \in Offers : p # o => offer'[p] = offer[p]
        /\ Late(w)
    BY <1>1, <2>1, CreatedCreates
  <2>3. Hand(w) /\ call'[w].pc \in {"pop", "idle"}
    BY <1>1, <2>2, ContinueHand, RowsStep DEF CreateOfferFails, TypeInv
  <2>4. Creates(w)
    BY <1>1, <1>3, <2>2, <2>3 DEF Creates, Asking
  <2> QED BY <1>1, <1>2, <1>3, <2>2, <2>3, <2>4, AskingStep
<1> QED BY <1>4, <1>5 DEF CreateOfferFails

LEMMA CancelRideFailsShape ==
  ASSUME TypeInv, UNCHANGED maxOffers, NEW w \in Workers, CancelRideFails(w)
  PROVE  Shape(w)
<1>1. call[w].pc = "cancel" /\ call[w].pc \notin Resting /\ Ride(w) \in Rides
  BY CallFits DEF CancelRideFails, At, Resting
<1>2. Counts /\ ~Clean' /\ incidents' \in [Incidents -> Nat]
  BY IncidentCounts DEF CancelRideFails, TypeInv
<1>3. [NextTables]_tables /\ offer' = offer /\ gaveUp' \in SUBSET Rides
  BY <1>1, CancelledStep DEF CancelRideFails
<1>4. lock' = lock \/ lock' = lock \ {Ride(w)}
  BY DEF CancelRideFails, ReleaseOnError, Release
<1>5. KeysOK' /\ UNCHANGED <<candidates, rounds>>
  BY <1>2, <1>3, <1>4 DEF CancelRideFails, TypeInv, KeysOK
<1>6. Unlocks(w)
  BY <1>2, <1>4 DEF Unlocks
<1>7. Hand(w) /\ HoldsNoNew(w)
  BY <1>2, EndHand DEF CancelRideFails
<1> QED BY <1>1, <1>2, <1>3, <1>5, <1>6, <1>7, QuietStep DEF Shorter

LEMMA RedisFailsShape ==
  ASSUME TypeInv, UNCHANGED maxOffers, NEW w \in Workers, RedisFails(w)
  PROVE  Shape(w)
<1>1. call[w].pc \notin Resting /\ Ride(w) \in Rides /\ call[w].list \in Seq(Drivers)
  BY CallFits DEF RedisFails, Resting
<1>2. Counts /\ ~Clean' /\ incidents' \in [Incidents -> Nat]
  BY IncidentCounts DEF RedisFails, TypeInv
<1>3. lock' \subseteq Rides /\ Unlocks(w)
  BY <1>1, <1>2 DEF RedisFails, ReleaseOnError, Release, Unlocks, TypeInv, KeysOK
<1>4. PICK list \in Seq(Drivers) : list = candidates[Ride(w)]
  BY <1>1 DEF TypeInv, KeysOK
<1>5. \/ candidates' = candidates
      \/ At(w, "store") /\ candidates' = [candidates EXCEPT ![Ride(w)] = call[w].list]
      \/ list # <<>> /\ candidates' = [candidates EXCEPT ![Ride(w)] = Tail(list)]
  BY <1>4 DEF RedisFails
<1>6. candidates' \in [Rides -> Seq(Drivers)]
  <2>1. list # <<>> => Tail(list) \in Seq(Drivers)
    OBVIOUS
  <2> QED BY <1>1, <1>5, <2>1 DEF TypeInv, KeysOK
<1>7. rounds[Ride(w)] \in Nat /\ rounds \in [Rides -> Nat]
  BY <1>1 DEF TypeInv, KeysOK
<1>8. rounds' = [rounds EXCEPT ![Ride(w)] = IF At(w, "store") THEN @ + 1 ELSE @]
  BY DEF RedisFails
<1>9. KeysOK' /\ UNCHANGED tables
  <2>a. PICK n \in Nat : n = IF At(w, "store") THEN rounds[Ride(w)] + 1 ELSE rounds[Ride(w)]
    BY <1>7
  <2>b. rounds' = [rounds EXCEPT ![Ride(w)] = n]
    BY <1>8, <2>a
  <2>1. rounds' \in [Rides -> Nat]
    BY <1>7, <2>b
  <2> QED BY <1>2, <1>3, <1>6, <2>1 DEF RedisFails, TypeInv, KeysOK
<1>10. Hand(w) /\ HoldsNoNew(w)
  BY <1>2, EndHand DEF RedisFails
<1>11. CASE At(w, "store")
  <2>1. rounds'[Ride(w)] = rounds[Ride(w)] + 1 /\ \A r \in Rides : r # Ride(w) => rounds'[r] = rounds[r]
    BY <1>1, <1>7, <1>8, <1>11
  <2>2. candidates' = candidates \/ candidates' = [candidates EXCEPT ![Ride(w)] = call[w].list]
    BY <1>11 DEF RedisFails, At
  <2>3. Stores(w)
    BY <1>1, <1>9, <1>10, <2>1, <2>2 DEF Stores, SameAsked, tables, TypeInv, KeysOK
  <2> QED BY <1>1, <1>2, <1>3, <1>9, <1>10, <2>3, AskingStep DEF tables
<1>12. CASE ~At(w, "store")
  <2>1. rounds' = rounds
    BY <1>7, <1>8, <1>12
  <2>2. \A r \in Rides : Shorter(r)
    BY <1>1, <1>4, <1>5, <1>12 DEF Shorter, TypeInv, KeysOK
  <2> QED BY <1>1, <1>2, <1>3, <1>9, <1>10, <2>1, <2>2, QuietStep DEF tables
<1> QED BY <1>11, <1>12

LEMMA RedisFailsSilentlyShape ==
  ASSUME TypeInv, UNCHANGED maxOffers, NEW w \in Workers, RedisFailsSilently(w)
  PROVE  Shape(w)
<1>1. Counts /\ incidents' \in [Incidents -> Nat]
  BY IncidentCounts DEF RedisFailsSilently, TypeInv
<1>2. call[w].pc \notin Resting
  BY DEF RedisFailsSilently, At, Resting
<1>3. driverOffer' \in [Drivers -> Offers \cup {None, ForeignOffer}]
  <2>1. At(w, "sent") => call[w].offer \in Offers
    BY CallFits DEF Fit, At
  <2> QED BY <2>1 DEF RedisFailsSilently, TypeInv, KeysOK, At
<1>4. KeysOK' /\ UNCHANGED <<tables, candidates, lock, rounds>>
  BY <1>1, <1>3 DEF RedisFailsSilently, TypeInv, KeysOK
<1>5. Ack(w) \/ \E pc : MayGo(w, pc) /\ Go(w, pc) /\ done' = done
  <2>1. /\ At(w, "cool") => MayGo(w, "match")
        /\ At(w, "release") => MayGo(w, "cancel")
        /\ At(w, "clear") => MayGo(w, "next")
        /\ At(w, "giveup") => MayGo(w, "forget")
        /\ At(w, "forget") => MayGo(w, "cancel")
        /\ At(w, "sent") => MayGo(w, "activate")
        /\ At(w, "activate") => MayGo(w, "increment")
        /\ At(w, "accepted") => MayGo(w, "unlock")
    BY DEF At, MayGo, Steps, Opening, Resting, Asking
  <2> QED BY <2>1 DEF RedisFailsSilently
<1> QED BY <1>1, <1>2, <1>4, <1>5, PlainStep

LEMMA CrashShape ==
  ASSUME TypeInv, UNCHANGED maxOffers, NEW w \in Workers, Crash(w)
  PROVE  Shape(w)
<1>1. call[w].pc \notin Resting
  BY DEF Crash, Resting
<1>2. Counts /\ ~Clean' /\ incidents' \in [Incidents -> Nat]
  BY IncidentCounts DEF Crash, TypeInv
<1>3. KeysOK' /\ UNCHANGED <<tables, candidates, lock, rounds>>
  BY <1>2 DEF Crash, TypeInv, KeysOK, redis
<1>4. Hand(w) /\ HoldsNoNew(w)
  BY <1>2, EndHand DEF Crash
<1> QED BY <1>1, <1>2, <1>3, <1>4, QuietStep DEF Shorter, Unlocks, tables

LEMMA FetchFailsShape ==
  ASSUME TypeInv, UNCHANGED maxOffers, NEW w \in Workers, FetchFails(w)
  PROVE  Shape(w)
<1>1. Counts /\ incidents' \in [Incidents -> Nat]
  BY IncidentCounts DEF FetchFails, TypeInv
<1>2. KeysOK' /\ UNCHANGED <<tables, candidates, lock, rounds, done>>
  BY <1>1 DEF FetchFails, TypeInv, KeysOK, redis
<1>3. call[w].pc = "idle" /\ call' = [call EXCEPT ![w].pc = "stopped"] /\ call[w] \in Call
  BY CallFits DEF FetchFails, At, Go
<1>4. /\ call'[w] \in Call /\ call'[w].pc = "stopped" /\ call'[w].event = call[w].event
      /\ call'[w].ride = call[w].ride /\ call'[w].list = call[w].list
  <2>1. call'[w] = [call[w] EXCEPT !.pc = "stopped"] /\ "stopped" \in Steps
    BY <1>3 DEF TypeInv, Hands, Steps
  <2> QED BY <1>3, <2>1 DEF Call
<1>5. call' \in [Workers -> Call] /\ Alone(w)
  BY <1>3, <1>4 DEF TypeInv, Hands, Alone
<1>6. call[w].event = 0 /\ Fit(call[w])'
  BY <1>3, <1>4, CallFits DEF Fit, Resting, Opening, Asking
<1>7. Rows' /\ Grows
  BY <1>2, RowsStep DEF TypeInv
<1>8. ASSUME NEW v \in Workers PROVE Fit(call[v])'
  <2>1. CASE v = w
    BY <2>1, <1>6
  <2>2. CASE v # w
    <3>1. PICK c : c = call[v]
      OBVIOUS
    <3>2. Fit(c)' /\ call'[v] = c
      BY <3>1, <2>2, <1>5, <1>7, CallFits, FitStays DEF TypeInv, Alone
    <3> QED BY <3>2
  <2> QED BY <2>1, <2>2
<1>9. Hands'
  BY <1>2, <1>5, <1>7, <1>8 DEF Hands, Grows, TypeInv, tables
<1>10. Onward(w) /\ HoldsNoNew(w)
  BY <1>2, <1>4 DEF Onward, HoldsNoNew, Opening, Asking
<1>11. Control(w)
  BY <1>1, <1>2, <1>5, <1>10 DEF Control, Counts, tables
<1>12. Asks(w)
  BY <1>2, <1>4, <1>5, <1>10 DEF Asks, NewList, Quiet, SameAsked, Shorter, tables
<1> QED BY <1>2, <1>7, <1>9, <1>11, <1>12 DEF Shape, TypeInv

LEMMA StepShape ==
  ASSUME TypeInv, UNCHANGED maxOffers, NEW w \in Workers, Step(w) \/ Fails(w)
  PROVE  Shape(w)
BY GetActiveShape, HasCandidatesShape, AcquireRideLockShape, ConsiderShape, FindCandidatesShape,
   ReleaseRideLockShape, StoreCandidatesShape, ClearAcceptedShape, UnlockAcceptedShape,
   SetCooldownShape, MatchActiveShape, ClearActiveShape, NextOfferShape, PopCandidateShape,
   CheckCountShape, HasOfferShape, CreateOfferShape, NotifyOfferSentShape, SetActiveShape,
   IncrementCountShape, GiveUpShape, ClearRideShape, CancelRideShape, CreateOfferFailsShape,
   CancelRideFailsShape, RedisFailsShape, RedisFailsSilentlyShape, FetchFailsShape, CrashShape
DEF Step, Fails


(* --------------- the steps of the world and deliveries ----------------- *)

World ==
  /\ TypeInv' /\ Grows /\ UNCHANGED <<call, done, rounds>>
  /\ lock' = lock \/ ~Clean'
  /\ SameAsked /\ Counts /\ \A r \in Rides : Shorter(r)

LEMMA SettledAsked ==
  ASSUME TypeInv, NEW o \in Offers, NEW s, OfferSettled(o, s)
  PROVE  SameAsked
<1>1. offer' = [offer EXCEPT ![o].status = s] /\ offer \in [Offers -> OfferRow]
  BY DEF OfferSettled, TypeInv, Rows, TablesTypeOK
<1>2. \A p \in Offers : p # o => offer'[p] = offer[p]
  BY <1>1
<1>3. offer'[o] = [offer[o] EXCEPT !.status = s] /\ offer[o] \in OfferRow
  BY <1>1
<1>4. offer'[o].ride = offer[o].ride /\ offer'[o].driver = offer[o].driver
  BY <1>3 DEF OfferRow
<1> QED BY <1>2, <1>4 DEF SameAsked

LEMMA HandsKept ==
  ASSUME TypeInv, Grows, UNCHANGED <<call, done>>
  PROVE  Hands'
<1>1. done' \in SUBSET (1..Len(outbox'))
  BY DEF TypeInv, Hands, Grows
<1>2. ASSUME NEW v \in Workers PROVE Fit(call[v])'
  <2>1. PICK c : c = call[v]
    OBVIOUS
  <2>2. Fit(c)' /\ call'[v] = c
    BY <2>1, CallFits, FitStays DEF TypeInv
  <2> QED BY <2>2
<1> QED BY <1>1, <1>2 DEF Hands, TypeInv

LEMMA WorldStep ==
  ASSUME TypeInv, UNCHANGED <<maxOffers, call, done, rounds>>, [NextTables]_tables, KeysOK', SameAsked,
         lock' = lock \/ ~Clean', Counts, \A r \in Rides : Shorter(r)
  PROVE  World
<1>1. Rows' /\ Grows
  BY RowsStep DEF TypeInv
<1> QED BY <1>1, HandsKept DEF World, TypeInv

LEMMA WorldShape ==
  ASSUME TypeInv, UNCHANGED maxOffers,
         \/ \E r \in Rides : RequestRide(r) \/ RiderCancels(r) \/ RideKeyExpires(r)
         \/ \E o \in Offers, s \in Outcomes : OfferEnds(o, s)
         \/ \E d \in Drivers : UpdateDriverStatus(d) \/ OtherRideAsks(d) \/ DriverKeyExpires(d)
  PROVE  World
<1>1. ASSUME NEW r \in Rides, RequestRide(r) \/ RiderCancels(r) PROVE World
  <2>1. [NextTables]_tables /\ SameAsked
    BY <1>1 DEF RequestRide, RiderCancels, NextTables, RideCreated, RideMoved, SameAsked
  <2>2. KeysOK' /\ UNCHANGED <<call, done, rounds, lock, candidates, incidents>>
    BY <1>1 DEF RequestRide, RiderCancels, redis, KeysOK, TypeInv
  <2> QED BY <2>1, <2>2, NoIncident, WorldStep DEF Shorter
<1>2. ASSUME NEW r \in Rides, RideKeyExpires(r) PROVE World
  <2>1. Counts /\ ~Clean' /\ incidents' \in [Incidents -> Nat]
    BY <1>2, IncidentCounts DEF RideKeyExpires, TypeInv
  <2>a. <<>> \in Seq(Drivers)
    OBVIOUS
  <2>d. candidates \in [Rides -> Seq(Drivers)] /\ active \in [Rides -> Offers \cup {None}]
    BY DEF KeysOK, TypeInv
  <2>e. candidates' = candidates \/ candidates' = [candidates EXCEPT ![r] = <<>>]
    BY <1>2 DEF RideKeyExpires
  <2>f. active' = active \/ active' = [active EXCEPT ![r] = None]
    BY <1>2 DEF RideKeyExpires
  <2>b. candidates' \in [Rides -> Seq(Drivers)] /\ active' \in [Rides -> Offers \cup {None}]
    BY <2>a, <2>d, <2>e, <2>f
  <2>g. count' = count \/ count' = [count EXCEPT ![r] = 0]
    BY <1>2 DEF RideKeyExpires
  <2>j. count \in [Rides -> Nat]
    BY DEF KeysOK, TypeInv
  <2>h. count' \in [Rides -> Nat]
    BY <2>g, <2>j
  <2>i. lock' \in SUBSET Rides
    BY <1>2 DEF RideKeyExpires, KeysOK, TypeInv, Release
  <2>c. count' \in [Rides -> Nat] /\ lock' \in SUBSET Rides
    BY <2>h, <2>i
  <2>2. KeysOK' /\ UNCHANGED <<tables, call, done, rounds>>
    BY <1>2, <2>1, <2>b, <2>c DEF RideKeyExpires, KeysOK, TypeInv
  <2>3. \A q \in Rides : Shorter(q)
    BY <1>2 DEF RideKeyExpires, KeysOK, TypeInv, Shorter
  <2> QED BY <2>1, <2>2, <2>3, WorldStep DEF tables, SameAsked
<1>3. ASSUME NEW o \in Offers, NEW s \in Outcomes, OfferEnds(o, s) PROVE World
  <2>1. Counts /\ incidents' \in [Incidents -> Nat]
    BY <1>3, IncidentCounts, NoIncident DEF OfferEnds, TypeInv, KeysOK
  <2>2. KeysOK' /\ UNCHANGED <<call, done, rounds, lock, candidates>>
    BY <1>3, <2>1 DEF OfferEnds, redis, KeysOK, TypeInv
  <2>3. [NextTables]_tables /\ SameAsked
    BY <1>3, SettledAsked DEF OfferEnds, NextTables
  <2> QED BY <2>1, <2>2, <2>3, WorldStep DEF Shorter
<1>4. ASSUME NEW d \in Drivers, UpdateDriverStatus(d) \/ DriverKeyExpires(d) PROVE World
  <2>1. Counts /\ incidents' \in [Incidents -> Nat]
    BY <1>4, IncidentCounts DEF UpdateDriverStatus, DriverKeyExpires, TypeInv
  <2>2. available' \in SUBSET Drivers /\ cooldown' \in SUBSET Drivers
        /\ driverOffer' \in [Drivers -> Offers \cup {None, ForeignOffer}]
    BY <1>4 DEF UpdateDriverStatus, DriverKeyExpires, KeysOK, TypeInv
  <2>3. KeysOK' /\ UNCHANGED <<tables, call, done, rounds, lock, candidates>>
    BY <1>4, <2>1, <2>2 DEF UpdateDriverStatus, DriverKeyExpires, KeysOK, TypeInv
  <2> QED BY <2>1, <2>3, WorldStep DEF Shorter, tables, SameAsked
<1>5. ASSUME NEW d \in Drivers, OtherRideAsks(d) PROVE World
  <2>1. available' \in SUBSET Drivers /\ driverOffer' \in [Drivers -> Offers \cup {None, ForeignOffer}]
    BY <1>5 DEF OtherRideAsks, KeysOK, TypeInv
  <2>2. KeysOK' /\ UNCHANGED <<tables, call, done, rounds, lock, candidates, incidents>>
    BY <1>5, <2>1 DEF OtherRideAsks, KeysOK, TypeInv
  <2> QED BY <2>2, NoIncident, WorldStep DEF Shorter, tables, SameAsked
<1> QED BY <1>1, <1>2, <1>3, <1>4, <1>5

LEMMA StutterShape ==
  ASSUME TypeInv, UNCHANGED vars
  PROVE  World
BY WorldStep, NoIncident DEF vars, redis, tables, TypeInv, KeysOK, SameAsked, Shorter

Takes(w, i) ==
  /\ TypeInv' /\ UNCHANGED <<done, lock, offer, outbox, candidates, rounds>>
  /\ Alone(w) /\ call[w].event = 0
  /\ call'[w].event = i /\ call'[w].list = <<>> /\ call'[w].pc \notin Asking \cup {"find", "store"}
  /\ call'[w].pc \in Opening <=> outbox[i].topic = Requested
  /\ Again \in Nat /\ Again' \in {Again, Again + 1} /\ (Clean' => Clean)
  /\ i \in done \/ InHand(i) => Again' = Again + 1

LEMMA DeliverShape ==
  ASSUME TypeInv, UNCHANGED maxOffers, NEW w \in Workers, NEW i \in 1..Len(outbox), Deliver(w, i)
  PROVE  Takes(w, i)
<1> DEFINE e == outbox[i]
           pc == CASE e.topic = Requested -> "active"
                   [] e.topic = TopicOf("ACCEPTED") -> "accepted"
                   [] OTHER -> "cool"
           o == IF e.id \in Offers THEN e.id ELSE None
           c == [Idle EXCEPT !.pc = pc, !.event = i, !.ride = RideOf(e), !.offer = o]
<1>1. call' = [call EXCEPT ![w] = c] /\ call[w].pc = "idle" /\ e.topic \in Handled
  BY DEF Deliver, At
<1>2. Requested # TopicOf("ACCEPTED")
  <2>1. "ACCEPTED" \in OfferStatus
    BY DEF OfferStatus
  <2> QED BY <2>1, Topics1
<1>3. /\ e.topic = Requested => pc = "active"
      /\ e.topic # Requested => pc \in {"accepted", "cool"}
  BY <1>2
<1>4. i \in Nat /\ i # 0
  BY DEF TypeInv, Rows, TablesTypeOK
<1>5. RideOf(e) = About(i) /\ RideOf(e) \in Rides
  <2>1. CASE e.topic \in OfferTopics
    BY <2>1 DEF TypeInv, Rows, RowsRefer, RideOf, About
  <2>2. CASE e.topic \notin OfferTopics
    BY <2>2 DEF TypeInv, Rows, RowsRefer, RideOf, About
  <2> QED BY <2>1, <2>2
<1>6. e.topic # Requested => o = e.id /\ o \in Offers
  <2>1. e.topic # Requested => e.topic \in OfferTopics
    BY <1>1, Topics1
  <2> QED BY <2>1 DEF TypeInv, Rows, RowsRefer
<1>7. c \in Call
  <2>1. pc \in Steps
    BY <1>3 DEF Steps
  <2>2. o \in Offers \cup {None} /\ <<>> \in Seq(Drivers)
    OBVIOUS
  <2> HIDE DEF pc, o, e
  <2> QED BY <2>1, <2>2, <1>4, <1>5, IdleFits DEF Call
<1>f. c.pc = pc /\ c.event = i /\ c.ride = RideOf(e) /\ c.offer = o /\ c.list = <<>>
  <2> HIDE DEF pc, o, e
  <2> QED BY IdleFits DEF Idle
<1> HIDE DEF pc, o
<1>8. call' \in [Workers -> Call] /\ Alone(w) /\ call'[w] = c
  BY <1>1, <1>7 DEF TypeInv, Hands, Alone
<1>9. UNCHANGED <<tables, redis, done, gaveUp, rounds>>
  BY DEF Deliver
<1>10. incidents' \in [Incidents -> Nat] /\ Again \in Nat /\ Again' \in {Again, Again + 1}
       /\ (Clean' => Clean) /\ (i \in done \/ InHand(i) => Again' = Again + 1)
  <2>1. incidents \in [Incidents -> Nat]
    BY DEF TypeInv, KeysOK
  <2>2. CASE Incident("again")
    <3>1. "again" \in Incidents /\ incidents' = [incidents EXCEPT !["again"] = @ + 1]
      BY <2>2 DEF Incident
    <3>2. Again' = Again + 1 /\ Again \in Nat /\ incidents' \in [Incidents -> Nat]
      BY <2>1, <3>1 DEF Again
    <3>3. ASSUME Clean', NEW k \in Incidents \cap {"redis", "rpc", "crash", "ride key"} PROVE incidents[k] = 0
      <4>1. incidents'[k] = 0 /\ k # "again"
        BY <3>3 DEF Clean
      <4> QED BY <4>1, <3>1, <2>1
    <3>4. Clean' => Clean
      BY <3>3 DEF Clean
    <3> QED BY <3>2, <3>4
  <2>3. CASE UNCHANGED incidents /\ ~(i \in done \/ InHand(i))
    BY <2>1, <2>3 DEF Again, Clean
  <2> QED BY <2>2, <2>3 DEF Deliver
<1>11. Fit(call[w])'
  <2>1. c.pc = pc /\ c.event = i /\ c.ride = RideOf(e) /\ c.offer = o
    BY <1>f
  <2>2. pc \notin Asking \cup {"sent", "activate", "release", "match"} \cup Resting /\ (pc \in Opening => e.topic = Requested)
        /\ (pc = "cool" => e.topic # Requested)
    BY <1>3 DEF Asking, Resting, Opening
  <2>3. Fit(c)
    BY <2>1, <2>2, <1>1, <1>5, <1>6 DEF Fit
  <2>4. PICK x : x = c
    OBVIOUS
  <2>5. Rows /\ Grows
    BY <1>9, RowsStep DEF TypeInv
  <2>6. Fit(x) /\ call'[w] = x
    BY <1>8, <2>3, <2>4
  <2>7. Fit(x)'
    BY <2>5, <2>6, FitStays
  <2> QED BY <2>6, <2>7
<1>12. Rows' /\ Grows
  BY <1>9, RowsStep DEF TypeInv
<1>13. ASSUME NEW v \in Workers PROVE Fit(call[v])'
  <2>1. CASE v = w
    BY <2>1, <1>11
  <2>2. CASE v # w
    <3>1. PICK x : x = call[v]
      OBVIOUS
    <3>2. Fit(x)' /\ call'[v] = x
      BY <3>1, <2>2, <1>8, <1>12, CallFits, FitStays DEF TypeInv, Alone
    <3> QED BY <3>2
  <2> QED BY <2>1, <2>2
<1>14. Hands'
  BY <1>8, <1>9, <1>13 DEF Hands, tables, TypeInv
<1>15. KeysOK'
  BY <1>9, <1>10 DEF KeysOK, TypeInv, redis
<1>16. call[w].event = 0
  BY <1>1, CallFits DEF Fit, Resting
<1>17. call'[w].event = i /\ call'[w].list = <<>> /\ call'[w].pc = pc
  BY <1>8, <1>f
<1>18. pc \notin Asking \cup {"find", "store"} /\ (pc \in Opening <=> e.topic = Requested)
  BY <1>3 DEF Asking, Opening
<1> QED BY <1>8, <1>9, <1>10, <1>12, <1>14, <1>15, <1>16, <1>17, <1>18 DEF Takes, TypeInv, tables, redis

\* Every step is of one of these kinds.
LEMMA NextKinds ==
  ASSUME TypeInv, [Next]_vars
  PROVE  \/ World
         \/ \E w \in Workers : Shape(w) \/ \E i \in 1..Len(outbox) : Takes(w, i)
<1>1. CASE UNCHANGED vars
  BY <1>1, StutterShape
<1>2. CASE Next
  <2>1. UNCHANGED maxOffers
    BY <1>2 DEF Next
  <2>2. CASE \E w \in Workers : \/ \E i \in 1..Len(outbox) : Deliver(w, i)
                               \/ Step(w)
                               \/ Fails(w)
    BY <2>1, <2>2, StepShape, DeliverShape
  <2>3. CASE ~\E w \in Workers : \/ \E i \in 1..Len(outbox) : Deliver(w, i)
                                \/ Step(w)
                                \/ Fails(w)
    BY <1>2, <2>1, <2>3, WorldShape DEF Next
  <2> QED BY <2>2, <2>3
<1> QED BY <1>1, <1>2

LEMMA TypeInit == Init => TypeInv
<1> SUFFICES ASSUME Init PROVE TypeInv
  OBVIOUS
<1>1. KeysOK
  <2>1. <<>> \in Seq(Drivers) /\ 0 \in Nat
    OBVIOUS
  <2> QED BY <2>1 DEF Init, KeysOK
<1>2. TablesTypeOK
  BY DEF Init, InitTables, TablesTypeOK, NoRide, NoOffer, RideRow, OfferRow
<1>3. RowsRefer
  <2>1. (\A o \in Offers : offer[o].status = "ABSENT" /\ offer[o].ride \notin Rides) /\ Len(outbox) = 0
    BY IdsDiffer DEF Init, InitTables, NoOffer
  <2> QED BY <2>1 DEF RowsRefer
<1>4. \A w \in Workers : call[w] = Idle
  BY DEF Init
<1>5. Fit(Idle)
  BY DEF Idle, Fit, Resting, Opening, Asking
<1>6. Hands
  BY <1>4, <1>5, IdleFits DEF Init, Hands
<1> QED BY <1>1, <1>2, <1>3, <1>6 DEF TypeInv, Rows

LEMMA TypeStep == TypeInv /\ [Next]_vars => TypeInv'
BY NextKinds DEF World, Shape, Takes

\* The keys, the tables and the handlers keep their types, and handlers work on the
\* rides their events are about.
THEOREM MatchingTypes == Spec => []TypeOK
<1>1. TypeInv => TypeOK
  BY DEF TypeInv, TypeOK, KeysOK, Rows, Hands
<1> QED BY <1>1, TypeInit, TypeStep, PTL DEF Spec


(* --------------------------- asked once -------------------------------- *)

LEMMA ListFacts ==
  ASSUME NEW s \in Seq(Drivers), s # <<>>
  PROVE  /\ Distinct(s) => Distinct(Tail(s)) /\ ~Ext!Contains(Tail(s), Head(s))
         /\ Ext!Contains(s, Head(s))
         /\ \A d : Ext!Contains(Tail(s), d) => Ext!Contains(s, d)
<1>1. PICK n \in Nat : Len(s) = n + 1
  <2>1. Len(s) \in Nat /\ Len(s) # 0
    OBVIOUS
  <2> QED BY <2>1
<1>2. PICK t \in Seq(Drivers) : t = Tail(s)
  <2>1. Tail(s) \in Seq(Drivers)
    OBVIOUS
  <2> QED BY <2>1, Zenon
<1>3. Len(t) = n /\ \A i \in 1..n : t[i] = s[i + 1]
  BY <1>1, <1>2
<1>4. Head(s) = s[1] /\ 1 \in 1..Len(s)
  BY <1>1
<1>5. \A i \in 1..n : i + 1 \in 1..Len(s) /\ i + 1 # 1
  BY <1>1
<1>6. ASSUME Distinct(s), NEW i \in 1..n, NEW j \in 1..n, t[i] = t[j] PROVE i = j
  <2>1. s[i + 1] = s[j + 1]
    BY <1>3, <1>6
  <2>2. i + 1 = j + 1
    BY <2>1, <1>5, <1>6 DEF Distinct
  <2> QED BY <2>2
<1>7. Distinct(s) => Distinct(t)
  BY <1>3, <1>6 DEF Distinct
<1>8. Distinct(s) => ~Ext!Contains(t, Head(s))
  BY <1>3, <1>4, <1>5 DEF Distinct, Ext!Contains
<1>9. Ext!Contains(s, Head(s))
  BY <1>4 DEF Ext!Contains
<1>10. \A d : Ext!Contains(t, d) => Ext!Contains(s, d)
  BY <1>3, <1>5 DEF Ext!Contains
<1> QED BY <1>2, <1>7, <1>8, <1>9, <1>10

LEMMA EmptyList == Distinct(<<>>) /\ \A d : ~Ext!Contains(<<>>, d)
BY DEF Distinct, Ext!Contains

Budget(r, d) ==
  /\ IsFiniteSet(Asked(r, d))
  /\ Cardinality(Asked(r, d)) + Cardinality(Holding(r, d)) + Listed(r, d) <= rounds[r]

LEMMA BudgetStep ==
  ASSUME TypeInv, TypeInv', NEW r \in Rides, NEW d \in Drivers, Budget(r, d), NEW o, NEW w,
         \/ /\ Asked(r, d)' \subseteq Asked(r, d) /\ Holding(r, d)' \subseteq Holding(r, d)
            /\ Listed(r, d)' + rounds[r] <= Listed(r, d) + rounds'[r]
         \/ /\ Asked(r, d)' \subseteq Asked(r, d) /\ Holding(r, d)' \subseteq Holding(r, d) \cup {w}
            /\ Listed(r, d)' + 1 <= Listed(r, d) /\ rounds'[r] = rounds[r]
         \/ /\ Asked(r, d)' \subseteq Asked(r, d) \cup {o} /\ Holding(r, d)' \subseteq Holding(r, d) \ {w}
            /\ w \in Holding(r, d) /\ Listed(r, d)' <= Listed(r, d) /\ rounds'[r] = rounds[r]
  PROVE  Budget(r, d)'
<1>1. PICK l \in Nat, l2 \in Nat : l = Listed(r, d) /\ l2 = Listed(r, d)'
  BY DEF Listed
<1>2. PICK n \in Nat, n2 \in Nat : n = rounds[r] /\ n2 = rounds'[r]
  BY DEF TypeInv, KeysOK
<1>3. PICK A, H, A2, H2 : A = Asked(r, d) /\ H = Holding(r, d) /\ A2 = Asked(r, d)' /\ H2 = Holding(r, d)'
  OBVIOUS
<1>4. IsFiniteSet(H)
  <2>1. H \subseteq Workers
    BY <1>3 DEF Holding
  <2> QED BY <2>1, MatchingAssumption, FS_Subset
<1>5. IsFiniteSet(A) /\ Cardinality(A) + Cardinality(H) + l <= n
  BY <1>1, <1>2, <1>3 DEF Budget
<1>6. \/ A2 \subseteq A /\ H2 \subseteq H /\ l2 + n <= l + n2
      \/ A2 \subseteq A /\ H2 \subseteq H \cup {w} /\ l2 + 1 <= l /\ n2 = n
      \/ A2 \subseteq A \cup {o} /\ H2 \subseteq H \ {w} /\ w \in H /\ l2 <= l /\ n2 = n
  BY <1>1, <1>2, <1>3
<1>7. IsFiniteSet(A2) /\ Cardinality(A2) + Cardinality(H2) + l2 <= n2
  <2>1. /\ Cardinality(A) \in Nat /\ Cardinality(H) \in Nat
        /\ IsFiniteSet(A \cup {o}) /\ Cardinality(A \cup {o}) \in Nat /\ Cardinality(A \cup {o}) <= Cardinality(A) + 1
        /\ IsFiniteSet(H \cup {w}) /\ Cardinality(H \cup {w}) \in Nat /\ Cardinality(H \cup {w}) <= Cardinality(H) + 1
        /\ IsFiniteSet(H \ {w}) /\ Cardinality(H \ {w}) \in Nat
        /\ w \in H => Cardinality(H \ {w}) = Cardinality(H) - 1
    <3>1. IsFiniteSet(A \cup {o}) /\ Cardinality(A \cup {o}) = IF o \in A THEN Cardinality(A) ELSE Cardinality(A) + 1
      BY <1>4, <1>5, FS_AddElement
    <3>2. IsFiniteSet(H \cup {w}) /\ Cardinality(H \cup {w}) = IF w \in H THEN Cardinality(H) ELSE Cardinality(H) + 1
      BY <1>4, <1>5, FS_AddElement
    <3>3. IsFiniteSet(H \ {w}) /\ Cardinality(H \ {w}) = IF w \in H THEN Cardinality(H) - 1 ELSE Cardinality(H)
      BY <1>4, <1>5, FS_RemoveElement
    <3>4. Cardinality(A) \in Nat /\ Cardinality(H) \in Nat /\ Cardinality(H \ {w}) \in Nat
      BY <3>3, <1>4, <1>5, FS_CardinalityType
    <3> QED BY <3>1, <3>2, <3>3, <3>4
  <2>2. \A S, T : IsFiniteSet(S) /\ T \subseteq S =>
          IsFiniteSet(T) /\ Cardinality(T) \in Nat /\ Cardinality(T) <= Cardinality(S)
    BY FS_Subset, FS_CardinalityType
  <2>3. CASE A2 \subseteq A /\ H2 \subseteq H /\ l2 + n <= l + n2
    <3>1. /\ IsFiniteSet(A2) /\ Cardinality(A2) \in Nat /\ Cardinality(H2) \in Nat
          /\ Cardinality(A2) <= Cardinality(A) /\ Cardinality(H2) <= Cardinality(H)
      BY <2>2, <2>3, <1>4, <1>5
    <3> QED BY <2>1, <2>3, <3>1, <1>5
  <2>4. CASE A2 \subseteq A /\ H2 \subseteq H \cup {w} /\ l2 + 1 <= l /\ n2 = n
    <3>1. /\ IsFiniteSet(A2) /\ Cardinality(A2) \in Nat /\ Cardinality(H2) \in Nat
          /\ Cardinality(A2) <= Cardinality(A) /\ Cardinality(H2) <= Cardinality(H \cup {w})
      BY <2>1, <2>2, <2>4
    <3> QED BY <2>1, <2>4, <3>1, <1>5
  <2>5. CASE A2 \subseteq A \cup {o} /\ H2 \subseteq H \ {w} /\ w \in H /\ l2 <= l /\ n2 = n
    <3>1. /\ IsFiniteSet(A2) /\ Cardinality(A2) \in Nat /\ Cardinality(H2) \in Nat
          /\ Cardinality(A2) <= Cardinality(A \cup {o}) /\ Cardinality(H2) <= Cardinality(H \ {w})
      BY <2>1, <2>2, <2>5
    <3> QED BY <2>1, <2>5, <3>1, <1>5
  <2> QED BY <2>3, <2>4, <2>5, <1>6
<1> QED BY <1>1, <1>2, <1>3, <1>7 DEF Budget

LEMMA ShorterList ==
  ASSUME TypeInv, NEW r \in Rides, Shorter(r), Distinct(candidates[r])
  PROVE  /\ Distinct(candidates[r])'
         /\ \A d \in Drivers : Listed(r, d)' <= Listed(r, d) /\ Listed(r, d)' \in {0, 1} /\ Listed(r, d) \in {0, 1}
<1>1. PICK s \in Seq(Drivers) : s = candidates[r]
  BY DEF TypeInv, KeysOK
<1>2. PICK t : t = candidates'[r]
  OBVIOUS
<1>3. t = s \/ t = <<>> \/ (s # <<>> /\ t = Tail(s))
  BY <1>1, <1>2 DEF Shorter
<1>d. Distinct(s)
  BY <1>1
<1>4. Distinct(t) /\ \A d : Ext!Contains(t, d) => Ext!Contains(s, d)
  <2>1. CASE t = s
    BY <2>1, <1>d
  <2>2. CASE t = <<>>
    BY <2>2, EmptyList
  <2>3. CASE s # <<>> /\ t = Tail(s)
    BY <2>3, <1>d, ListFacts
  <2> QED BY <2>1, <2>2, <2>3, <1>3
<1>5. \A d : Ext!Contains(candidates[r], d)' => Ext!Contains(candidates[r], d)
  <2>1. \A d : Ext!Contains(candidates[r], d)' <=> Ext!Contains(t, d)
    BY <1>2 DEF Ext!Contains
  <2> QED BY <2>1, <1>1, <1>4
<1>6. Distinct(candidates[r])'
  BY <1>2, <1>4 DEF Distinct
<1> QED BY <1>5, <1>6 DEF Listed

LEMMA SameAskedSets == SameAsked => \A r, d : Asked(r, d)' = Asked(r, d)
BY DEF SameAsked, Asked, OffersOf

LEMMA HoldingShrinks ==
  ASSUME \A v \in Workers : HoldsNoNew(v)
  PROVE  \A r, d : Holding(r, d)' \subseteq Holding(r, d)
BY DEF HoldsNoNew, Holding, Ride

\* A step that neither lists, takes nor asks a driver.
LEMMA QuietAsk ==
  ASSUME TypeInv, TypeInv', AskInv, SameAsked, rounds' = rounds,
         \A r \in Rides : Shorter(r), \A v \in Workers : HoldsNoNew(v) /\ Distinct(call'[v].list)
  PROVE  AskInv'
<1>1. ASSUME NEW r \in Rides, NEW d \in Drivers PROVE Budget(r, d)'
  <2>1. Listed(r, d)' <= Listed(r, d) /\ Listed(r, d)' \in {0, 1} /\ Listed(r, d) \in {0, 1}
    BY ShorterList DEF AskInv
  <2>2. Asked(r, d)' = Asked(r, d) /\ Holding(r, d)' \subseteq Holding(r, d)
    BY SameAskedSets, HoldingShrinks
  <2>3. PICK n \in Nat : n = rounds[r] /\ n = rounds'[r]
    BY DEF TypeInv, KeysOK
  <2>4. Listed(r, d)' + rounds[r] <= Listed(r, d) + rounds'[r]
    BY <2>1, <2>3
  <2>5. Budget(r, d)
    BY DEF AskInv, Budget
  <2> QED BY <2>2, <2>4, <2>5, BudgetStep
<1>2. \A r \in Rides : Distinct(candidates[r])'
  BY ShorterList DEF AskInv
<1>3. \A v \in Workers : Distinct(call[v].list)'
  BY DEF Distinct
<1> QED BY <1>1, <1>2, <1>3 DEF AskInv, Budget

LEMMA AskInit == Init => AskInv
<1> SUFFICES ASSUME Init PROVE AskInv
  OBVIOUS
<1>1. ASSUME NEW r \in Rides, NEW d \in Drivers PROVE Budget(r, d)
  <2>1. Asked(r, d) = {}
    BY IdsDiffer DEF Init, InitTables, NoOffer, Asked, OffersOf
  <2>2. Holding(r, d) = {}
    BY DEF Init, Idle, Asking, Holding
  <2>3. Listed(r, d) = 0 /\ rounds[r] = 0
    BY EmptyList DEF Init, Listed
  <2> QED BY <2>1, <2>2, <2>3, FS_EmptySet DEF Budget
<1>2. \A r \in Rides : Distinct(candidates[r])
  BY EmptyList DEF Init
<1>3. \A v \in Workers : Distinct(call[v].list)
  BY EmptyList, IdleFits DEF Init
<1> QED BY <1>1, <1>2, <1>3 DEF AskInv, Budget

LEMMA NewListDistinct ==
  ASSUME TypeInv, AskInv, NEW w \in Workers, NewList(w)
  PROVE  Distinct(call'[w].list)
<1>1. call[w].list \in Seq(Drivers) /\ Distinct(call[w].list)
  BY CallFits DEF AskInv
<1> QED BY <1>1, RankedFacts, EmptyList DEF NewList


\* The other handlers hold whom they held.
LEMMA OthersHold ==
  ASSUME NEW w \in Workers, Alone(w)
  PROVE  \A v \in Workers : v # w => HoldsNoNew(v) /\ call'[v].list = call[v].list
BY DEF Alone, HoldsNoNew

LEMMA AskShape ==
  ASSUME TypeInv, AskInv, NEW w \in Workers, Shape(w)
  PROVE  AskInv'
<1>1. TypeInv' /\ Alone(w) /\ NewList(w)
  BY DEF Shape, Asks
<1>2. \A v \in Workers : Distinct(call'[v].list)
  BY <1>1, OthersHold, NewListDistinct DEF AskInv
<1>3. \A v \in Workers : Distinct(call[v].list)'
  BY <1>2 DEF Distinct
<1>4. \A r \in Rides, d \in Drivers : Budget(r, d)
  BY DEF AskInv, Budget
<1>r. rounds \in [Rides -> Nat]
  BY DEF TypeInv, KeysOK
<1>5. CASE Quiet(w)
  <2>1. \A v \in Workers : HoldsNoNew(v)
    BY <1>1, <1>5, OthersHold DEF Quiet
  <2> QED BY <1>1, <1>2, <1>5, <2>1, QuietAsk DEF Quiet
<1>6. CASE Stores(w)
  <2>1. \A v \in Workers : HoldsNoNew(v)
    BY <1>1, <1>6, OthersHold DEF Stores
  <2>2. \A r \in Rides : Distinct(candidates[r])'
    <3>1. \A r \in Rides : Distinct(candidates'[r])
      BY <1>6 DEF Stores, AskInv
    <3> QED BY <3>1 DEF Distinct
  <2>3. ASSUME NEW r \in Rides, NEW d \in Drivers PROVE Budget(r, d)'
    <3>1. Asked(r, d)' = Asked(r, d) /\ Holding(r, d)' \subseteq Holding(r, d)
      BY <1>6, <2>1, SameAskedSets, HoldingShrinks DEF Stores
    <3>2. Listed(r, d)' \in {0, 1} /\ Listed(r, d) \in {0, 1}
      BY DEF Listed
    <3>3. PICK n \in Nat : n = rounds[r]
      BY <1>r
    <3>4. CASE r = Ride(w)
      <4>1. Listed(r, d)' + rounds[r] <= Listed(r, d) + rounds'[r]
        BY <1>6, <3>2, <3>3, <3>4 DEF Stores
      <4> QED BY <1>1, <1>4, <3>1, <4>1, BudgetStep
    <3>5. CASE r # Ride(w)
      <4>1. rounds'[r] = rounds[r] /\ candidates'[r] = candidates[r]
        BY <1>6, <3>5 DEF Stores
      <4>2. Listed(r, d)' = Listed(r, d)
        BY <4>1 DEF Listed, Ext!Contains
      <4>3. Listed(r, d)' + rounds[r] <= Listed(r, d) + rounds'[r]
        BY <3>2, <3>3, <4>1, <4>2
      <4> QED BY <1>1, <1>4, <3>1, <4>3, BudgetStep
    <3> QED BY <3>4, <3>5
  <2> QED BY <1>3, <2>2, <2>3 DEF AskInv, Budget
<1>7. CASE Pops(w)
  <2>1. \A r \in Rides : Shorter(r)
    BY <1>7 DEF Pops, Shorter
  <2>2. \A r \in Rides : Distinct(candidates[r])'
    BY <2>1, ShorterList DEF AskInv
  <2>3. ASSUME NEW r \in Rides, NEW d \in Drivers PROVE Budget(r, d)'
    <3>1. Asked(r, d)' = Asked(r, d)
      BY <1>7, SameAskedSets DEF Pops
    <3>2. Listed(r, d)' <= Listed(r, d) /\ Listed(r, d)' \in {0, 1} /\ Listed(r, d) \in {0, 1}
      BY <2>1, ShorterList DEF AskInv
    <3>3. PICK n \in Nat : n = rounds[r] /\ n = rounds'[r]
      BY <1>r, <1>7 DEF Pops
    <3>4. CASE r = Ride(w) /\ d = Head(candidates[r])
      <4>1. Holding(r, d)' \subseteq Holding(r, d) \cup {w}
        BY <1>1 DEF Holding, Alone, Ride
      <4>2. PICK s \in Seq(Drivers) : s = candidates[r] /\ s # <<>>
        BY <1>7, <3>4 DEF Pops, TypeInv, KeysOK
      <4>3. Ext!Contains(candidates[r], d) /\ ~Ext!Contains(Tail(candidates[r]), d)
        BY <3>4, <4>2, ListFacts DEF AskInv
      <4>4. candidates'[r] = Tail(candidates[r])
        BY <1>7, <3>4 DEF Pops
      <4>5. ~Ext!Contains(candidates[r], d)'
        BY <4>3, <4>4 DEF Ext!Contains
      <4>6. Listed(r, d)' = 0 /\ Listed(r, d) = 1
        BY <4>3, <4>5 DEF Listed
      <4>7. Listed(r, d)' + 1 <= Listed(r, d) /\ rounds'[r] = rounds[r]
        BY <4>6, <3>3
      <4> QED BY <1>1, <1>4, <3>1, <4>1, <4>7, BudgetStep
    <3>5. CASE ~(r = Ride(w) /\ d = Head(candidates[r]))
      <4>1. Holding(r, d)' \subseteq Holding(r, d)
        BY <1>1, <1>7, <3>5 DEF Holding, Alone, Ride, Pops
      <4>2. Listed(r, d)' + rounds[r] <= Listed(r, d) + rounds'[r]
        BY <3>2, <3>3
      <4> QED BY <1>1, <1>4, <3>1, <4>1, <4>2, BudgetStep
    <3> QED BY <3>4, <3>5
  <2> QED BY <1>3, <2>2, <2>3 DEF AskInv, Budget
<1>8. CASE Creates(w)
  <2>1. candidates' = candidates /\ rounds' = rounds
    BY <1>8 DEF Creates
  <2>2. \A r \in Rides : Distinct(candidates[r])'
    BY <2>1 DEF Distinct, AskInv
  <2>3. PICK o \in Offers :
          /\ offer'[o].ride = Ride(w) /\ offer'[o].driver = call[w].driver
          /\ \A p \in Offers : p # o => offer'[p] = offer[p]
    BY <1>8 DEF Creates
  <2>4. call[w].pc \in Asking /\ call'[w].pc \notin Asking
    BY <1>8 DEF Creates
  <2>5. ASSUME NEW r \in Rides, NEW d \in Drivers PROVE Budget(r, d)'
    <3>1. PICK n \in Nat : n = rounds[r] /\ n = rounds'[r]
      BY <1>r, <2>1
    <3>2. Listed(r, d)' = Listed(r, d) /\ Listed(r, d) \in {0, 1}
      BY <2>1 DEF Listed, Ext!Contains
    <3>3. CASE r = Ride(w) /\ d = call[w].driver
      <4>1. Asked(r, d)' \subseteq Asked(r, d) \cup {o}
        BY <2>3 DEF Asked, OffersOf
      <4>2. Holding(r, d)' \subseteq Holding(r, d) \ {w} /\ w \in Holding(r, d)
        BY <1>1, <2>4, <3>3 DEF Holding, Alone, Ride
      <4>3. Listed(r, d)' <= Listed(r, d) /\ rounds'[r] = rounds[r]
        BY <3>1, <3>2
      <4> QED BY <1>1, <1>4, <4>1, <4>2, <4>3, BudgetStep
    <3>4. CASE ~(r = Ride(w) /\ d = call[w].driver)
      <4>1. Asked(r, d)' \subseteq Asked(r, d)
        BY <2>3, <3>4 DEF Asked, OffersOf
      <4>2. Holding(r, d)' \subseteq Holding(r, d)
        BY <1>1, <2>4 DEF Holding, Alone, Ride
      <4>3. Listed(r, d)' + rounds[r] <= Listed(r, d) + rounds'[r]
        BY <3>1, <3>2
      <4> QED BY <1>1, <1>4, <4>1, <4>2, <4>3, BudgetStep
    <3> QED BY <3>3, <3>4
  <2> QED BY <1>3, <2>2, <2>5 DEF AskInv, Budget
<1> QED BY <1>5, <1>6, <1>7, <1>8 DEF Shape, Asks

LEMMA AskStep == TypeInv /\ AskInv /\ [Next]_vars => AskInv'
<1> SUFFICES ASSUME TypeInv, AskInv, [Next]_vars PROVE AskInv'
  OBVIOUS
<1>1. ASSUME World PROVE AskInv'
  <2>1. \A v \in Workers : HoldsNoNew(v) /\ Distinct(call'[v].list)
    BY <1>1 DEF World, HoldsNoNew, AskInv
  <2> QED BY <1>1, <2>1, QuietAsk DEF World
<1>2. ASSUME NEW w \in Workers, NEW i \in 1..Len(outbox), Takes(w, i) PROVE AskInv'
  <2>1. \A v \in Workers : HoldsNoNew(v) /\ Distinct(call'[v].list)
    BY <1>2, EmptyList, OthersHold DEF Takes, HoldsNoNew, AskInv, Alone
  <2>2. TypeInv' /\ SameAsked /\ rounds' = rounds /\ \A r \in Rides : Shorter(r)
    BY <1>2 DEF Takes, SameAsked, Shorter
  <2> QED BY <2>1, <2>2, QuietAsk
<1> QED BY <1>1, <1>2, AskShape, NextKinds

\* A driver is asked about a ride at most once per search for candidates: who is asked
\* was taken from the list, and the list holds nobody twice.
THEOREM MatchingAsksOnce == Spec => []AskedOncePerRound
<1>1. TypeInv /\ AskInv => AskedOncePerRound
  <2> SUFFICES ASSUME TypeInv, AskInv, NEW r \in Rides, NEW d \in Drivers
               PROVE  Cardinality({o \in OffersOf(r) : offer[o].driver = d}) <= rounds[r]
    BY DEF AskedOncePerRound
  <2>1. PICK A : A = Asked(r, d)
    OBVIOUS
  <2>2. PICK H : H = Holding(r, d)
    OBVIOUS
  <2>3. IsFiniteSet(H)
    <3>1. H \subseteq Workers
      BY <2>2 DEF Holding
    <3> QED BY <3>1, MatchingAssumption, FS_Subset
  <2>4. Listed(r, d) \in {0, 1}
    BY DEF Listed
  <2>5. IsFiniteSet(A) /\ Cardinality(A) + Cardinality(H) + Listed(r, d) <= rounds[r]
    BY <2>1, <2>2 DEF AskInv
  <2>6. Cardinality(A) \in Nat /\ Cardinality(H) \in Nat /\ rounds[r] \in Nat
    BY <2>3, <2>5, FS_CardinalityType DEF TypeInv, KeysOK
  <2>7. Cardinality(A) <= rounds[r]
    BY <2>4, <2>5, <2>6
  <2> QED BY <2>1, <2>7 DEF Asked
<1> QED BY <1>1, TypeInit, TypeStep, AskInit, AskStep, PTL DEF Spec


(* --------------------------- searched by one --------------------------- *)

LEMMA EventFacts ==
  ASSUME TypeInv, NEW w \in Workers, call[w].pc \notin Resting
  PROVE  /\ call[w].event \in 1..Len(outbox) /\ call[w].event # 0
         /\ Ride(w) = About(call[w].event) /\ Ride(w) \in Rides
         /\ ride[Ride(w)].status # "ABSENT"
         /\ outbox[call[w].event].topic = Requested => outbox[call[w].event].id = Ride(w)
         /\ outbox[call[w].event].topic # Requested =>
              outbox[call[w].event].id \in Offers /\ offer[outbox[call[w].event].id].ride = Ride(w)
<1> DEFINE i == call[w].event
<1>1. i \in 1..Len(outbox) /\ outbox[i].topic \in Handled /\ Ride(w) = About(i) /\ Ride(w) \in Rides
  BY CallFits DEF Fit, Ride
<1>2. Len(outbox) \in Nat
  BY DEF TypeInv, Rows, TablesTypeOK
<1>3. i # 0
  BY <1>1, <1>2
<1> HIDE DEF i
<1>4. CASE outbox[i].topic = Requested
  <2>1. outbox[i].id \in Rides /\ ride[outbox[i].id].status # "ABSENT"
    BY <1>1, <1>4, Topics1 DEF TypeInv, Rows, RowsRefer
  <2> QED BY <1>1, <1>3, <1>4, <2>1 DEF About, i
<1>5. CASE outbox[i].topic # Requested
  <2>1. outbox[i].id \in Offers /\ outbox[i].id \notin Rides
    BY <1>1, <1>5, Topics1, IdsDiffer DEF TypeInv, Rows, RowsRefer
  <2>2. offer[outbox[i].id].ride = Ride(w)
    BY <1>1, <2>1 DEF About
  <2>3. ride[Ride(w)].status # "ABSENT"
    BY <1>1, <2>1, <2>2 DEF TypeInv, Rows, RowsRefer
  <2> QED BY <1>1, <1>3, <1>5, <2>1, <2>2, <2>3 DEF i
<1> QED BY <1>4, <1>5

\* A handler past its search tells that the request of its ride was opened.
LEMMA LateOpened ==
  ASSUME TypeInv, OffersFollow, NEW u \in Workers, Late(u), NEW i \in 1..Len(outbox),
         outbox[i].topic = Requested, outbox[i].id = Ride(u)
  PROVE  Opened(i)
<1>1. call[u].pc \notin Resting /\ call[u].pc \notin Opening
  BY DEF Late
<1>2. CASE outbox[call[u].event].topic = Requested
  <2>1. call[u].event = i
    BY <1>1, <1>2, EventFacts DEF TypeInv, Rows, RowsRefer
  <2> QED BY <1>1, <2>1 DEF Opened
<1>3. CASE outbox[call[u].event].topic # Requested
  BY <1>1, <1>3, EventFacts DEF OffersFollow
<1> QED BY <1>2, <1>3

LEMMA Moves ==
  ASSUME TypeInv, NEW w \in Workers, Shape(w)
  PROVE  /\ \A v \in Workers : v # w => call'[v] = call[v]
         /\ call'[w].event \in {0, call[w].event}
         /\ done' = done \/ (done' = done \cup {call[w].event} /\ call'[w].event = 0)
         /\ 0 \notin done'
         /\ call'[w].event # 0 => call'[w].ride = call[w].ride
<1>1. 0 \notin done'
  BY DEF Shape, TypeInv, Hands, Rows, TablesTypeOK
<1>2. call'[w] = Idle => call'[w].event = 0
  BY IdleFits
<1> QED BY <1>1, <1>2 DEF Shape, Control, Alone, Onward, Finish, Drop

LEMMA OpenedStays ==
  ASSUME TypeInv, NEW w \in Workers, Shape(w), Clean', NEW i, i # 0, Opened(i)
  PROVE  Opened(i)'
<1>1. CASE i \in done
  BY <1>1, Moves DEF Opened
<1>2. ASSUME NEW u \in Workers, call[u].event = i, call[u].pc \notin Opening PROVE Opened(i)'
  <2>1. CASE u # w
    <3>1. call'[u] = call[u]
      BY <2>1, Moves
    <3> QED BY <1>2, <3>1 DEF Opened
  <2>2. CASE u = w
    <3>1. CASE Onward(w)
      <4>1. call'[w].event = i /\ call'[w].pc \notin Opening
        BY <1>2, <2>2, <3>1 DEF Onward
      <4> QED BY <4>1 DEF Opened
    <3>2. CASE Finish(w)
      BY <1>2, <2>2, <3>2 DEF Finish, Opened
    <3> QED BY <3>1, <3>2 DEF Shape, Control, Drop
  <2> QED BY <2>1, <2>2
<1> QED BY <1>1, <1>2 DEF Opened

LEMMA ShapeOneHand ==
  ASSUME TypeInv, OneHand, NEW w \in Workers, Shape(w)
  PROVE  OneHand'
<1>1. \A v \in Workers : call'[v].event \in {0, call[v].event}
  BY Moves
<1>2. \A u, v \in Workers : call'[u].event = call'[v].event /\ call'[u].event # 0 => u = v
  BY <1>1 DEF OneHand, SameEvent
<1>3. \A v \in Workers : call'[v].event \notin done'
  BY <1>1, Moves DEF OneHand, SameEvent
<1> QED BY <1>2, <1>3 DEF OneHand, SameEvent

LEMMA ShapeTwoHands ==
  ASSUME TypeInv, TwoHands, NEW w \in Workers, Shape(w)
  PROVE  TwoHands'
<1>1. \A v \in Workers : call'[v].event \in {0, call[v].event}
  BY Moves
<1>2. \A u, v, x \in Workers :
        /\ call'[u].event = call'[v].event /\ call'[u].event # 0
        /\ call'[v].event = call'[x].event /\ call'[v].event # 0
        => u = v \/ v = x \/ u = x
  BY <1>1 DEF TwoHands, SameEvent
<1>3. ASSUME NEW v \in Workers, NEW x \in Workers, v # x,
             call'[v].event = call'[x].event, call'[v].event # 0
      PROVE  call'[v].event \notin done'
  <2>1. call[v].event = call'[v].event /\ call[x].event = call'[v].event
    BY <1>1, <1>3
  <2>2. call[v].event \notin done
    BY <1>3, <2>1 DEF TwoHands, SameEvent
  <2>3. CASE done' = done
    BY <2>1, <2>2, <2>3
  <2>4. CASE done' = done \cup {call[w].event} /\ call'[w].event = 0
    <3>1. w # v /\ w # x
      BY <2>4, <1>3
    <3>2. call[w].event # call[v].event
      BY <1>3, <2>1, <3>1 DEF TwoHands, SameEvent
    <3> QED BY <2>1, <2>2, <2>4, <3>2
  <2> QED BY <2>3, <2>4, Moves
<1> QED BY <1>2, <1>3 DEF TwoHands, SameEvent

LEMMA ShapeOffersFollow ==
  ASSUME TypeInv, OffersFollow, NEW w \in Workers, Shape(w), Clean'
  PROVE  OffersFollow'
<1> SUFFICES ASSUME NEW i \in 1..Len(outbox'), NEW o \in Offers,
                    outbox'[i].topic = Requested, offer'[o].ride = outbox'[i].id
             PROVE  Opened(i)'
  BY DEF OffersFollow
<1>1. Len(outbox) \in Nat /\ Len(outbox') \in Nat
  BY DEF Shape, Grows
<1>2. offer'[o].ride # offer[o].ride => offer'[o].ride = Ride(w) /\ Late(w)
  BY DEF Shape, Control
<1>3. CASE i \in 1..Len(outbox)
  <2>1. outbox'[i] = outbox[i] /\ i # 0
    BY <1>1, <1>3 DEF Shape, Grows
  <2>2. Opened(i)
    BY <1>2, <1>3, <2>1, LateOpened DEF OffersFollow
  <2> QED BY <2>1, <2>2, OpenedStays
<1>4. CASE i \notin 1..Len(outbox)
  <2>1. i \in (Len(outbox) + 1)..Len(outbox')
    BY <1>1, <1>4
  <2>2. ride[offer'[o].ride].status = "ABSENT"
    BY <2>1 DEF Shape, Grows
  <2>3. Late(w) => ride[Ride(w)].status # "ABSENT"
    BY EventFacts DEF Late
  <2>4. offer'[o].ride \in Rides
    <3>1. "REQUESTED" \notin OfferStatus
      BY DEF OfferStatus
    <3>2. Requested \notin OfferTopics
      BY Topics1
    <3> QED BY <3>2 DEF Shape, TypeInv, Rows, RowsRefer
  <2>5. offer[o].ride \in Rides => ride[offer[o].ride].status # "ABSENT"
    BY DEF TypeInv, Rows, RowsRefer
  <2> QED BY <1>2, <2>2, <2>3, <2>4, <2>5
<1> QED BY <1>3, <1>4

LEMMA SearchingFacts ==
  ASSUME TypeInv, NEW v \in Workers, call[v].pc \in Opening
  PROVE  /\ call[v].pc \notin Resting
         /\ call[v].event \in 1..Len(outbox) /\ call[v].event # 0
         /\ outbox[call[v].event].topic = Requested /\ outbox[call[v].event].id = Ride(v)
<1>1. call[v].pc \notin Resting
  BY DEF Opening, Resting
<1>2. outbox[call[v].event].topic = Requested
  BY CallFits DEF Fit
<1> QED BY <1>1, <1>2, EventFacts

LEMMA ShapeSearch ==
  ASSUME TypeInv, TwoHands, OffersFollow, SearchLocked, SearchAlone, NEW w \in Workers, Shape(w), Clean'
  PROVE  SearchLocked' /\ SearchAlone'
<1> DEFINE Was(v) == Searching(v) /\ call'[v].event = call[v].event /\ call'[v].ride = call[v].ride
           New == call[w].pc = "lock" /\ Ride(w) \notin lock /\ Ride(w) \in lock'
                  /\ call'[w].event = call[w].event /\ call'[w].ride = call[w].ride
<1>1. ASSUME NEW v \in Workers, call'[v].pc \in {"find", "store"} PROVE Was(v) \/ (v = w /\ New)
  <2>1. CASE v # w
    <3>1. call'[v] = call[v]
      BY <2>1, Moves
    <3> QED BY <1>1, <3>1 DEF Searching
  <2>2. CASE v = w
    <3>1. call'[w] # Idle
      BY <1>1, <2>2, IdleFits
    <3>2. Onward(w)
      BY <3>1 DEF Shape, Control, Finish, Drop
    <3> QED BY <1>1, <2>2, <3>2 DEF Onward
  <2> QED BY <2>1, <2>2
<1>2. ASSUME NEW v \in Workers, call'[v].pc \in {"find", "store"}
      PROVE  call'[v].ride \in lock' \/ Opened(call[v].event)'
  <2>1. CASE Was(v)
    <3>1. call[v].pc \in Opening
      BY <2>1 DEF Searching, Opening
    <3>2. CASE Opened(call[v].event)
      <4>1. PICK i : i = call[v].event /\ i # 0
        BY <3>1, SearchingFacts
      <4>2. Opened(i)'
        BY <3>2, <4>1, OpenedStays
      <4> QED BY <2>1, <4>1, <4>2 DEF Opened
    <3>3. CASE Ride(v) \in lock /\ Ride(v) \notin lock'
      <4>1. Ride(v) = Ride(w) /\ Late(w)
        BY <3>3 DEF Shape, Control
      <4>2. PICK i \in 1..Len(outbox) : i = call[v].event /\ i # 0
        BY <3>1, SearchingFacts
      <4>3. outbox[i].topic = Requested /\ outbox[i].id = Ride(w)
        BY <3>1, <4>1, <4>2, SearchingFacts
      <4>4. Opened(i)'
        BY <4>1, <4>2, <4>3, LateOpened, OpenedStays
      <4> QED BY <2>1, <4>2, <4>4 DEF Opened
    <3>4. Ride(v) \in lock \/ Opened(call[v].event)
      BY <2>1 DEF SearchLocked
    <3> QED BY <2>1, <3>2, <3>3, <3>4 DEF Ride
  <2>2. CASE v = w /\ New
    BY <2>2 DEF Ride
  <2> QED BY <1>1, <1>2, <2>1, <2>2
<1>3. ASSUME NEW v \in Workers, v # w, Was(v), New, call'[v].event = call'[w].event
      PROVE  FALSE
  <2>1. call[v].event = call[w].event /\ Searching(v) /\ call[w].pc = "lock"
    BY <1>3
  <2>2. call[v].pc \in Opening /\ call[w].pc \in Opening
    BY <2>1 DEF Searching, Opening
  <2>3. Ride(v) = Ride(w) /\ call[v].event # 0
    BY <2>1, <2>2, SearchingFacts
  <2>4. Opened(call[v].event)
    BY <1>3, <2>1, <2>3 DEF SearchLocked
  <2>5. call[v].event \notin done
    BY <1>3, <2>1, <2>3 DEF TwoHands, SameEvent
  <2>6. PICK u \in Workers : call[u].event = call[v].event /\ call[u].pc \notin Opening
    BY <2>4, <2>5 DEF Opened
  <2>7. u # v /\ u # w
    BY <2>2, <2>6
  <2> QED BY <1>3, <2>1, <2>3, <2>6, <2>7 DEF TwoHands, SameEvent
<1>4. ASSUME NEW u \in Workers, NEW v \in Workers, call'[u].pc \in {"find", "store"},
             call'[v].pc \in {"find", "store"}, call'[u].event = call'[v].event, call'[u].event # 0
      PROVE  u = v
  <2>1. Was(u) /\ Was(v) => u = v
    BY <1>4 DEF SearchAlone, SameEvent
  <2> HIDE DEF Was, New
  <2> QED BY <1>1, <1>3, <1>4, <2>1
<1>5. SearchLocked'
  <2>1. ASSUME NEW v \in Workers, Searching(v)' PROVE (Ride(v) \in lock \/ Opened(call[v].event))'
    <3>1. call'[v].pc \in {"find", "store"}
      BY <2>1 DEF Searching
    <3>2. call'[v].event = call[v].event
      BY <1>1, <3>1
    <3>3. call'[v].ride \in lock' \/ Opened(call[v].event)'
      BY <1>2, <3>1
    <3> QED BY <3>3 DEF Ride
  <2> QED BY <2>1 DEF SearchLocked
<1>6. SearchAlone'
  BY <1>4 DEF SearchAlone, Searching, SameEvent
<1> QED BY <1>5, <1>6


LEMMA WorldSearch ==
  ASSUME TypeInv, SearchInv, World
  PROVE  SearchInv'
<1>1. Again' = Again /\ (Clean' => Clean) /\ call' = call /\ done' = done
  BY DEF World, Counts
<1>2. OneHand => OneHand'
  BY <1>1 DEF OneHand, SameEvent
<1>3. TwoHands => TwoHands'
  BY <1>1 DEF TwoHands, SameEvent
<1>4. \A i : Opened(i) => Opened(i)'
  BY <1>1 DEF Opened
<1>5. OffersFollow => OffersFollow'
  <2> SUFFICES ASSUME OffersFollow, NEW i \in 1..Len(outbox'), NEW o \in Offers,
                      outbox'[i].topic = Requested, offer'[o].ride = outbox'[i].id
               PROVE  Opened(i)'
    BY DEF OffersFollow
  <2>1. Len(outbox) \in Nat /\ Len(outbox') \in Nat
    BY DEF World, Grows
  <2>2. offer'[o].ride = offer[o].ride
    BY DEF World, SameAsked
  <2>3. CASE i \in 1..Len(outbox)
    <3>1. outbox'[i] = outbox[i]
      BY <2>3 DEF World, Grows
    <3> QED BY <2>2, <2>3, <3>1, <1>4 DEF OffersFollow
  <2>4. CASE i \notin 1..Len(outbox)
    <3>1. i \in (Len(outbox) + 1)..Len(outbox')
      BY <2>1, <2>4
    <3>2. ride[offer[o].ride].status = "ABSENT"
      BY <2>2, <3>1 DEF World, Grows
    <3>3. offer[o].ride \in Rides
      BY <2>2, Topics1 DEF World, TypeInv, Rows, RowsRefer
    <3> QED BY <3>2, <3>3 DEF TypeInv, Rows, RowsRefer
  <2> QED BY <2>3, <2>4
<1>6. Clean' /\ SearchLocked => SearchLocked'
  <2> SUFFICES ASSUME Clean', SearchLocked, NEW v \in Workers, Searching(v)'
               PROVE  (Ride(v) \in lock \/ Opened(call[v].event))'
    BY DEF SearchLocked
  <2>1. Searching(v) /\ Ride(v)' = Ride(v) /\ call'[v].event = call[v].event /\ lock' = lock
    BY <1>1 DEF Searching, Ride, World
  <2>2. CASE Opened(call[v].event)
    <3>1. Opened(call[v].event)'
      BY <1>1, <2>2 DEF Opened
    <3> QED BY <3>1
  <2> QED BY <2>1, <2>2 DEF SearchLocked
<1>7. SearchAlone => SearchAlone'
  BY <1>1 DEF SearchAlone, Searching, SameEvent
<1> QED BY <1>1, <1>2, <1>3, <1>5, <1>6, <1>7 DEF SearchInv

LEMMA TakesSearch ==
  ASSUME TypeInv, SearchInv, NEW w \in Workers, NEW i \in 1..Len(outbox), Takes(w, i)
  PROVE  SearchInv'
<1>0. i # 0
  BY DEF TypeInv, Rows, TablesTypeOK
<1>1. /\ call[w].event = 0 /\ call'[w].event = i /\ done' = done
      /\ \A v \in Workers : v # w => call'[v] = call[v]
      /\ Again \in Nat /\ Again' \in {Again, Again + 1} /\ (Clean' => Clean)
  BY DEF Takes, Alone
<1>2. i \in done \/ InHand(i) => Again' = Again + 1
  BY DEF Takes
<1>z. 0 \notin done
  BY DEF TypeInv, Hands, Rows, TablesTypeOK
<1>3. ASSUME Again' = 0 PROVE OneHand'
  <2>1. Again = 0 /\ i \notin done /\ ~InHand(i)
    BY <1>1, <1>2, <1>3
  <2>2. OneHand
    BY <2>1 DEF SearchInv
  <2>3. \A u, v \in Workers : call'[u].event = call'[v].event /\ call'[u].event # 0 => u = v
    BY <1>1, <2>1, <2>2 DEF OneHand, SameEvent, InHand
  <2>4. \A v \in Workers : call'[v].event \notin done'
    BY <1>1, <2>1, <2>2 DEF OneHand
  <2> QED BY <2>3, <2>4 DEF OneHand, SameEvent
<1>4. ASSUME Clean', Again' <= 1 PROVE TwoHands' /\ OffersFollow' /\ SearchLocked' /\ SearchAlone'
  <2>1. TwoHands /\ OffersFollow /\ SearchLocked /\ SearchAlone
    <3>1. Clean /\ Again <= 1
      BY <1>1, <1>4
    <3> QED BY <3>1 DEF SearchInv
  <2>2. i \in done \/ InHand(i) => OneHand
    BY <1>1, <1>2, <1>4 DEF SearchInv
  <2>3. ASSUME NEW u \in Workers, NEW v \in Workers, NEW x \in Workers,
               call'[u].event = call'[v].event, call'[u].event # 0, call'[v].event = call'[x].event
        PROVE  u = v \/ v = x \/ u = x
    <3>1. CASE w \notin {u, v, x}
      BY <1>1, <2>1, <2>3, <3>1 DEF TwoHands, SameEvent
    <3>2. ASSUME NEW y \in Workers, NEW z \in Workers, y # w, z # w,
                 call'[y].event = i, call'[z].event = i
          PROVE  y = z
      <4>1. call[y].event = i /\ call[z].event = i
        BY <1>1, <3>2
      <4> QED BY <1>0, <2>2, <4>1 DEF InHand, OneHand, SameEvent
    <3> QED BY <1>1, <2>3, <3>1, <3>2
  <2>4. ASSUME NEW v \in Workers, NEW x \in Workers, v # x,
               call'[v].event = call'[x].event, call'[v].event # 0
        PROVE  call'[v].event \notin done'
    <3>1. CASE w \notin {v, x}
      BY <1>1, <2>1, <2>4, <3>1 DEF TwoHands, SameEvent
    <3>2. CASE w \in {v, x}
      <4>1. PICK y \in Workers : y # w /\ call'[y].event = i /\ call'[v].event = i
        BY <1>1, <2>4, <3>2
      <4>2. call[y].event = i
        BY <1>1, <4>1
      <4> QED BY <1>1, <2>2, <4>1, <4>2 DEF InHand, OneHand
    <3> QED BY <3>1, <3>2
  <2>5. TwoHands'
    BY <2>3, <2>4 DEF TwoHands, SameEvent
  <2>6. \A j : j # 0 /\ Opened(j) => Opened(j)'
    BY <1>1 DEF Opened
  <2>7. OffersFollow'
    <3>1. outbox' = outbox /\ offer' = offer /\ \A j \in 1..Len(outbox) : j # 0
      BY DEF Takes, TypeInv, Rows, TablesTypeOK
    <3> QED BY <2>1, <2>6, <3>1 DEF OffersFollow
  <2>8. \A v \in Workers : Searching(v)' => v # w /\ Searching(v) /\ call'[v] = call[v]
    BY <1>1 DEF Takes, Searching
  <2>9. SearchLocked'
    <3> SUFFICES ASSUME NEW v \in Workers, Searching(v)'
                 PROVE  (Ride(v) \in lock \/ Opened(call[v].event))'
      BY DEF SearchLocked
    <3>1. Searching(v) /\ call'[v] = call[v] /\ lock' = lock
      BY <2>8 DEF Takes
    <3>2. CASE Opened(call[v].event)
      <4>1. call[v].event # 0
        BY <3>1, SearchingFacts DEF Searching, Opening
      <4>2. PICK j : j = call[v].event /\ Opened(j) /\ j # 0
        BY <3>2, <4>1
      <4>3. Opened(j)'
        BY <2>6, <4>2
      <4> QED BY <3>1, <4>2, <4>3 DEF Opened
    <3> QED BY <2>1, <3>1, <3>2 DEF SearchLocked, Ride
  <2>10. SearchAlone'
    BY <2>1, <2>8 DEF SearchAlone, SameEvent
  <2> QED BY <2>5, <2>7, <2>9, <2>10
<1> QED BY <1>3, <1>4 DEF SearchInv

LEMMA ShapeSearchInv ==
  ASSUME TypeInv, SearchInv, NEW w \in Workers, Shape(w)
  PROVE  SearchInv'
<1>1. Again' = Again /\ (Clean' => Clean)
  BY DEF Shape, Control
<1> QED BY <1>1, ShapeOneHand, ShapeTwoHands, ShapeOffersFollow, ShapeSearch DEF SearchInv

LEMMA SearchStep == TypeInv /\ SearchInv /\ [Next]_vars => SearchInv'
BY NextKinds, WorldSearch, TakesSearch, ShapeSearchInv

LEMMA SearchInit == Init => SearchInv
<1> SUFFICES ASSUME Init PROVE SearchInv
  OBVIOUS
<1>1. \A w \in Workers : call[w] = Idle
  BY DEF Init
<1>2. \A w \in Workers : call[w].event = 0 /\ ~Searching(w)
  BY <1>1, IdleFits DEF Searching
<1>3. done = {} /\ outbox = <<>>
  BY DEF Init, InitTables
<1>4. OneHand /\ TwoHands /\ SearchLocked /\ SearchAlone
  BY <1>2, <1>3 DEF OneHand, TwoHands, SearchLocked, SearchAlone, SameEvent
<1>5. OffersFollow
  BY <1>3 DEF OffersFollow
<1> QED BY <1>4, <1>5 DEF SearchInv

LEMMA OnlyAgain ==
  ASSUME TypeInv, NEW kinds, AtMostOneBut(kinds), Again # 0
  PROVE  Clean /\ Again <= 1
<1>1. "again" \in Incidents /\ incidents["again"] # 0
  BY DEF Again
<1>2. \A kind \in Incidents : incidents[kind] # 0 => incidents[kind] > 0
  <2> TAKE kind \in Incidents
  <2>1. PICK n \in Nat : n = incidents[kind]
    BY DEF TypeInv, KeysOK
  <2>2. n # 0 => n > 0
    OBVIOUS
  <2> QED BY <2>1, <2>2
<1>3. \A k1, k2 \in Incidents : incidents[k1] > 0 /\ incidents[k2] > 0 => k1 = k2
  BY DEF AtMostOneBut
<1>4. \A kind \in Incidents : kind # "again" => incidents[kind] = 0
  BY <1>1, <1>2, <1>3
<1>5. Again <= 1
  BY <1>1 DEF AtMostOneBut, Again
<1> QED BY <1>4, <1>5 DEF Clean

\* One handler at a time searches drivers for a ride, unless the lock expires under it
\* or more than one incident happens: a repeated event finds the lock taken, and when
\* the lock was released the request is done or in two hands already.
THEOREM MatchingSearchesAlone == Spec => []SearchedByOne
<1>1. ASSUME TypeInv, SearchInv, NEW kinds, AtMostOneBut(kinds), NEW v \in Workers, NEW w \in Workers,
             Searching(v), Searching(w), Ride(v) = Ride(w)
      PROVE  v = w
  <2>1. call[v].pc \in Opening /\ call[w].pc \in Opening
    BY <1>1 DEF Searching, Opening
  <2>2. call[v].event = call[w].event /\ call[v].event # 0
    BY <1>1, <2>1, SearchingFacts DEF TypeInv, Rows, RowsRefer
  <2>3. CASE Again = 0
    BY <1>1, <2>2, <2>3 DEF SearchInv, OneHand, SameEvent
  <2>4. CASE Again # 0
    BY <1>1, <2>2, <2>4, OnlyAgain DEF SearchInv, SearchAlone, SameEvent
  <2> QED BY <2>3, <2>4
<1>2. TypeInv /\ SearchInv => SearchedByOne
  BY <1>1 DEF SearchedByOne, Searching
<1> QED BY <1>2, TypeInit, TypeStep, SearchInit, SearchStep, PTL DEF Spec


(* ------------------------- one offer at a time ------------------------- *)

Entry == {"active", "has", "lock"}
Deep == {"pop", "count", "busy", "create", "sent", "activate"}
Chain == {"find", "store", "clear", "next"} \cup Deep
Leaving == {"release", "giveup", "forget", "cancel", "unlock"}
Broken == {"active", "has", "lock", "find", "store", "match", "next", "pop", "count", "busy"}
Ended == {TopicOf("DECLINED"), TopicOf("EXPIRED")}
OutcomeTopics == {TopicOf(s) : s \in Outcomes}

Calm == AtMostOneBut({"rpc", "again"})
OnlyCrash == \A kind \in Incidents \ {"crash"} : incidents[kind] = 0
NoCrash == \A kind \in Incidents \cap {"crash"} : incidents[kind] = 0

\* Handlers that will make an offer, or have made one nobody knows of; and all that
\* stands for an offer of the ride: the offer that made a handler go on, or the one it
\* made, the offers that wait for an answer, and the active one.
OnChain(r) == {w \in Workers : call[w].pc \in Chain /\ Ride(w) = r}
Claims(r) == {call[w].offer : w \in OnChain(r)} \cup Waiting(r) \cup ({active[r]} \ {None})

ChainInv(r) ==
  /\ \A v, w \in OnChain(r) : v = w
  /\ \A x, y \in Claims(r) : x = y
  /\ \A w \in OnChain(r) : call[w].pc \in Deep => active[r] = None

\* An offer of the ride, and where a handler has its offer from.
Exists(o, r) == o \in Offers /\ offer[o].status # "ABSENT" /\ offer[o].ride = r
FromEvent(c) == outbox[c.event].topic \in Ended /\ c.offer = outbox[c.event].id
Origin(c) ==
  /\ c.pc \in Opening => c.offer = None
  /\ c.pc \in {"cool", "match", "clear"} => FromEvent(c)
  /\ c.pc \in {"next", "pop", "count", "busy", "create"} =>
       FromEvent(c) \/ (outbox[c.event].topic = Requested /\ c.offer = None)
  /\ c.pc \in {"sent", "activate"} => Exists(c.offer, c.ride)
  /\ c.pc = "accepted" => outbox[c.event].topic = TopicOf("ACCEPTED")

\* An offer has one outcome, and its event says which.
OutcomesOnce ==
  /\ \A i \in 1..Len(outbox) : outbox[i].topic \in OutcomeTopics =>
       outbox[i].topic = TopicOf(offer[outbox[i].id].status)
  /\ \A i, j \in 1..Len(outbox) :
       outbox[i].topic \in OutcomeTopics /\ outbox[j].topic \in OutcomeTopics
       /\ outbox[i].id = outbox[j].id => i = j
ActiveOK == \A r \in Rides : active[r] # None => Exists(active[r], r)

Records == (\A w \in Workers : Origin(call[w])) /\ OutcomesOnce /\ ActiveOK

\* The request of a ride of which no handler has begun to search.
Request(i, r) == i \in 1..Len(outbox) /\ outbox[i].topic = Requested /\ outbox[i].id = r
Unbegun(i) == i \notin done /\ \A u \in Workers : call[u].event = i => call[u].pc \in Entry

\* Without a crash a search begins only for a ride without offers and handlers.
FreshInv(i, r) == Unbegun(i) => Claims(r) = {}

\* With a crash the lock keeps a second search out until the ride is over.
MayRepeat(i) == i \notin done /\ (NoCrash \/ Unbegun(i))
Over(r) ==
  /\ r \in lock \/ Claims(r) = {}
  /\ \A w \in Workers : call[w].pc \in Leaving /\ Ride(w) = r => Claims(r) = {}
  /\ \A o \in OffersOf(r) : offer[o].status = "ACCEPTED" =>
       OnChain(r) = {} /\ Waiting(r) = {} /\ active[r] \in {o, None}

\* Without a crash an accepted offer is the last, a ride is given up only when nothing
\* is claimed of it, and the request of a ride with offers is not begun again.
Firm == AtMostOneBut({"rpc", "again", "crash"})
GivingUp == Leaving \ {"unlock"}
Sent(i) == i \in done \/ \E u \in Workers : call[u].event = i /\ call[u].pc \in {"sent", "activate", "increment"}
Accepted(r) == {o \in OffersOf(r) : offer[o].status = "ACCEPTED"}
Kept(r) ==
  /\ \A o \in Accepted(r) : Claims(r) \subseteq {o}
  /\ \A w \in Workers : call[w].pc \in GivingUp /\ Ride(w) = r => Claims(r) = {} /\ Accepted(r) = {}
  /\ \A i : Request(i, r) /\ OffersOf(r) # {} => Sent(i)

RideInv(r) ==
  /\ ChainInv(r)
  /\ \A i : Request(i, r) => /\ NoCrash => FreshInv(i, r)
                             /\ OnlyCrash /\ MayRepeat(i) => Over(r)
  /\ Firm => Kept(r)

SequelInv == Records /\ (Calm => \A r \in Rides : RideInv(r))

(* --------------------------- the incidents ----------------------------- *)

IncidentsGrow ==
  /\ incidents \in [Incidents -> Nat] /\ incidents' \in [Incidents -> Nat]
  /\ \A kind \in Incidents : incidents[kind] <= incidents'[kind]

LEMMA FirmCalm == Firm <=> Calm /\ NoCrash
BY DEF Firm, Calm, NoCrash, AtMostOneBut

LEMMA CalmBefore ==
  ASSUME IncidentsGrow
  PROVE  (Calm' => Calm) /\ (OnlyCrash' => OnlyCrash) /\ (NoCrash' => NoCrash) /\ (Firm' => Firm)
<1>1. ASSUME NEW kind \in Incidents
      PROVE  /\ incidents'[kind] = 0 => incidents[kind] = 0
             /\ incidents[kind] > 0 => incidents'[kind] > 0
             /\ incidents'[kind] <= 1 => incidents[kind] <= 1
  BY DEF IncidentsGrow
<1>2. OnlyCrash' => OnlyCrash
  BY <1>1 DEF OnlyCrash
<1>3. NoCrash' => NoCrash
  BY <1>1 DEF NoCrash
<1>4. ASSUME Calm' PROVE Calm
  <2>1. \A kind \in Incidents \cap {"rpc", "again"} : incidents[kind] = 0
    BY <1>1, <1>4 DEF Calm, AtMostOneBut
  <2>2. \A k1, k2 \in Incidents : incidents[k1] > 0 /\ incidents[k2] > 0 => k1 = k2
    BY <1>1, <1>4 DEF Calm, AtMostOneBut
  <2>3. \A kind \in Incidents : incidents[kind] <= 1
    BY <1>1, <1>4 DEF Calm, AtMostOneBut
  <2> QED BY <2>1, <2>2, <2>3 DEF Calm, AtMostOneBut
<1>5. Firm' => Calm' /\ NoCrash'
  BY DEF Firm, Calm, NoCrash, AtMostOneBut
<1> QED BY <1>2, <1>3, <1>4, <1>5, FirmCalm

LEMMA IncidentGrows ==
  ASSUME KeysOK, NEW kind, Incident(kind)
  PROVE  /\ IncidentsGrow
         /\ kind # "crash" => ~OnlyCrash'
         /\ kind = "crash" => ~NoCrash'
         /\ Calm' => kind \notin {"rpc", "again"}
         /\ Calm' /\ kind = "crash" => NoCrash
<1>1. kind \in Incidents /\ incidents' = [incidents EXCEPT ![kind] = @ + 1]
      /\ incidents \in [Incidents -> Nat]
  BY DEF Incident, KeysOK
<1>2. incidents' \in [Incidents -> Nat] /\ incidents'[kind] = incidents[kind] + 1
      /\ incidents[kind] \in Nat
      /\ \A k \in Incidents : k # kind => incidents'[k] = incidents[k]
  BY <1>1
<1>3. incidents'[kind] # 0 /\ (incidents'[kind] <= 1 => incidents[kind] = 0)
  BY <1>2
<1>4. \A k \in Incidents : incidents[k] <= incidents'[k]
  BY <1>1, <1>2
<1>5. IncidentsGrow
  BY <1>1, <1>2, <1>4 DEF IncidentsGrow
<1>6. kind # "crash" => ~OnlyCrash'
  BY <1>1, <1>3 DEF OnlyCrash
<1>7. kind = "crash" => ~NoCrash'
  BY <1>1, <1>3 DEF NoCrash
<1>8. Calm' => kind \notin {"rpc", "again"}
  BY <1>1, <1>3 DEF Calm, AtMostOneBut
<1>9. Calm' /\ kind = "crash" => NoCrash
  BY <1>1, <1>3 DEF Calm, AtMostOneBut, NoCrash
<1> QED BY <1>5, <1>6, <1>7, <1>8, <1>9

LEMMA SameGrows ==
  ASSUME KeysOK, UNCHANGED incidents
  PROVE  IncidentsGrow
BY DEF KeysOK, IncidentsGrow

\* One incident at a time: without a crash there is none, or only one of another kind.
LEMMA CrashAlone ==
  ASSUME KeysOK, Calm, ~NoCrash
  PROVE  OnlyCrash
<1>1. "crash" \in Incidents /\ incidents["crash"] # 0 /\ incidents \in [Incidents -> Nat]
  BY DEF NoCrash, KeysOK
<1>2. \A k \in Incidents : incidents[k] # 0 => incidents[k] > 0
  BY <1>1
<1> QED BY <1>1, <1>2 DEF Calm, AtMostOneBut, OnlyCrash

LEMMA CalmHands ==
  ASSUME TypeInv, SearchInv, Calm
  PROVE  OneHand /\ (OnlyCrash /\ NoCrash => OffersFollow)
<1>1. Again = 0
  BY DEF Calm, AtMostOneBut, Again
<1>2. OnlyCrash /\ NoCrash => Clean
  BY DEF OnlyCrash, NoCrash, Clean
<1> QED BY <1>1, <1>2 DEF SearchInv

(* ---------------------- the quiet steps of a handler ------------------- *)

Roads ==
  {<<"active", "has">>, <<"has", "lock">>, <<"find", "find">>, <<"find", "store">>,
   <<"find", "release">>, <<"release", "cancel">>, <<"store", "next">>, <<"accepted", "unlock">>,
   <<"cool", "match">>, <<"clear", "next">>, <<"next", "pop">>, <<"pop", "count">>,
   <<"pop", "giveup">>, <<"count", "busy">>, <<"count", "giveup">>, <<"busy", "pop">>,
   <<"busy", "create">>, <<"sent", "activate">>, <<"activate", "increment">>,
   <<"giveup", "forget">>, <<"forget", "cancel">>, <<"idle", "stopped">>}

Keeps(w) ==
  /\ done' = done
  /\ call'[w].event = call[w].event /\ call'[w].ride = call[w].ride /\ call'[w].offer = call[w].offer
Goes(w) == Keeps(w) /\ <<call[w].pc, call'[w].pc>> \in Roads
Leave(w) == call'[w] = Idle /\ done' = done
Frees(w) == call[w].pc \in Leaving \/ (call[w].pc = "accepted" /\ active'[Ride(w)] = None)
Tells == outbox' = outbox \/ \E r \in Rides : Announce("CANCELLED", r)

\* A step that makes no offer and lets nobody join the chain.
Quietly(w) ==
  /\ Alone(w) /\ offer' = offer /\ Tells /\ IncidentsGrow
  /\ \A r \in Rides : active'[r] \in {active[r], None}
  /\ \/ Goes(w)
     \/ Finish(w)
     \/ Leave(w) /\ (Calm' => (NoCrash' => call[w].pc \in Broken) /\ (OnlyCrash' => NoCrash))
  /\ call'[w].pc = "pop" => call[w].pc # "next" \/ active[Ride(w)] = None
  /\ Calm' /\ OnlyCrash' =>
       /\ \A r \in lock \ lock' : r = Ride(w) /\ Frees(w)
       /\ call'[w].pc = "unlock" => Frees(w)

\* What a step does to a ride when nobody joins its chain.
Shrinks(r) ==
  /\ \A w \in Workers : w \in OnChain(r)' =>
       /\ w \in OnChain(r) /\ call'[w].offer = call[w].offer
       /\ call'[w].pc \in Deep => call[w].pc \in Deep \/ active[r] = None
  /\ Waiting(r)' \subseteq Waiting(r)
  /\ active'[r] \in {active[r], None}

LEMMA IdleOff == Idle.pc = "idle" /\ Idle.event = 0 /\ Idle.pc \notin Chain \cup Leaving \cup Entry
BY DEF Idle, Chain, Deep, Leaving, Entry

LEMMA QuietShrinks ==
  ASSUME NEW w \in Workers, Quietly(w), NEW r \in Rides
  PROVE  Shrinks(r)
<1>1. Waiting(r)' = Waiting(r) /\ active'[r] \in {active[r], None}
  BY DEF Quietly, Waiting, OffersOf
<1>2. ASSUME NEW v \in Workers, v \in OnChain(r)', v # w
      PROVE  v \in OnChain(r) /\ call'[v] = call[v]
  BY <1>2 DEF OnChain, Ride, Quietly, Alone
<1>3. ASSUME w \in OnChain(r)'
      PROVE  /\ w \in OnChain(r) /\ call'[w].offer = call[w].offer
             /\ call'[w].pc \in Deep => call[w].pc \in Deep \/ active[r] = None
  <2>1. call'[w].pc \in Chain /\ call'[w].ride = r
    BY <1>3 DEF OnChain, Ride
  <2>2. call'[w] # Idle
    BY <2>1, IdleOff
  <2>3. Goes(w)
    BY <2>2 DEF Quietly, Finish, Leave
  <2>4. call[w].pc \in Chain /\ (call'[w].pc \in Deep => call[w].pc \in Deep \/ <<call[w].pc, call'[w].pc>> = <<"next", "pop">>)
    BY <2>1, <2>3 DEF Goes, Roads, Chain, Deep
  <2>5. Ride(w) = r /\ call'[w].offer = call[w].offer
    BY <2>1, <2>3 DEF Goes, Keeps, Ride
  <2> QED BY <2>4, <2>5 DEF OnChain, Quietly
<1> QED BY <1>1, <1>2, <1>3 DEF Shrinks

LEMMA ShrunkClaims ==
  ASSUME NEW r \in Rides, Shrinks(r)
  PROVE  OnChain(r)' \subseteq OnChain(r) /\ Claims(r)' \subseteq Claims(r)
<1>1. OnChain(r)' \subseteq OnChain(r)
  BY DEF Shrinks, OnChain
<1>2. ASSUME NEW w \in OnChain(r)' PROVE call'[w].offer \in Claims(r)
  <2>1. w \in Workers
    BY <1>2 DEF OnChain
  <2>2. w \in OnChain(r) /\ call'[w].offer = call[w].offer
    BY <1>2, <2>1 DEF Shrinks
  <2> QED BY <2>2 DEF Claims
<1>3. Claims(r)' = {call'[w].offer : w \in OnChain(r)'} \cup Waiting(r)' \cup ({active'[r]} \ {None})
  BY DEF Claims
<1>4. Waiting(r)' \subseteq Claims(r) /\ {active'[r]} \ {None} \subseteq Claims(r)
  BY DEF Shrinks, Claims
<1> QED BY <1>1, <1>2, <1>3, <1>4

LEMMA ShrinksChain ==
  ASSUME NEW r \in Rides, Shrinks(r), ChainInv(r)
  PROVE  ChainInv(r)'
<1>1. OnChain(r)' \subseteq OnChain(r) /\ Claims(r)' \subseteq Claims(r)
  BY ShrunkClaims
<1>2. (\A v, w \in OnChain(r) : v = w)' /\ (\A x, y \in Claims(r) : x = y)'
  BY <1>1 DEF ChainInv
<1>3. ASSUME NEW w \in OnChain(r)', call'[w].pc \in Deep PROVE active'[r] = None
  <2>1. w \in Workers /\ w \in OnChain(r)
    BY <1>1, <1>3 DEF OnChain
  <2>2. active[r] = None
    BY <1>3, <2>1 DEF Shrinks, ChainInv
  <2> QED BY <2>2 DEF Shrinks
<1> QED BY <1>2, <1>3 DEF ChainInv

\* A handler on the chain that has no offer, or one that has been declined, is all
\* there is.
LEMMA OnlyOwn ==
  ASSUME TypeInv, Records, NEW r \in Rides, ChainInv(r), NEW w \in OnChain(r),
         call[w].offer = None \/ (call[w].pc \in Deep /\ FromEvent(call[w]))
  PROVE  Waiting(r) = {} /\ active[r] = None /\ OnChain(r) = {w}
<1>0. w \in Workers /\ call[w].pc \in Chain /\ Ride(w) = r
  BY DEF OnChain
<1>1. \A x \in Claims(r) : x = call[w].offer
  BY DEF ChainInv, Claims
<1>2. OnChain(r) = {w}
  BY DEF ChainInv
<1>3. active[r] = None
  <2>1. active[r] # None => active[r] = call[w].offer
    BY <1>1 DEF Claims
  <2> QED BY <2>1 DEF ChainInv
<1>4. Waiting(r) = {}
  <2>1. ASSUME NEW o \in Waiting(r) PROVE FALSE
    <3>1. o = call[w].offer /\ o \in Offers /\ offer[o].status = "PENDING"
      BY <1>1 DEF Claims, Waiting, OffersOf
    <3>2. call[w].offer # None
      BY <3>1, IdsDiffer
    <3>3. call[w].event \in 1..Len(outbox) /\ outbox[call[w].event].topic \in Ended /\ o = outbox[call[w].event].id
      <4>1. call[w].pc \notin Resting
        BY <1>0 DEF Chain, Deep, Resting
      <4> QED BY <3>1, <3>2, <4>1, EventFacts, <1>0 DEF FromEvent
    <3>4. "DECLINED" \in Outcomes /\ "EXPIRED" \in Outcomes
      BY DEF Outcomes, OfferStatus
    <3>5. outbox[call[w].event].topic \in OutcomeTopics
      BY <3>3, <3>4 DEF Ended, OutcomeTopics
    <3>6. outbox[call[w].event].topic = TopicOf("PENDING")
      BY <3>1, <3>3, <3>5 DEF Records, OutcomesOnce
    <3>7. {"PENDING", "DECLINED", "EXPIRED"} \subseteq Announced
      BY DEF Announced, OfferStatus
    <3> QED BY <3>3, <3>6, <3>7, TopicsDiffer DEF Ended
  <2> QED BY <2>1
<1> QED BY <1>2, <1>3, <1>4

LEMMA NothingClaimed ==
  ASSUME NEW r \in Rides
  PROVE  Claims(r) = {} <=> (OnChain(r) = {} /\ Waiting(r) = {} /\ active[r] = None)
BY DEF Claims

LEMMA KeptStays ==
  ASSUME NEW r \in Rides, ChainInv(r), Kept(r), Claims(r)' \subseteq Claims(r),
         \A o \in OffersOf(r)' : o \in OffersOf(r),
         \A o \in Accepted(r)' : o \in Accepted(r) \cup Waiting(r),
         \A v \in Workers : call'[v].pc \in GivingUp /\ Ride(v)' = r =>
           \/ call[v].pc \in GivingUp /\ Ride(v) = r
           \/ Claims(r)' = {} /\ Accepted(r)' = {},
         \A i : Request(i, r)' => Request(i, r) /\ (Sent(i) => Sent(i)')
  PROVE  Kept(r)'
<1>1. ASSUME NEW o \in Accepted(r)' PROVE Claims(r)' \subseteq {o}
  <2>1. o \in Accepted(r) => Claims(r) \subseteq {o}
    BY DEF Kept
  <2>2. o \in Waiting(r) => Claims(r) \subseteq {o}
    BY DEF ChainInv, Claims
  <2> QED BY <2>1, <2>2
<1>2. ASSUME NEW v \in Workers, call'[v].pc \in GivingUp, Ride(v)' = r PROVE Claims(r)' = {} /\ Accepted(r)' = {}
  <2>1. CASE call[v].pc \in GivingUp /\ Ride(v) = r
    <3>1. Claims(r) = {} /\ Accepted(r) = {}
      BY <2>1 DEF Kept
    <3>2. Waiting(r) = {}
      BY <3>1, NothingClaimed
    <3> QED BY <3>1, <3>2
  <2> QED BY <1>2, <2>1
<1>3. ASSUME NEW i, Request(i, r)', OffersOf(r)' # {} PROVE Sent(i)'
  <2>1. OffersOf(r) # {}
    BY <1>3
  <2> QED BY <1>3, <2>1 DEF Kept
<1> QED BY <1>1, <1>2, <1>3 DEF Kept, Ride

LEMMA LeftAlone ==
  ASSUME NEW r \in Rides, Shrinks(r), NEW w, OnChain(r) \subseteq {w}, w \notin OnChain(r)',
         Waiting(r) = {}, active[r] = None
  PROVE  Claims(r)' = {}
<1>1. OnChain(r)' = {} /\ Waiting(r)' = {} /\ active'[r] = None
  BY ShrunkClaims DEF Shrinks
<1>2. Claims(r)' = {call'[v].offer : v \in OnChain(r)'} \cup Waiting(r)' \cup ({active'[r]} \ {None})
  BY DEF Claims
<1> QED BY <1>1, <1>2

\* A handler that is yet to make an offer shows that none was accepted.
LEMMA NoneAccepted ==
  ASSUME TypeInv, Records, NEW r \in Rides, Kept(r), NEW w \in OnChain(r),
         call[w].offer = None \/ (call[w].pc \in Deep /\ FromEvent(call[w]))
  PROVE  Accepted(r) = {}
<1> SUFFICES ASSUME NEW o \in Accepted(r) PROVE FALSE
  OBVIOUS
<1>1. o \in Offers /\ offer[o].status = "ACCEPTED" /\ o # None
  BY IdsDiffer DEF Accepted, OffersOf
<1>2. call[w].offer = o
  BY DEF Kept, Claims
<1>3. w \in Workers /\ call[w].pc \notin Resting /\ FromEvent(call[w])
  BY <1>1, <1>2 DEF OnChain, Chain, Deep, Resting
<1>4. {"ACCEPTED", "DECLINED", "EXPIRED"} \subseteq Announced /\ Ended \subseteq OutcomeTopics
  BY DEF Announced, Ended, OutcomeTopics, Outcomes, OfferStatus
<1>5. TopicOf("ACCEPTED") \in Ended
  BY <1>1, <1>2, <1>3, <1>4, EventFacts DEF FromEvent, Records, OutcomesOnce
<1> QED BY <1>4, <1>5, TopicsDiffer DEF Ended

LEMMA RequestOnce ==
  ASSUME TypeInv, NEW r \in Rides, NEW i, NEW j, Request(i, r), Request(j, r)
  PROVE  i = j
BY DEF Request, TypeInv, Rows, RowsRefer

\* The request a handler has in hand is that of its ride.
LEMMA RequestInHand ==
  ASSUME TypeInv, NEW r \in Rides, NEW i, Request(i, r), NEW w \in Workers, call[w].event = i
  PROVE  Ride(w) = r /\ call[w].pc \notin Resting
<1>1. i # 0
  BY DEF Request, TypeInv, Rows, TablesTypeOK
<1>2. call[w].pc \notin Resting
  BY <1>1, CallFits DEF Fit
<1> QED BY <1>2, EventFacts DEF Request

LEMMA RequestBefore ==
  ASSUME Grows, NEW r \in Rides, NEW i \in 1..Len(outbox), Request(i, r)'
  PROVE  Request(i, r)
BY DEF Request, Grows

\* The search begins with a handler, and ends with its event done.
LEMMA QuietUnbegun ==
  ASSUME TypeInv, NEW w \in Workers, Quietly(w), NEW i, i # 0, Unbegun(i)'
  PROVE  \/ Unbegun(i)
         \/ Leave(w) /\ call[w].event = i /\ call[w].pc \notin Entry
<1>1. i \notin done' /\ \A u \in Workers : call'[u].event = i => call'[u].pc \in Entry
  BY DEF Unbegun
<1>2. i \notin done
  BY <1>1 DEF Quietly, Goes, Keeps, Finish, Leave
<1>3. ASSUME NEW u \in Workers, u # w, call[u].event = i PROVE call[u].pc \in Entry
  BY <1>1, <1>3 DEF Quietly, Alone
<1>4. CASE Goes(w) /\ call[w].event = i
  <2>1. call'[w].pc \in Entry
    BY <1>1, <1>4 DEF Goes, Keeps
  <2>2. call[w].pc \in Entry
    BY <2>1, <1>4 DEF Goes, Roads, Entry
  <2> QED BY <1>2, <1>3, <2>2 DEF Unbegun
<1>5. CASE Finish(w) /\ call[w].event = i
  BY <1>1, <1>5 DEF Finish
<1>6. CASE Leave(w) /\ call[w].event = i
  BY <1>2, <1>3, <1>6 DEF Unbegun
<1>7. CASE call[w].event # i
  BY <1>2, <1>3, <1>7 DEF Unbegun
<1> QED BY <1>4, <1>5, <1>6, <1>7 DEF Quietly

LEMMA QuietFresh ==
  ASSUME TypeInv, Records, NEW w \in Workers, Quietly(w), Calm', NoCrash', NEW r \in Rides, ChainInv(r),
         NEW i, Request(i, r), FreshInv(i, r)
  PROVE  FreshInv(i, r)'
<1> SUFFICES ASSUME Unbegun(i)' PROVE Claims(r)' = {}
  BY DEF FreshInv
<1>0. i # 0
  BY DEF Request, TypeInv, Rows, TablesTypeOK
<1>1. CASE Unbegun(i)
  BY <1>1, QuietShrinks, ShrunkClaims DEF FreshInv
<1>2. CASE Leave(w) /\ call[w].event = i /\ call[w].pc \notin Entry
  <2>1. call[w].pc \in Broken
    <3>1. ~Goes(w)
      <4>1. call'[w].event = 0
        BY <1>2, IdleOff DEF Leave
      <4> QED BY <1>0, <1>2, <4>1 DEF Goes, Keeps
    <3>2. Finish(w) => FALSE
      BY <1>2 DEF Finish, Unbegun
    <3> QED BY <3>1, <3>2 DEF Quietly
  <2>2. Ride(w) = r /\ outbox[call[w].event].topic = Requested
    BY <1>2, RequestInHand DEF Request
  <2>3. ~FromEvent(call[w])
    <3>1. "DECLINED" \in OfferStatus /\ "EXPIRED" \in OfferStatus
      BY DEF OfferStatus
    <3> QED BY <2>2, <3>1, Topics1 DEF FromEvent, Ended
  <2>4. call[w].pc \in {"find", "store", "next", "pop", "count", "busy"} /\ call[w].offer = None
    BY <1>2, <2>1, <2>3 DEF Broken, Entry, Records, Origin, Opening
  <2>5. w \in OnChain(r)
    BY <2>2, <2>4 DEF OnChain, Chain, Deep
  <2>6. Waiting(r) = {} /\ active[r] = None /\ OnChain(r) = {w}
    BY <2>4, <2>5, OnlyOwn
  <2>7. w \notin OnChain(r)'
    BY <1>2, IdleOff DEF Leave, OnChain
  <2> QED BY <2>6, <2>7, QuietShrinks, LeftAlone
<1> QED BY <1>0, <1>1, <1>2, QuietUnbegun

LEMMA QuietMayRepeat ==
  ASSUME TypeInv, NEW w \in Workers, Quietly(w), Calm', OnlyCrash', NEW i, i # 0, MayRepeat(i)'
  PROVE  MayRepeat(i)
<1>1. i \notin done
  BY DEF MayRepeat, Quietly, Goes, Keeps, Finish, Leave
<1>2. CASE NoCrash'
  BY <1>1, <1>2, CalmBefore DEF MayRepeat, Quietly
<1>3. CASE ~NoCrash'
  <2>1. Unbegun(i)'
    BY <1>3 DEF MayRepeat
  <2>2. CASE Unbegun(i)
    BY <1>1, <2>2 DEF MayRepeat
  <2>3. CASE Leave(w) /\ call[w].event = i
    <3>1. call'[w].event = 0
      BY <2>3, IdleOff DEF Leave
    <3>2. ~Goes(w) /\ ~Finish(w)
      BY <3>1, <2>1, <2>3 DEF Goes, Keeps, Finish, Unbegun
    <3>3. NoCrash
      BY <3>2 DEF Quietly
    <3> QED BY <1>1, <3>3 DEF MayRepeat
  <2> QED BY <2>1, <2>2, <2>3, QuietUnbegun
<1> QED BY <1>2, <1>3

\* Whoever comes to leave a ride leaves nothing behind.
LEMMA QuietLeaves ==
  ASSUME TypeInv, Records, NEW w \in Workers, Quietly(w), Calm', OnlyCrash', NEW r \in Rides, ChainInv(r),
         Over(r), Ride(w) = r, call'[w].pc \in Leaving \/ Frees(w)
  PROVE  Claims(r)' = {}
<1>1. CASE call[w].pc \in Leaving
  BY <1>1, QuietShrinks, ShrunkClaims DEF Over
<1>2. CASE call[w].pc = "accepted" /\ active'[r] = None
  <2>1. call[w].pc \notin Resting
    BY <1>2 DEF Resting
  <2>2. outbox[call[w].event].topic = TopicOf("ACCEPTED")
    BY <1>2 DEF Records, Origin
  <2>3. "ACCEPTED" \in Outcomes /\ "ACCEPTED" \in OfferStatus /\ "ACCEPTED" \in Announced
    BY DEF Outcomes, OfferStatus, Announced
  <2>4. outbox[call[w].event].topic # Requested
    BY <2>2, <2>3, Topics1
  <2>5. PICK o \in Offers : o = outbox[call[w].event].id /\ offer[o].ride = r
    BY <2>1, <2>4, EventFacts
  <2>6. call[w].event \in 1..Len(outbox)
    BY <2>1, EventFacts
  <2>7. TopicOf(offer[o].status) = TopicOf("ACCEPTED")
    BY <2>2, <2>3, <2>5, <2>6 DEF Records, OutcomesOnce, OutcomeTopics
  <2>8. offer[o].status # "ABSENT"
    <3>1. outbox[call[w].event].topic \in OfferTopics
      BY <2>2, <2>3 DEF OfferTopics
    <3> QED BY <2>5, <2>6, <3>1 DEF TypeInv, Rows, RowsRefer
  <2>9. offer[o].status = "ACCEPTED"
    <3>1. offer[o].status \in OfferStatus
      BY <2>8 DEF TypeInv, Rows, TablesTypeOK, OfferRow
    <3> QED BY <2>3, <2>7, <3>1, TopicsDiffer, AnnouncedStatuses
  <2>10. OnChain(r) = {} /\ Waiting(r) = {}
    BY <2>5, <2>9 DEF Over, OffersOf
  <2>11. OnChain(r)' = {} /\ Waiting(r)' = {}
    BY <2>10, QuietShrinks, ShrunkClaims DEF Shrinks
  <2>12. (OnChain(r) = {} /\ Waiting(r) = {} /\ active[r] = None)'
    BY <1>2, <2>11
  <2> QED BY <2>12 DEF Claims
<1>3. CASE call'[w].pc \in Leaving /\ call[w].pc \notin Leaving
  <2>1. call'[w] # Idle
    BY <1>3, IdleOff
  <2>2. Goes(w)
    BY <2>1 DEF Quietly, Finish, Leave
  <2>3. call[w].pc \in {"find", "pop", "count"} \/ call'[w].pc = "unlock"
    BY <1>3, <2>2 DEF Goes, Roads, Leaving
  <2>4. CASE call'[w].pc = "unlock"
    BY <1>2, <1>3, <2>4 DEF Quietly, Frees
  <2>5. CASE call[w].pc \in {"find", "pop", "count"}
    <3>1. w \in OnChain(r)
      BY <2>5 DEF OnChain, Chain, Deep
    <3>2. call[w].offer = None \/ (call[w].pc \in Deep /\ FromEvent(call[w]))
      BY <2>5 DEF Records, Origin, Opening, Deep
    <3>3. Waiting(r) = {} /\ active[r] = None /\ OnChain(r) = {w}
      BY <3>1, <3>2, OnlyOwn
    <3>4. w \notin OnChain(r)'
      BY <1>3 DEF OnChain, Leaving, Chain, Deep
    <3> QED BY <3>3, <3>4, QuietShrinks, LeftAlone
  <2> QED BY <2>3, <2>4, <2>5
<1> QED BY <1>1, <1>2, <1>3 DEF Frees

LEMMA QuietOver ==
  ASSUME TypeInv, Records, NEW w \in Workers, Quietly(w), Calm', OnlyCrash', NEW r \in Rides, ChainInv(r),
         Over(r)
  PROVE  Over(r)'
<1>1. OnChain(r)' \subseteq OnChain(r) /\ Claims(r)' \subseteq Claims(r)
      /\ Waiting(r)' \subseteq Waiting(r) /\ active'[r] \in {active[r], None}
  BY QuietShrinks, ShrunkClaims DEF Shrinks
<1>2. (r \in lock \/ Claims(r) = {})'
  <2>1. CASE r \in lock /\ r \notin lock'
    BY <2>1, QuietLeaves DEF Quietly
  <2> QED BY <1>1, <2>1 DEF Over
<1>3. ASSUME NEW v \in Workers, call'[v].pc \in Leaving, call'[v].ride = r PROVE Claims(r)' = {}
  <2>1. CASE v # w
    BY <1>1, <1>3, <2>1 DEF Over, Quietly, Alone, Ride
  <2>2. CASE v = w
    <3>1. call'[w] # Idle
      BY <1>3, <2>2, IdleOff
    <3>2. Ride(w) = r
      BY <1>3, <2>2, <3>1 DEF Quietly, Goes, Keeps, Finish, Leave, Ride
    <3> QED BY <1>3, <2>2, <3>2, QuietLeaves
  <2> QED BY <2>1, <2>2
<1>4. ASSUME NEW o \in OffersOf(r)', offer'[o].status = "ACCEPTED"
      PROVE  OnChain(r)' = {} /\ Waiting(r)' = {} /\ active'[r] \in {o, None}
  <2>1. o \in OffersOf(r) /\ offer[o].status = "ACCEPTED"
    BY <1>4 DEF OffersOf, Quietly
  <2> QED BY <1>1, <2>1 DEF Over
<1> QED BY <1>2, <1>3, <1>4 DEF Over, Ride

\* A ride is requested by the event that says so.
LEMMA RequestTold ==
  ASSUME TypeInv, NEW r \in Rides, NEW i, Request(i, r)',
         outbox' = outbox \/ \E s \in Announced \ {"REQUESTED"}, id \in Rides \cup Offers : Announce(s, id)
  PROVE  Request(i, r) /\ i # 0
<1>1. Len(outbox) \in Nat
  BY DEF TypeInv, Rows, TablesTypeOK
<1>2. CASE outbox' = outbox
  BY <1>1, <1>2 DEF Request
<1>3. ASSUME NEW s \in Announced \ {"REQUESTED"}, NEW id \in Rides \cup Offers, Announce(s, id)
      PROVE  Request(i, r) /\ i # 0
  <2>1. OneMore(s, id)
    BY <1>3, AnnounceShape DEF TypeInv, Rows, TablesTypeOK
  <2>2. outbox'[Len(outbox) + 1].topic # Requested
    BY <2>1, Topics1 DEF OneMore
  <2>3. i \in 1..Len(outbox)
    BY <1>1, <2>1, <2>2 DEF OneMore, Request
  <2> QED BY <1>1, <2>1, <2>3 DEF OneMore, Request
<1> QED BY <1>2, <1>3

LEMMA QuietKept ==
  ASSUME TypeInv, Records, NEW w \in Workers, Quietly(w), Firm', NEW r \in Rides, ChainInv(r), Kept(r),
         \A i : Request(i, r)' => Request(i, r) /\ i # 0
  PROVE  Kept(r)'
<1>0. Calm' /\ NoCrash'
  BY DEF Firm, Calm, NoCrash, AtMostOneBut
<1>1. Claims(r)' \subseteq Claims(r) /\ OffersOf(r)' = OffersOf(r) /\ Accepted(r)' = Accepted(r)
  BY QuietShrinks, ShrunkClaims DEF OffersOf, Accepted, Quietly
<1>2. ASSUME NEW v \in Workers, call'[v].pc \in GivingUp, Ride(v)' = r,
             ~(call[v].pc \in GivingUp /\ Ride(v) = r)
      PROVE  Claims(r)' = {} /\ Accepted(r)' = {}
  <2>1. v = w
    BY <1>2 DEF Quietly, Alone, Ride
  <2>2. call'[w] # Idle
    BY <1>2, <2>1, IdleOff DEF GivingUp
  <2>3. Goes(w) /\ Ride(w) = r /\ call[w].pc \notin GivingUp
    BY <1>2, <2>1, <2>2 DEF Quietly, Finish, Leave, Goes, Keeps, Ride
  <2>4. call[w].pc \in {"find", "pop", "count"}
    BY <1>2, <2>1, <2>3 DEF Goes, Roads, GivingUp, Leaving
  <2>5. w \in OnChain(r)
    BY <2>3, <2>4 DEF OnChain, Chain, Deep
  <2>6. call[w].offer = None \/ (call[w].pc \in Deep /\ FromEvent(call[w]))
    BY <2>4 DEF Records, Origin, Opening, Deep
  <2>7. Waiting(r) = {} /\ active[r] = None /\ OnChain(r) = {w}
    BY <2>5, <2>6, OnlyOwn
  <2>8. w \notin OnChain(r)'
    BY <1>2, <2>1 DEF OnChain, GivingUp, Leaving, Chain, Deep
  <2>9. Claims(r)' = {}
    BY <2>7, <2>8, QuietShrinks, LeftAlone
  <2> QED BY <1>1, <2>5, <2>6, <2>9, NoneAccepted
<1>3. ASSUME NEW i, i # 0, Sent(i) PROVE Sent(i)'
  <2>1. CASE i \in done
    BY <2>1 DEF Sent, Quietly, Goes, Keeps, Finish, Leave
  <2>2. ASSUME NEW u \in Workers, call[u].event = i, call[u].pc \in {"sent", "activate", "increment"}
        PROVE  Sent(i)'
    <3>1. CASE u # w
      BY <2>2, <3>1 DEF Sent, Quietly, Alone
    <3>2. CASE u = w /\ Goes(w)
      <4>1. call'[w].pc \in {"sent", "activate", "increment"} /\ call'[w].event = i
        BY <2>2, <3>2 DEF Goes, Keeps, Roads
      <4> QED BY <4>1 DEF Sent
    <3>3. CASE u = w /\ Finish(w)
      BY <2>2, <3>3 DEF Finish, Sent
    <3>4. CASE u = w /\ ~Goes(w) /\ ~Finish(w)
      BY <1>0, <2>2, <3>4 DEF Quietly, Broken
    <3> QED BY <3>1, <3>2, <3>3, <3>4
  <2> QED BY <1>3, <2>1, <2>2 DEF Sent
<1> QED BY <1>1, <1>2, <1>3, KeptStays

LEMMA QuietRide ==
  ASSUME TypeInv, Grows, Records, NEW w \in Workers, Quietly(w), Calm', NEW r \in Rides, RideInv(r)
  PROVE  RideInv(r)'
<1>1. ChainInv(r) /\ ChainInv(r)'
  BY QuietShrinks, ShrinksChain DEF RideInv
<1>3. ASSUME NEW i, Request(i, r)' PROVE Request(i, r) /\ i # 0
  <2>1. outbox' = outbox \/ \E s \in Announced \ {"REQUESTED"}, id \in Rides \cup Offers : Announce(s, id)
    BY AnnouncedStatuses DEF Quietly, Tells
  <2> QED BY <1>3, <2>1, RequestTold
<1>2. ASSUME NEW i, Request(i, r)'
      PROVE  /\ NoCrash' => FreshInv(i, r)'
             /\ OnlyCrash' /\ MayRepeat(i)' => Over(r)'
  <2>2. Request(i, r) /\ i # 0
    BY <1>2, <1>3
  <2>3. (NoCrash' => NoCrash) /\ (OnlyCrash' => OnlyCrash)
    BY CalmBefore DEF Quietly
  <2> QED BY <1>1, <2>2, <2>3, QuietFresh, QuietMayRepeat, QuietOver DEF RideInv
<1>4. Firm' => Kept(r)'
  BY <1>1, <1>3, QuietKept, CalmBefore DEF RideInv, Quietly
<1> QED BY <1>1, <1>2, <1>4 DEF RideInv

(* ----------------------- the records of the offers --------------------- *)

\* What is known of the offers and their events stays true while offers that exist
\* keep their outcome and nobody announces one.
LEMMA OutcomesKept ==
  ASSUME TypeInv, OutcomesOnce,
         outbox' = outbox \/ \E s \in Announced \ Outcomes, id \in Rides \cup Offers : Announce(s, id),
         \A o \in Offers : offer[o].status # "ABSENT" => offer'[o].status = offer[o].status
  PROVE  OutcomesOnce'
<1>0. Len(outbox) \in Nat
  BY DEF TypeInv, Rows, TablesTypeOK
<1>1. ASSUME NEW i \in 1..Len(outbox'), outbox'[i].topic \in OutcomeTopics
      PROVE  i \in 1..Len(outbox) /\ outbox'[i] = outbox[i]
  <2>1. CASE outbox' = outbox
    BY <2>1
  <2>2. ASSUME NEW s \in Announced \ Outcomes, NEW id \in Rides \cup Offers, Announce(s, id)
        PROVE  i \in 1..Len(outbox) /\ outbox'[i] = outbox[i]
    <3>1. OneMore(s, id)
      BY <2>2, AnnounceShape DEF TypeInv, Rows, TablesTypeOK
    <3>2. TopicOf(s) \notin OutcomeTopics
      BY TopicsDiffer, AnnouncedStatuses DEF OutcomeTopics
    <3>3. i # Len(outbox) + 1
      BY <1>1, <3>1, <3>2 DEF OneMore
    <3> QED BY <1>0, <3>1, <3>3 DEF OneMore
  <2> QED BY <2>1, <2>2
<1>2. ASSUME NEW i \in 1..Len(outbox), outbox[i].topic \in OutcomeTopics
      PROVE  offer'[outbox[i].id].status = offer[outbox[i].id].status
  <2>1. outbox[i].topic \in OfferTopics
    BY <1>2 DEF OutcomeTopics, OfferTopics, Outcomes
  <2> QED BY <2>1 DEF TypeInv, Rows, RowsRefer
<1> QED BY <1>1, <1>2 DEF OutcomesOnce

\* An offer that ends was pending, and no event told another outcome of it.
LEMMA OutcomesEnd ==
  ASSUME TypeInv, OutcomesOnce, NEW o \in Offers, NEW s \in Outcomes, OfferSettled(o, s),
         offer[o].status = "PENDING"
  PROVE  OutcomesOnce'
<1> DEFINE n == Len(outbox)
<1>1. OneMore(s, o)
  BY AnnounceShape, AnnouncedStatuses DEF TypeInv, Rows, TablesTypeOK, OfferSettled
<1>2. /\ n \in Nat /\ Len(outbox') = n + 1 /\ \A i \in 1..n : outbox'[i] = outbox[i]
      /\ outbox'[n + 1].topic = TopicOf(s) /\ outbox'[n + 1].id = o
  BY <1>1 DEF OneMore
<1>3. \A i \in 1..Len(outbox') : i \in 1..n \/ i = n + 1
  BY <1>2
<1> HIDE DEF n
<1>4. offer'[o].status = s /\ \A p \in Offers : p # o => offer'[p] = offer[p]
  BY DEF OfferSettled, TypeInv, Rows, TablesTypeOK, OfferRow
<1>5. ASSUME NEW i \in 1..n, outbox[i].topic \in OutcomeTopics
      PROVE  outbox[i].id \in Offers /\ outbox[i].id # o
  <2>1. outbox[i].topic \in OfferTopics
    BY <1>5 DEF OutcomeTopics, OfferTopics, Outcomes
  <2>2. outbox[i].id \in Offers
    BY <2>1 DEF TypeInv, Rows, RowsRefer, n
  <2>3. outbox[i].topic = TopicOf(offer[outbox[i].id].status)
    BY <1>5 DEF OutcomesOnce, n
  <2>4. TopicOf("PENDING") \notin OutcomeTopics
    <3>1. "PENDING" \in Announced /\ "PENDING" \notin Outcomes
      BY AnnouncedStatuses DEF Outcomes
    <3> QED BY <3>1, TopicsDiffer, AnnouncedStatuses DEF OutcomeTopics
  <2> QED BY <1>5, <2>2, <2>3, <2>4
<1>6. ASSUME NEW i \in 1..Len(outbox'), outbox'[i].topic \in OutcomeTopics
      PROVE  outbox'[i].topic = TopicOf(offer'[outbox'[i].id].status)
  <2>1. CASE i \in 1..n
    BY <1>2, <1>4, <1>5, <1>6, <2>1 DEF OutcomesOnce, n
  <2>2. CASE i = n + 1
    BY <1>2, <1>4, <2>2
  <2> QED BY <1>3, <2>1, <2>2
<1>7. ASSUME NEW i \in 1..Len(outbox'), NEW j \in 1..Len(outbox'),
             outbox'[i].topic \in OutcomeTopics, outbox'[j].topic \in OutcomeTopics,
             outbox'[i].id = outbox'[j].id
      PROVE  i = j
  <2>1. \A k, l \in 1..n : outbox[k].topic \in OutcomeTopics /\ outbox[l].topic \in OutcomeTopics
                            /\ outbox[k].id = outbox[l].id => k = l
    BY DEF OutcomesOnce, n
  <2>2. ASSUME i \in 1..n, j = n + 1 PROVE FALSE
    BY <1>2, <1>5, <1>7, <2>2
  <2>3. ASSUME j \in 1..n, i = n + 1 PROVE FALSE
    BY <1>2, <1>5, <1>7, <2>3
  <2> QED BY <1>2, <1>3, <1>7, <2>1, <2>2, <2>3
<1> QED BY <1>6, <1>7 DEF OutcomesOnce

\* Offers that exist keep their ride.
OffersStay == \A o, r : Exists(o, r) => Exists(o, r)'

LEMMA OriginStays ==
  ASSUME TypeInv, Grows, OffersStay, NEW w \in Workers, Origin(call[w]), NEW c, c = call[w]
  PROVE  Origin(c)'
<1>1. c.pc \notin Resting => c.event \in 1..Len(outbox)
  BY CallFits
<1>2. c.pc \in {"active", "has", "lock", "find", "store", "cool", "match", "clear", "next", "pop",
                "count", "busy", "create", "sent", "activate", "accepted"} => outbox'[c.event] = outbox[c.event]
  BY <1>1 DEF Grows, Resting
<1>3. Origin(c)
  OBVIOUS
<1>4. c.pc \in {"sent", "activate"} => Exists(c.offer, c.ride)'
  BY <1>3 DEF Origin, OffersStay
<1>5. c.pc \in {"cool", "match", "clear", "next", "pop", "count", "busy", "create"} =>
        (FromEvent(c) => FromEvent(c)')
  BY <1>2 DEF FromEvent
<1> QED BY <1>2, <1>3, <1>4, <1>5 DEF Origin

LEMMA OthersOrigin ==
  ASSUME TypeInv, Grows, OffersStay, NEW w \in Workers, Alone(w), \A v \in Workers : Origin(call[v]),
         Origin(call[w])'
  PROVE  \A v \in Workers : Origin(call[v])'
<1> SUFFICES ASSUME NEW v \in Workers, v # w PROVE Origin(call[v])'
  OBVIOUS
<1>1. PICK c : c = call[v]
  OBVIOUS
<1>2. Origin(c)' /\ call'[v] = c
  BY <1>1, OriginStays DEF Alone
<1> QED BY <1>2

LEMMA IdleOrigin ==
  ASSUME NEW w, call'[w] = Idle
  PROVE  Origin(call[w])'
<1>1. call'[w].pc = "idle"
  BY IdleOff
<1> QED BY <1>1 DEF Origin, Opening

LEMMA GoneOrigin ==
  ASSUME TypeInv, Grows, OffersStay, NEW w \in Workers, Origin(call[w]), Keeps(w),
         <<call[w].pc, call'[w].pc>> \in Roads \cup {<<"lock", "find">>, <<"match", "clear">>, <<"create", "pop">>}
  PROVE  Origin(call[w])'
<1>1. PICK c : c = call[w]
  OBVIOUS
<1>2. Origin(c)'
  BY <1>1, OriginStays
<1>3. PICK d : d = call'[w]
  OBVIOUS
<1>4. d.event = c.event /\ d.ride = c.ride /\ d.offer = c.offer
      /\ <<c.pc, d.pc>> \in Roads \cup {<<"lock", "find">>, <<"match", "clear">>, <<"create", "pop">>}
  BY <1>1, <1>3 DEF Keeps
<1>5. FromEvent(c)' <=> FromEvent(d)'
  BY <1>4 DEF FromEvent
<1>r. Grows
  OBVIOUS
<1>6. c.pc = "store" => outbox'[c.event].topic = Requested
  <2>1. c.pc = "store" => c.event \in 1..Len(outbox) /\ outbox[c.event].topic = Requested
    BY <1>1, CallFits DEF Fit, Opening, Resting
  <2> QED BY <2>1 DEF Grows
<1>7. /\ d.pc \in Opening => c.pc \in Opening
      /\ d.pc \in {"cool", "match", "clear"} => c.pc \in {"cool", "match"}
      /\ d.pc \in {"next", "pop", "count", "busy", "create"} =>
           c.pc \in {"store", "clear", "next", "pop", "count", "busy", "create"}
      /\ d.pc \in {"sent", "activate"} => c.pc = "sent"
      /\ d.pc # "accepted"
      /\ "store" \in Opening
  BY <1>4 DEF Roads, Opening
<1>8. Origin(d)'
  BY <1>2, <1>4, <1>5, <1>6, <1>7 DEF Origin
<1> QED BY <1>3, <1>8

LEMMA QuietRecords ==
  ASSUME TypeInv, Grows, Records, NEW w \in Workers, Quietly(w)
  PROVE  Records'
<1>1. OffersStay
  BY DEF OffersStay, Exists, Quietly
<1>2. Origin(call[w])'
  BY <1>1, GoneOrigin, IdleOrigin DEF Quietly, Goes, Finish, Leave, Records
<1>3. \A v \in Workers : Origin(call[v])'
  BY <1>1, <1>2, OthersOrigin DEF Quietly, Records
<1>4. OutcomesOnce'
  <2>1. "CANCELLED" \in Announced \ Outcomes
    BY AnnouncedStatuses DEF Outcomes, OfferStatus
  <2> QED BY <2>1, OutcomesKept DEF Quietly, Tells, Records
<1>5. ActiveOK'
  BY <1>1 DEF ActiveOK, OffersStay, Quietly, Records
<1> QED BY <1>3, <1>4, <1>5 DEF Records

LEMMA QuietSequel ==
  ASSUME TypeInv, Grows, SequelInv, NEW w \in Workers, Quietly(w)
  PROVE  SequelInv'
<1>1. Calm' => Calm
  BY CalmBefore DEF Quietly
<1> QED BY <1>1, QuietRecords, QuietRide DEF SequelInv

(* ------------------- the handlers that join the chain ------------------ *)

\* A step that is about another ride.
Elsewhere(w, r) ==
  /\ Alone(w) /\ Ride(w) # r /\ call'[w].ride = Ride(w) /\ call'[w].event = call[w].event /\ done' = done
  /\ incidents' = incidents /\ active'[r] = active[r] /\ (r \in lock => r \in lock')
  /\ \A o \in Offers : offer'[o] = offer[o] \/ (offer[o].status = "ABSENT" /\ offer'[o].ride # r)
  /\ outbox' = outbox \/ \E s \in Announced \ {"REQUESTED"}, id \in Rides \cup Offers : Announce(s, id)

LEMMA SameIncidents ==
  ASSUME incidents' = incidents
  PROVE  Calm' = Calm /\ NoCrash' = NoCrash /\ OnlyCrash' = OnlyCrash /\ Firm' = Firm
BY DEF Calm, AtMostOneBut, NoCrash, OnlyCrash, Firm

LEMMA OtherRide ==
  ASSUME TypeInv, NEW w \in Workers, call[w].pc \notin Resting, NEW r \in Rides, Elsewhere(w, r), RideInv(r)
  PROVE  RideInv(r)'
<1>1. \A v \in Workers : Ride(v)' = r <=> Ride(v) = r
  BY DEF Elsewhere, Ride, Alone
<1>2. \A v \in Workers : Ride(v) = r => call'[v] = call[v]
  BY DEF Elsewhere, Alone
<1>3. \A o \in Offers : offer'[o] = offer[o] \/ (offer[o].status = "ABSENT" /\ offer'[o].ride # r)
  BY DEF Elsewhere
<1>4. Waiting(r)' = Waiting(r) /\ \A o \in OffersOf(r)' : offer'[o].status = "ACCEPTED" =>
        o \in OffersOf(r) /\ offer[o].status = "ACCEPTED"
  BY <1>3 DEF Waiting, OffersOf
<1>5. OnChain(r)' = OnChain(r) /\ \A v \in OnChain(r) : call'[v] = call[v]
  BY <1>1, <1>2 DEF OnChain, Ride
<1>6. Claims(r)' = Claims(r)
  <2>1. Claims(r)' = {call'[v].offer : v \in OnChain(r)'} \cup Waiting(r)' \cup ({active'[r]} \ {None})
    BY DEF Claims
  <2> QED BY <1>4, <1>5, <2>1 DEF Claims, Elsewhere
<1>7. ChainInv(r)'
  BY <1>5, <1>6 DEF ChainInv, RideInv, Elsewhere
<1>8. ASSUME NEW i, Request(i, r)'
      PROVE  /\ NoCrash' => FreshInv(i, r)'
             /\ OnlyCrash' /\ MayRepeat(i)' => Over(r)'
  <2>1. Request(i, r) /\ i # 0
    BY <1>8, RequestTold DEF Elsewhere
  <2>2. call[w].event # i
    BY <2>1, RequestInHand DEF Elsewhere
  <2>3. Unbegun(i)' => Unbegun(i)
    <3> SUFFICES ASSUME Unbegun(i)', NEW u \in Workers, call[u].event = i PROVE call[u].pc \in Entry
      BY DEF Unbegun, Elsewhere
    <3>1. call'[u] = call[u]
      BY <2>2 DEF Elsewhere, Alone
    <3> QED BY <3>1 DEF Unbegun
  <2>4. MayRepeat(i)' => MayRepeat(i)
    BY <2>3, SameIncidents DEF MayRepeat, Elsewhere
  <2>5. Over(r) => Over(r)'
    <3> SUFFICES ASSUME Over(r) PROVE Over(r)'
      OBVIOUS
    <3>1. (r \in lock \/ Claims(r) = {})'
      BY <1>6 DEF Over, Elsewhere
    <3>2. ASSUME NEW v \in Workers, call'[v].pc \in Leaving, Ride(v)' = r PROVE Claims(r)' = {}
      BY <1>1, <1>2, <1>6, <3>2 DEF Over
    <3>3. ASSUME NEW o \in OffersOf(r)', offer'[o].status = "ACCEPTED"
          PROVE  OnChain(r)' = {} /\ Waiting(r)' = {} /\ active'[r] \in {o, None}
      BY <1>4, <1>5, <3>3 DEF Over, Elsewhere
    <3> QED BY <3>1, <3>2, <3>3 DEF Over
  <2> QED BY <1>6, <2>1, <2>3, <2>4, <2>5, SameIncidents DEF RideInv, FreshInv, Elsewhere
<1>9. ASSUME Firm' PROVE Kept(r)'
  <2>1. Kept(r) /\ ChainInv(r)
    BY <1>9, SameIncidents DEF RideInv, Elsewhere
  <2>2. OffersOf(r)' \subseteq OffersOf(r) /\ Accepted(r)' \subseteq Accepted(r)
    BY <1>3 DEF OffersOf, Accepted
  <2>3. ASSUME NEW i, Request(i, r)' PROVE Request(i, r) /\ (Sent(i) => Sent(i)')
    <3>1. Request(i, r) /\ i # 0
      BY <2>3, RequestTold DEF Elsewhere
    <3>2. call[w].event # i
      BY <3>1, RequestInHand DEF Elsewhere
    <3>3. Sent(i) => Sent(i)'
      BY <3>2 DEF Sent, Elsewhere, Alone
    <3> QED BY <3>1, <3>3
  <2>4. \A v \in Workers : call'[v].pc \in GivingUp /\ Ride(v)' = r => call[v].pc \in GivingUp /\ Ride(v) = r
    BY <1>1, <1>2
  <2> QED BY <1>6, <2>1, <2>2, <2>3, <2>4, KeptStays
<1> QED BY <1>7, <1>8, <1>9 DEF RideInv

\* The ride that the step is about, when something was claimed before.
LEMMA ClaimedRide ==
  ASSUME TypeInv, NEW w \in Workers, Alone(w), NEW r \in Rides, RideInv(r), Claims(r) # {},
         call'[w].event = call[w].event, call'[w].pc \notin Entry \cup Leaving,
         UNCHANGED <<done, lock, incidents>>,
         outbox' = outbox \/ \E s \in Announced \ {"REQUESTED"}, id \in Rides \cup Offers : Announce(s, id),
         ChainInv(r)',
         Over(r) => \A o \in Offers : ~(offer'[o].ride = r /\ offer'[o].status = "ACCEPTED"),
         Firm /\ Kept(r) => Kept(r)'
  PROVE  RideInv(r)'
<1>1. ASSUME NEW i, Request(i, r)'
      PROVE  /\ NoCrash' => FreshInv(i, r)'
             /\ OnlyCrash' /\ MayRepeat(i)' => Over(r)'
  <2>1. Request(i, r) /\ i # 0
    BY <1>1, RequestTold
  <2>2. Unbegun(i)' => Unbegun(i)
    <3> SUFFICES ASSUME Unbegun(i)', NEW u \in Workers, call[u].event = i PROVE call[u].pc \in Entry
      BY DEF Unbegun
    <3>1. CASE u # w
      BY <3>1 DEF Alone, Unbegun
    <3>2. CASE u = w
      BY <3>2 DEF Unbegun
    <3> QED BY <3>1, <3>2
  <2>3. MayRepeat(i)' => MayRepeat(i)
    BY <2>2, SameIncidents DEF MayRepeat
  <2>4. Over(r) => Over(r)'
    <3> SUFFICES ASSUME Over(r) PROVE Over(r)'
      OBVIOUS
    <3>1. \A v \in Workers : ~(call[v].pc \in Leaving /\ Ride(v) = r)
      BY DEF Over
    <3>2. \A v \in Workers : ~(call'[v].pc \in Leaving /\ Ride(v)' = r)
      <4> SUFFICES ASSUME NEW v \in Workers, call'[v].pc \in Leaving, Ride(v)' = r PROVE FALSE
        OBVIOUS
      <4>1. call'[v] = call[v]
        BY DEF Alone
      <4> QED BY <3>1, <4>1 DEF Ride
    <3>3. r \in lock'
      BY DEF Over
    <3> QED BY <3>2, <3>3 DEF Over, OffersOf
  <2> QED BY <2>1, <2>2, <2>3, <2>4, SameIncidents DEF RideInv, FreshInv
<1>2. Firm' => Kept(r)'
  BY SameIncidents DEF RideInv
<1> QED BY <1>1, <1>2 DEF RideInv

\* It is kept when nothing more is claimed of it.
LEMMA ClaimedKept ==
  ASSUME NEW w \in Workers, Alone(w), NEW r \in Rides, ChainInv(r), Kept(r),
         UNCHANGED <<offer, outbox, done>>, Claims(r)' \subseteq Claims(r),
         call'[w].event = call[w].event, call'[w].pc \notin Entry \cup Leaving,
         call[w].pc \in {"sent", "activate"} => call'[w].pc \in {"activate", "increment"}, call[w].pc # "increment"
  PROVE  Kept(r)'
<1>1. OffersOf(r)' = OffersOf(r) /\ Accepted(r)' = Accepted(r)
  BY DEF OffersOf, Accepted
<1>2. \A v \in Workers : call'[v].pc \in GivingUp /\ Ride(v)' = r => call[v].pc \in GivingUp /\ Ride(v) = r
  BY DEF GivingUp, Alone, Ride
<1>3. \A i : Sent(i) => Sent(i)'
  BY DEF Sent, Alone
<1>4. \A i : Request(i, r)' => Request(i, r)
  BY DEF Request
<1> QED BY <1>1, <1>2, <1>3, <1>4, KeptStays

LEMMA WentTo ==
  ASSUME TypeInv, NEW w \in Workers, NEW pc, Go(w, pc)
  PROVE  /\ Alone(w) /\ call'[w].pc = pc /\ call'[w].event = call[w].event
         /\ call'[w].ride = call[w].ride /\ call'[w].offer = call[w].offer
<1>1. call[w] \in Call
  BY CallFits
<1>2. call'[w] = [call[w] EXCEPT !.pc = pc]
  BY DEF TypeInv, Hands, Go
<1> QED BY <1>1, <1>2 DEF Call, Go, Alone, TypeInv, Hands

LEMMA GoneRecords ==
  ASSUME TypeInv, Grows, Records, NEW w \in Workers, Alone(w), Keeps(w), UNCHANGED <<offer, outbox>>,
         <<call[w].pc, call'[w].pc>> \in Roads \cup {<<"lock", "find">>, <<"match", "clear">>, <<"create", "pop">>},
         \A r \in Rides : active'[r] = active[r] \/ Exists(active'[r], r)
  PROVE  Records'
<1>1. OffersStay
  BY DEF OffersStay, Exists
<1>2. \A v \in Workers : Origin(call[v])'
  BY <1>1, GoneOrigin, OthersOrigin DEF Records
<1>3. OutcomesOnce'
  BY OutcomesKept DEF Records
<1>4. ActiveOK'
  BY <1>1 DEF ActiveOK, OffersStay, Records
<1> QED BY <1>2, <1>3, <1>4 DEF Records

\* The request that is in one hand, before its search, has nothing claimed yet.
LEMMA NothingYet ==
  ASSUME TypeInv, SearchInv, SequelInv, Calm, NEW w \in Workers, call[w].pc = "lock", Ride(w) \notin lock
  PROVE  /\ Request(call[w].event, Ride(w)) /\ Ride(w) \in Rides /\ call[w].event # 0
         /\ Claims(Ride(w)) = {}
<1>1. call[w].pc \notin Resting /\ outbox[call[w].event].topic = Requested
  BY CallFits DEF Fit, Resting, Opening
<1>2. Request(call[w].event, Ride(w)) /\ Ride(w) \in Rides /\ call[w].event # 0
  BY <1>1, EventFacts DEF Request
<1>3. OneHand
  BY CalmHands
<1>4. Unbegun(call[w].event)
  BY <1>2, <1>3 DEF Unbegun, OneHand, SameEvent, Entry
<1>5. RideInv(Ride(w))
  BY <1>2 DEF SequelInv
<1>6. CASE NoCrash
  BY <1>2, <1>4, <1>5, <1>6 DEF RideInv, FreshInv
<1>7. CASE ~NoCrash
  <2>1. OnlyCrash /\ MayRepeat(call[w].event)
    BY <1>4, <1>7, CrashAlone DEF MayRepeat, Unbegun, TypeInv
  <2> QED BY <1>2, <1>5, <2>1 DEF RideInv, Over
<1> QED BY <1>2, <1>6, <1>7

LEMMA BeginOver ==
  ASSUME TypeInv, OneHand, NEW w \in Workers, call[w].pc = "lock", NEW r \in Rides,
         Request(call[w].event, r), OffersFollow \/ Kept(r)
  PROVE  /\ \A o \in Offers : offer[o].ride # r
         /\ \A v \in Workers : call[v].pc \in Leaving => Ride(v) # r
<1> DEFINE i == call[w].event
<1>1. i \in 1..Len(outbox) /\ outbox[i].topic = Requested /\ outbox[i].id = r /\ i # 0
  <2>1. call[w].pc \notin Resting
    BY DEF Resting
  <2> QED BY <2>1, EventFacts DEF Request
<1>2. ~Opened(i)
  BY <1>1 DEF OneHand, Opened, SameEvent, Opening
<1>3. \A o \in Offers : offer[o].ride # r
  <2>1. ~Sent(i)
    BY <1>1 DEF OneHand, Sent, SameEvent
  <2>2. Kept(r) => OffersOf(r) = {}
    BY <2>1 DEF Kept
  <2> QED BY <1>1, <1>2, <2>2 DEF OffersFollow, OffersOf
<1>4. ASSUME NEW v \in Workers, call[v].pc \in Leaving, Ride(v) = r PROVE FALSE
  <2>1. call[v].pc \notin Resting /\ v # w
    BY <1>4 DEF Leaving, Resting
  <2>2. CASE outbox[call[v].event].topic = Requested
    <3>1. Request(call[v].event, r)
      BY <1>4, <2>1, <2>2, EventFacts DEF Request
    <3>2. call[v].event = i
      BY <3>1, RequestOnce
    <3> QED BY <1>1, <2>1, <3>2 DEF OneHand, SameEvent
  <2>3. CASE outbox[call[v].event].topic # Requested
    BY <1>3, <1>4, <2>1, <2>3, EventFacts
  <2> QED BY <2>2, <2>3
<1> QED BY <1>3, <1>4

\* A search begins for a ride for which nothing is under way.
LEMMA BeginSequel ==
  ASSUME TypeInv, Grows, SearchInv, SequelInv, NEW w \in Workers, AcquireRideLock(w), Ride(w) \notin lock
  PROVE  SequelInv'
<1>q. PICK q : q = Ride(w)
  OBVIOUS
<1>i. PICK i : i = call[w].event
  OBVIOUS
<1>1. call[w].pc = "lock" /\ Go(w, "find") /\ lock' = lock \cup {q}
      /\ UNCHANGED <<ride, offer, outbox, active, done, incidents>>
  BY <1>q DEF AcquireRideLock, At, Stop, tables
<1>2. /\ Alone(w) /\ call'[w].pc = "find" /\ call'[w].event = i
      /\ call'[w].ride = q /\ call'[w].offer = call[w].offer
  BY <1>q, <1>i, <1>1, WentTo DEF Ride
<1>3. Records'
  BY <1>q, <1>i, <1>1, <1>2, GoneRecords DEF Keeps, SequelInv, Ride
<1> SUFFICES ASSUME Calm', NEW r \in Rides PROVE RideInv(r)'
  BY <1>3 DEF SequelInv
<1>4. Calm /\ Calm' = Calm /\ NoCrash' = NoCrash /\ OnlyCrash' = OnlyCrash
  BY <1>1, SameIncidents
<1>5. Request(i, q) /\ q \in Rides /\ i # 0 /\ Claims(q) = {}
  BY <1>q, <1>i, <1>1, <1>4, NothingYet
<1>6. CASE r # q
  <2>1. Elsewhere(w, r)
    BY <1>q, <1>i, <1>1, <1>2, <1>6 DEF Elsewhere
  <2>2. call[w].pc \notin Resting
    BY <1>1 DEF Resting
  <2> QED BY <1>4, <2>1, <2>2, OtherRide DEF SequelInv
<1>7. CASE r = q
  <2>1. OnChain(q) = {} /\ Waiting(q) = {} /\ active[q] = None
    BY <1>5, NothingClaimed
  <2>2. \A v \in Workers : v \in OnChain(q)' => v = w
    <3>1. \A v \in Workers : v # w /\ v \in OnChain(q)' => v \in OnChain(q)
      BY <1>2 DEF OnChain, Alone, Ride
    <3> QED BY <2>1, <3>1
  <2>3. OnChain(q)' \subseteq {w}
    BY <2>2 DEF OnChain
  <2>4. Waiting(q)' = {} /\ active'[q] = None
    BY <1>1, <2>1 DEF Waiting, OffersOf
  <2>5. Claims(q)' = {call'[v].offer : v \in OnChain(q)'} \cup Waiting(q)' \cup ({active'[q]} \ {None})
    BY DEF Claims
  <2>6. Claims(q)' \subseteq {call'[w].offer}
    BY <2>3, <2>4, <2>5
  <2>7. ChainInv(q)'
    BY <2>3, <2>4, <2>6 DEF ChainInv
  <2>8. ASSUME NEW j, Request(j, q)'
        PROVE  /\ NoCrash' => FreshInv(j, q)'
               /\ OnlyCrash' /\ MayRepeat(j)' => Over(q)'
    <3>1. Request(j, q)
      BY <1>1, <2>8 DEF Request
    <3>2. j = i
      BY <1>5, <3>1, RequestOnce
    <3>3. ~Unbegun(j)'
      <4>1. call'[w].event = j /\ call'[w].pc \notin Entry
        BY <1>2, <3>2 DEF Entry
      <4> QED BY <4>1 DEF Unbegun
    <3>4. ASSUME OnlyCrash', MayRepeat(j)' PROVE Over(q)'
      <4>1. OneHand /\ OffersFollow
        BY <1>4, <3>3, <3>4, CalmHands DEF MayRepeat
      <4>2. (\A o \in Offers : offer[o].ride # q) /\ \A v \in Workers : call[v].pc \in Leaving => Ride(v) # q
        BY <1>1, <1>5, <4>1, <1>i, BeginOver
      <4>3. \A v \in Workers : call'[v].pc \in Leaving => v # w
        BY <1>2 DEF Leaving
      <4>4. \A v \in Workers : ~(call'[v].pc \in Leaving /\ Ride(v)' = q)
        BY <1>2, <4>2, <4>3 DEF Alone, Ride
      <4>5. \A o \in OffersOf(q)' : FALSE
        BY <1>1, <4>2 DEF OffersOf
      <4>6. q \in lock'
        BY <1>1
      <4> QED BY <4>4, <4>5, <4>6 DEF Over
    <3> QED BY <3>3, <3>4 DEF FreshInv
  <2>9. ASSUME Firm' PROVE Kept(q)'
    <3>1. OneHand /\ Kept(q)
      BY <1>1, <1>4, <1>7, <2>9, SameIncidents, CalmHands DEF SequelInv, RideInv
    <3>2. (\A o \in Offers : offer[o].ride # q) /\ \A v \in Workers : call[v].pc \in Leaving => Ride(v) # q
      BY <1>1, <1>5, <3>1, <1>i, BeginOver
    <3>3. \A v \in Workers : call'[v].pc \in Leaving => v # w
      BY <1>2 DEF Leaving
    <3>4. \A v \in Workers : ~(call'[v].pc \in GivingUp /\ Ride(v)' = q)
      BY <1>2, <3>2, <3>3 DEF Alone, Ride, GivingUp
    <3>5. OffersOf(q)' = {} /\ Accepted(q)' = {}
      BY <1>1, <3>2 DEF OffersOf, Accepted
    <3> QED BY <3>4, <3>5 DEF Kept
  <2> QED BY <1>7, <2>7, <2>8, <2>9 DEF RideInv
<1> QED BY <1>6, <1>7

\* The outcome of the active offer is followed by one handler, and nothing else is
\* under way.
LEMMA FollowAlone ==
  ASSUME TypeInv, Records, OneHand, NEW w \in Workers, call[w].pc = "match", NEW r \in Rides, ChainInv(r),
         active[r] = call[w].offer
  PROVE  OnChain(r) = {}
<1> SUFFICES ASSUME NEW v \in OnChain(r) PROVE FALSE
  OBVIOUS
<1>1. v \in Workers /\ call[v].pc \in Chain
  BY DEF OnChain
<1>2. call[w].pc \notin Resting /\ call[v].pc \notin Resting /\ v # w
  BY <1>1 DEF Chain, Deep, Resting
<1>3. call[w].offer \in Offers /\ FromEvent(call[w])
  BY CallFits DEF Fit, Records, Origin
<1>4. active[r] # None
  BY <1>3, IdsDiffer
<1>5. call[v].offer = call[w].offer
  <2>1. call[v].offer \in Claims(r) /\ active[r] \in Claims(r)
    BY <1>4 DEF Claims
  <2> QED BY <2>1 DEF ChainInv
<1>6. call[v].pc \in {"find", "store", "clear", "next"}
  BY <1>1, <1>4 DEF ChainInv, Chain
<1>7. FromEvent(call[v])
  <2>1. call[v].offer # None
    BY <1>4, <1>5
  <2> QED BY <1>1, <1>6, <2>1 DEF Records, Origin, Opening
<1>8. Ended \subseteq OutcomeTopics
  BY DEF Ended, OutcomeTopics, Outcomes, OfferStatus
<1>9. call[v].event = call[w].event
  BY <1>1, <1>2, <1>3, <1>5, <1>7, <1>8, EventFacts DEF FromEvent, Records, OutcomesOnce
<1> QED BY <1>1, <1>2, <1>9, EventFacts DEF OneHand, SameEvent

LEMMA NotAccepted ==
  ASSUME TypeInv, Records, NEW w \in Workers, call[w].pc = "match"
  PROVE  call[w].offer \in Offers /\ offer[call[w].offer].status # "ACCEPTED"
<1>1. call[w].pc \notin Resting
  BY DEF Resting
<1>2. FromEvent(call[w]) /\ call[w].offer \in Offers
  BY CallFits DEF Fit, Records, Origin
<1>3. Ended \subseteq OutcomeTopics
  BY DEF Ended, OutcomeTopics, Outcomes, OfferStatus
<1>4. TopicOf(offer[call[w].offer].status) \in Ended
  BY <1>1, <1>2, <1>3, EventFacts DEF FromEvent, Records, OutcomesOnce
<1>5. {"ACCEPTED", "DECLINED", "EXPIRED"} \subseteq Announced
  BY DEF Announced, OfferStatus
<1> QED BY <1>2, <1>4, <1>5, TopicsDiffer DEF Ended

LEMMA FollowSequel ==
  ASSUME TypeInv, Grows, SearchInv, SequelInv, NEW w \in Workers, MatchActive(w),
         active[Ride(w)] = call[w].offer
  PROVE  SequelInv'
<1>q. PICK q : q = Ride(w)
  OBVIOUS
<1>1. call[w].pc = "match" /\ Go(w, "clear") /\ call[w].pc \notin Resting
      /\ UNCHANGED <<ride, offer, outbox, active, lock, done, incidents>>
  BY DEF MatchActive, At, Stop, tables, redis, Resting
<1>2. /\ Alone(w) /\ call'[w].pc = "clear" /\ call'[w].event = call[w].event
      /\ call'[w].ride = q /\ call'[w].offer = call[w].offer
  BY <1>q, <1>1, WentTo DEF Ride
<1>3. Records'
  BY <1>q, <1>1, <1>2, GoneRecords DEF Keeps, SequelInv, Ride
<1> SUFFICES ASSUME Calm', NEW r \in Rides PROVE RideInv(r)'
  BY <1>3 DEF SequelInv
<1>4. Calm /\ RideInv(r)
  BY <1>1, SameIncidents DEF SequelInv
<1>5. CASE r # q
  <2>1. Elsewhere(w, r)
    BY <1>q, <1>1, <1>2, <1>5 DEF Elsewhere, Ride
  <2> QED BY <1>1, <1>4, <2>1, OtherRide
<1>6. CASE r = q
  <2>1. OnChain(r) = {}
    BY <1>q, <1>1, <1>4, <1>6, CalmHands, FollowAlone DEF RideInv, SequelInv
  <2>2. call[w].offer \in Offers /\ offer[call[w].offer].status # "ACCEPTED" /\ call[w].offer # None
    BY <1>1, NotAccepted, IdsDiffer DEF SequelInv
  <2>3. active[r] = call[w].offer /\ active[r] \in Claims(r)
    BY <1>q, <1>6, <2>2 DEF Claims
  <2>4. OnChain(r)' \subseteq {w}
    <3>1. ASSUME NEW v \in OnChain(r)', v # w PROVE FALSE
      BY <1>2, <2>1, <3>1 DEF OnChain, Alone, Ride
    <3> QED BY <3>1
  <2>5. Claims(r)' \subseteq Claims(r)
    <3>1. Waiting(r)' = Waiting(r) /\ active'[r] = active[r]
      BY <1>1 DEF Waiting, OffersOf
    <3>2. \A v \in OnChain(r)' : call'[v].offer = active[r]
      BY <1>2, <2>3, <2>4
    <3>3. Claims(r)' = {call'[v].offer : v \in OnChain(r)'} \cup Waiting(r)' \cup ({active'[r]} \ {None})
      BY DEF Claims
    <3> QED BY <2>3, <3>1, <3>2, <3>3 DEF Claims
  <2>6. ChainInv(r)'
    <3>1. \A v \in OnChain(r)' : call'[v].pc \notin Deep
      BY <1>2, <2>4 DEF Deep
    <3>2. \A x, y \in Claims(r) : x = y
      BY <1>4 DEF RideInv, ChainInv
    <3> QED BY <2>4, <2>5, <3>1, <3>2 DEF ChainInv
  <2>7. Over(r) => \A o \in Offers : ~(offer'[o].ride = r /\ offer'[o].status = "ACCEPTED")
    BY <1>1, <2>2, <2>3 DEF Over, OffersOf
  <2>8. call'[w].pc \notin Entry \cup Leaving
    BY <1>2 DEF Entry, Leaving
  <2>9. Claims(r) # {}
    BY <2>3
  <2>10. Kept(r) => Kept(r)'
    BY <1>1, <1>2, <1>4, <2>5, <2>8, ClaimedKept DEF RideInv
  <2> QED BY <1>1, <1>2, <1>4, <2>6, <2>7, <2>8, <2>9, <2>10, ClaimedRide
<1> QED BY <1>5, <1>6

\* The offer that was made becomes the active one.
LEMMA SetActiveSequel ==
  ASSUME TypeInv, Grows, SequelInv, NEW w \in Workers, SetActive(w)
  PROVE  SequelInv'
<1>q. PICK q : q = Ride(w)
  OBVIOUS
<1>1. call[w].pc = "activate" /\ Go(w, "increment") /\ call[w].pc \notin Resting
      /\ UNCHANGED <<ride, offer, outbox, lock, done, incidents>>
  BY DEF SetActive, At, tables, Resting
<1>2. /\ Alone(w) /\ call'[w].pc = "increment" /\ call'[w].event = call[w].event
      /\ call'[w].ride = q /\ call'[w].offer = call[w].offer
  BY <1>q, <1>1, WentTo DEF Ride
<1>a. Exists(call[w].offer, q) /\ q \in Rides
  BY <1>q, <1>1, EventFacts DEF SequelInv, Records, Origin, Ride
<1>b. active'[q] = call[w].offer /\ \A r \in Rides : r # q => active'[r] = active[r]
  BY <1>q, <1>a DEF SetActive, TypeInv, KeysOK
<1>3. Records'
  <2>1. <<call[w].pc, call'[w].pc>> \in Roads /\ Keeps(w)
    BY <1>q, <1>1, <1>2 DEF Roads, Keeps, Ride
  <2>2. \A r \in Rides : active'[r] = active[r] \/ Exists(active'[r], r)
    BY <1>a, <1>b
  <2> QED BY <1>1, <1>2, <2>1, <2>2, GoneRecords DEF SequelInv
<1> SUFFICES ASSUME Calm', NEW r \in Rides PROVE RideInv(r)'
  BY <1>3 DEF SequelInv
<1>4. RideInv(r)
  BY <1>1, SameIncidents DEF SequelInv
<1>5. CASE r # q
  <2>1. Elsewhere(w, r)
    BY <1>q, <1>1, <1>2, <1>b, <1>5 DEF Elsewhere, Ride
  <2> QED BY <1>1, <1>4, <2>1, OtherRide
<1>6. CASE r = q
  <2>1. w \in OnChain(r) /\ call[w].offer \in Claims(r)
    BY <1>q, <1>1, <1>6 DEF OnChain, Claims, Chain, Deep
  <2>2. OnChain(r)' = {}
    <3> SUFFICES ASSUME NEW v \in OnChain(r)' PROVE FALSE
      OBVIOUS
    <3>1. v # w /\ v \in Workers
      BY <1>2 DEF OnChain, Chain, Deep
    <3>2. v \in OnChain(r)
      BY <1>2, <3>1 DEF OnChain, Alone, Ride
    <3> QED BY <1>4, <2>1, <3>1, <3>2 DEF RideInv, ChainInv
  <2>3. Claims(r)' \subseteq {call[w].offer}
    <3>1. Waiting(r)' = Waiting(r)
      BY <1>1 DEF Waiting, OffersOf
    <3>2. Waiting(r) \subseteq {call[w].offer}
      BY <1>4, <2>1 DEF RideInv, ChainInv, Claims
    <3>3. Claims(r)' = {call'[v].offer : v \in OnChain(r)'} \cup Waiting(r)' \cup ({active'[r]} \ {None})
      BY DEF Claims
    <3> QED BY <1>6, <1>b, <2>2, <3>1, <3>2, <3>3
  <2>4. ChainInv(r)'
    BY <2>2, <2>3 DEF ChainInv
  <2>5. Over(r) => \A o \in Offers : ~(offer'[o].ride = r /\ offer'[o].status = "ACCEPTED")
    BY <1>1, <2>1 DEF Over, OffersOf
  <2>6. call'[w].pc \notin Entry \cup Leaving
    BY <1>2 DEF Entry, Leaving
  <2>7. Claims(r) # {}
    BY <2>1
  <2>8. Kept(r) => Kept(r)'
    BY <1>1, <1>2, <1>4, <2>1, <2>3, <2>6, ClaimedKept DEF RideInv
  <2> QED BY <1>1, <1>2, <1>4, <2>4, <2>5, <2>6, <2>7, <2>8, ClaimedRide
<1> QED BY <1>5, <1>6

\* What a new offer does to the rows and the records.
LEMMA CreatedRecords ==
  ASSUME TypeInv, Grows, Records, NEW w \in Workers, NEW o \in Offers, NEW r, NEW d, OfferCreated(o, r, d),
         Alone(w), active' = active, OffersStay => Origin(call[w])'
  PROVE  Records'
<1>1. /\ offer[o].status = "ABSENT" /\ offer' = [offer EXCEPT ![o] = [status |-> "PENDING", ride |-> r, driver |-> d]]
      /\ Announce("PENDING", o) /\ offer \in [Offers -> OfferRow]
  BY DEF OfferCreated, TypeInv, Rows, TablesTypeOK
<1>2. \A p \in Offers : offer[p].status # "ABSENT" => offer'[p] = offer[p]
  BY <1>1
<1>3. OffersStay
  BY <1>2 DEF OffersStay, Exists
<1>4. \A v \in Workers : Origin(call[v])'
  BY <1>3, OthersOrigin DEF Records
<1>5. OutcomesOnce'
  <2>1. "PENDING" \in Announced \ Outcomes
    BY AnnouncedStatuses DEF Outcomes
  <2> QED BY <1>1, <1>2, <2>1, OutcomesKept DEF Records
<1>6. ActiveOK'
  BY <1>3 DEF ActiveOK, OffersStay, Records
<1> QED BY <1>4, <1>5, <1>6 DEF Records

\* A new offer is all that is claimed of its ride.
LEMMA CreateSequel ==
  ASSUME TypeInv, Grows, SequelInv, NEW w \in Workers, CreateOffer(w)
  PROVE  SequelInv'
<1>q. PICK q : q = Ride(w)
  OBVIOUS
<1>0. call[w].pc = "create" /\ call[w].pc \notin Resting /\ call[w] \in Call /\ call \in [Workers -> Call]
      /\ UNCHANGED <<active, lock, done, incidents>>
  BY CallFits DEF CreateOffer, At, redis, Resting, TypeInv, Hands
<1>1. PICK o \in Offers : OfferCreated(o, q, call[w].driver)
                          /\ call' = [call EXCEPT ![w].pc = "sent", ![w].offer = o]
  BY <1>q DEF CreateOffer, NewOffer
<1>2. /\ Alone(w) /\ call'[w].pc = "sent" /\ call'[w].event = call[w].event
      /\ call'[w].ride = q /\ call'[w].offer = o
  <2>1. call'[w] = [call[w] EXCEPT !.pc = "sent", !.offer = o]
    BY <1>0, <1>1
  <2> QED BY <1>q, <1>0, <1>1, <2>1 DEF Call, Alone, Ride
<1>3. offer[o].status = "ABSENT" /\ Announce("PENDING", o)
      /\ offer' = [offer EXCEPT ![o] = [status |-> "PENDING", ride |-> q, driver |-> call[w].driver]]
      /\ offer \in [Offers -> OfferRow]
  BY <1>1 DEF OfferCreated, TypeInv, Rows, TablesTypeOK
<1>a. offer'[o].status = "PENDING" /\ offer'[o].ride = q /\ \A p \in Offers : p # o => offer'[p] = offer[p]
  BY <1>3
<1>b. q \in Rides
  BY <1>q, <1>0, EventFacts
<1>4. Records'
  <2>1. Origin(call[w])'
    BY <1>2, <1>a DEF Origin, Opening, Exists
  <2> QED BY <1>0, <1>1, <1>2, <2>1, CreatedRecords DEF SequelInv
<1> SUFFICES ASSUME Calm', NEW r \in Rides PROVE RideInv(r)'
  BY <1>4 DEF SequelInv
<1>5. RideInv(r)
  BY <1>0, SameIncidents DEF SequelInv
<1>6. outbox' = outbox \/ \E s \in Announced \ {"REQUESTED"}, id \in Rides \cup Offers : Announce(s, id)
  BY <1>3, AnnouncedStatuses
<1>7. CASE r # q
  <2>1. Elsewhere(w, r)
    BY <1>q, <1>0, <1>2, <1>3, <1>a, <1>6, <1>7 DEF Elsewhere, Ride
  <2> QED BY <1>0, <1>5, <2>1, OtherRide
<1>8. CASE r = q
  <2>1. w \in OnChain(r) /\ call[w].offer \in Claims(r)
    BY <1>q, <1>0, <1>8 DEF OnChain, Claims, Chain, Deep
  <2>2. call[w].offer = None \/ (call[w].pc \in Deep /\ FromEvent(call[w]))
    BY <1>0 DEF SequelInv, Records, Origin, Deep
  <2>3. Waiting(r) = {} /\ active[r] = None /\ OnChain(r) = {w}
    BY <1>5, <2>1, <2>2, OnlyOwn DEF SequelInv, RideInv
  <2>4. OnChain(r)' \subseteq {w}
    <3>1. ASSUME NEW v \in OnChain(r)', v # w PROVE FALSE
      <4>1. v \in OnChain(r)
        BY <1>2, <3>1 DEF OnChain, Alone, Ride
      <4> QED BY <2>3, <3>1, <4>1
    <3> QED BY <3>1
  <2>5. Waiting(r)' \subseteq {o}
    <3>1. ASSUME NEW p \in Waiting(r)', p # o PROVE FALSE
      <4>1. p \in Waiting(r)
        BY <1>a, <3>1 DEF Waiting, OffersOf
      <4> QED BY <2>3, <4>1
    <3> QED BY <3>1
  <2>6. Claims(r)' \subseteq {o}
    <3>1. Claims(r)' = {call'[v].offer : v \in OnChain(r)'} \cup Waiting(r)' \cup ({active'[r]} \ {None})
      BY DEF Claims
    <3> QED BY <1>0, <1>2, <2>3, <2>4, <2>5, <3>1
  <2>7. ChainInv(r)'
    BY <1>0, <2>3, <2>4, <2>6 DEF ChainInv
  <2>8. Over(r) => \A p \in Offers : ~(offer'[p].ride = r /\ offer'[p].status = "ACCEPTED")
    BY <1>a, <2>1 DEF Over, OffersOf
  <2>9. call'[w].pc \notin Entry \cup Leaving
    BY <1>2 DEF Entry, Leaving
  <2>10. Claims(r) # {}
    BY <2>1
  <2>11. ASSUME Kept(r) PROVE Kept(r)'
    <3>1. Accepted(r)' = {}
      <4>1. Accepted(r) = {}
        BY <2>1, <2>2, <2>11, NoneAccepted DEF SequelInv
      <4> QED BY <1>a, <4>1 DEF Accepted, OffersOf
    <3>2. \A v \in Workers : ~(call'[v].pc \in GivingUp /\ Ride(v)' = r)
      <4> SUFFICES ASSUME NEW v \in Workers, call'[v].pc \in GivingUp, Ride(v)' = r PROVE FALSE
        OBVIOUS
      <4>1. call'[v] = call[v]
        BY <1>2 DEF Alone, GivingUp, Leaving
      <4> QED BY <2>1, <2>11, <4>1 DEF Kept, Ride
    <3>3. ASSUME NEW i, Request(i, r)' PROVE Sent(i)'
      <4>1. Request(i, r) /\ i # 0
        BY <1>6, <3>3, RequestTold
      <4>2. CASE Sent(i)
        BY <1>0, <1>2, <4>2 DEF Sent, Alone
      <4>3. CASE outbox[call[w].event].topic = Requested
        <5>1. Request(call[w].event, r)
          BY <1>q, <1>0, <1>8, <4>3, EventFacts DEF Request
        <5>2. call[w].event = i
          BY <4>1, <5>1, RequestOnce
        <5> QED BY <1>2, <5>2 DEF Sent
      <4>4. CASE outbox[call[w].event].topic # Requested
        <5>1. OffersOf(r) # {}
          BY <1>q, <1>0, <1>8, <4>4, EventFacts DEF OffersOf
        <5> QED BY <2>11, <4>1, <4>2, <5>1 DEF Kept
      <4> QED BY <4>2, <4>3, <4>4
    <3> QED BY <3>1, <3>2, <3>3 DEF Kept
  <2> QED BY <1>0, <1>2, <1>5, <1>6, <2>7, <2>8, <2>9, <2>10, <2>11, ClaimedRide
<1> QED BY <1>7, <1>8

LEMMA ContinueWent ==
  ASSUME TypeInv, NEW w \in Workers, Continue(w)
  PROVE  Alone(w) /\ (Finish(w) \/ (Keeps(w) /\ call'[w].pc = "pop"))
<1>0. call[w] \in Call /\ call \in [Workers -> Call]
  BY CallFits DEF TypeInv, Hands
<1>1. CASE Ack(w)
  BY <1>0, <1>1 DEF Ack, Alone, Finish
<1>2. CASE call' = [call EXCEPT ![w].pc = "pop", ![w].tried = @ + 1, ![w].driver = None] /\ done' = done
  <2>1. call'[w] = [call[w] EXCEPT !.pc = "pop", !.tried = @ + 1, !.driver = None]
    BY <1>0, <1>2
  <2> QED BY <1>0, <1>2, <2>1 DEF Call, Alone, Keeps
<1> QED BY <1>1, <1>2 DEF Continue

\* When the reply of CreateOffer is lost, an offer may exist that nobody knows of.
LEMMA CreateFailsSequel ==
  ASSUME TypeInv, Grows, SequelInv, NEW w \in Workers, CreateOfferFails(w)
  PROVE  SequelInv'
<1>1. ~Calm'
  BY IncidentGrows DEF CreateOfferFails, TypeInv
<1>2. Alone(w) /\ (Finish(w) \/ (Keeps(w) /\ call'[w].pc = "pop"))
  BY ContinueWent DEF CreateOfferFails
<1>3. OffersStay => Origin(call[w])'
  <2>1. CASE Finish(w)
    BY <2>1, IdleOrigin DEF Finish
  <2>2. CASE Keeps(w) /\ call'[w].pc = "pop"
    <3>1. <<call[w].pc, call'[w].pc>> \in Roads \cup {<<"lock", "find">>, <<"match", "clear">>, <<"create", "pop">>}
      BY <2>2 DEF CreateOfferFails, At
    <3> QED BY <2>2, <3>1, GoneOrigin DEF SequelInv, Records
  <2> QED BY <1>2, <2>1, <2>2
<1>4. CASE UNCHANGED tables
  <2>1. OffersStay
    BY <1>4 DEF OffersStay, Exists, tables
  <2>2. \A v \in Workers : Origin(call[v])'
    BY <1>2, <1>3, <2>1, OthersOrigin DEF SequelInv, Records
  <2>3. OutcomesOnce' /\ ActiveOK'
    BY <1>4, <2>1 DEF SequelInv, Records, OutcomesOnce, ActiveOK, OffersStay, CreateOfferFails, redis, tables
  <2> QED BY <1>1, <2>2, <2>3 DEF SequelInv, Records
<1>5. CASE \E o \in NewOffer : OfferCreated(o, Ride(w), call[w].driver)
  <2>1. PICK o \in Offers : OfferCreated(o, Ride(w), call[w].driver)
    BY <1>5 DEF NewOffer
  <2> QED BY <1>1, <1>2, <1>3, <2>1, CreatedRecords DEF SequelInv, CreateOfferFails, redis
<1> QED BY <1>4, <1>5 DEF CreateOfferFails

(* ---------------------- which steps are quiet -------------------------- *)

\* What a quiet step leaves alone, whatever the handler does next.
Calmly(w) ==
  /\ offer' = offer /\ Tells /\ IncidentsGrow
  /\ \A r \in Rides : active'[r] \in {active[r], None}
  /\ Calm' /\ OnlyCrash' => \A r \in lock \ lock' : r = Ride(w) /\ Frees(w)

LEMMA QuietGoes ==
  ASSUME TypeInv, NEW w \in Workers, Calmly(w), Alone(w), Goes(w),
         call'[w].pc = "pop" => call[w].pc # "next" \/ active[Ride(w)] = None,
         call'[w].pc = "unlock" => Frees(w) \/ ~OnlyCrash'
  PROVE  Quietly(w)
BY DEF Quietly, Calmly

LEMMA QuietGo ==
  ASSUME TypeInv, NEW w \in Workers, Calmly(w), NEW pc, Go(w, pc), done' = done,
         <<call[w].pc, pc>> \in Roads,
         pc = "pop" => call[w].pc # "next" \/ active[Ride(w)] = None,
         pc = "unlock" => Frees(w) \/ ~OnlyCrash'
  PROVE  Quietly(w)
<1>1. Alone(w) /\ Goes(w) /\ call'[w].pc = pc
  BY WentTo DEF Goes, Keeps
<1> QED BY <1>1, QuietGoes

LEMMA QuietEnds ==
  ASSUME TypeInv, NEW w \in Workers, Calmly(w), Alone(w), Finish(w)
  PROVE  Quietly(w)
<1>1. call'[w].pc = "idle"
  BY IdleOff DEF Finish
<1> QED BY <1>1 DEF Quietly, Calmly

LEMMA QuietAck ==
  ASSUME TypeInv, NEW w \in Workers, Calmly(w), Ack(w)
  PROVE  Quietly(w)
<1>1. Alone(w) /\ Finish(w)
  BY DEF Ack, Alone, Finish, TypeInv, Hands
<1> QED BY <1>1, QuietEnds

LEMMA QuietNak ==
  ASSUME TypeInv, NEW w \in Workers, Calmly(w), Nak(w),
         Calm' => (NoCrash' => call[w].pc \in Broken) /\ (OnlyCrash' => NoCrash)
  PROVE  Quietly(w)
<1>1. Alone(w) /\ Leave(w)
  BY DEF Nak, Alone, Leave, TypeInv, Hands
<1>2. call'[w].pc = "idle"
  BY <1>1, IdleOff DEF Leave
<1> QED BY <1>1, <1>2 DEF Quietly, Calmly

\* Commands that leave the tables, the active offers and the locks alone ...
LEMMA CalmAll ==
  ASSUME TypeInv, NEW w \in Workers, UNCHANGED <<tables, active, incidents>>,
         lock \subseteq lock' \/ (lock' = lock \ {Ride(w)} /\ Frees(w))
  PROVE  Calmly(w)
BY SameGrows DEF Calmly, Tells, tables, TypeInv

\* ... or forget the active offer of the ride.
LEMMA CalmForgets ==
  ASSUME TypeInv, NEW w \in Workers, Ride(w) \in Rides, UNCHANGED <<tables, incidents>>,
         active' = [active EXCEPT ![Ride(w)] = None],
         lock' = lock \/ lock' = lock \ {Ride(w)},
         lock' # lock => call[w].pc \in Leaving \cup {"accepted"}
  PROVE  Calmly(w) /\ active'[Ride(w)] = None
<1>1. active \in [Rides -> Offers \cup {None}]
  BY DEF TypeInv, KeysOK
<1>2. active'[Ride(w)] = None /\ \A r \in Rides : active'[r] \in {active[r], None}
  BY <1>1
<1> QED BY <1>2, SameGrows DEF Calmly, Tells, tables, TypeInv, Frees

LEMMA RequestQuiet ==
  ASSUME TypeInv, NEW w \in Workers,
         \/ GetActive(w) \/ HasCandidates(w) \/ (AcquireRideLock(w) /\ Ride(w) \in lock)
         \/ Consider(w) \/ FindCandidates(w) \/ ReleaseRideLock(w) \/ StoreCandidates(w)
  PROVE  Quietly(w)
<1>c. call[w] \in Call /\ call \in [Workers -> Call]
  BY CallFits DEF TypeInv, Hands
<1>1. CASE GetActive(w)
  <2>1. Calmly(w)
    BY <1>1, CalmAll DEF GetActive, redis
  <2> QED BY <1>1, <2>1, QuietGo, QuietAck DEF GetActive, At, Stop, Roads
<1>2. CASE HasCandidates(w)
  <2>1. Calmly(w)
    BY <1>2, CalmAll DEF HasCandidates, redis
  <2> QED BY <1>2, <2>1, QuietGo, QuietAck DEF HasCandidates, At, Stop, Roads
<1>3. CASE AcquireRideLock(w) /\ Ride(w) \in lock
  <2>1. Calmly(w)
    BY <1>3, CalmAll DEF AcquireRideLock
  <2> QED BY <1>3, <2>1, QuietAck DEF AcquireRideLock, Stop
<1>4. CASE Consider(w)
  <2>1. Calmly(w)
    BY <1>4, CalmAll DEF Consider, redis
  <2>2. PICK list : call' = [call EXCEPT ![w].list = list]
    BY <1>4 DEF Consider
  <2>3. call'[w] = [call[w] EXCEPT !.list = list]
    BY <1>c, <2>2
  <2>4. /\ call'[w].pc = call[w].pc /\ call'[w].event = call[w].event
        /\ call'[w].ride = call[w].ride /\ call'[w].offer = call[w].offer
    BY <1>c, <2>3 DEF Call
  <2>5. Alone(w)
    BY <1>c, <2>2 DEF Alone
  <2>6. Goes(w) /\ call'[w].pc = "find"
    BY <1>4, <2>4 DEF Goes, Keeps, Consider, At, Roads
  <2> QED BY <2>1, <2>5, <2>6, QuietGoes
<1>5. CASE FindCandidates(w)
  <2>1. Calmly(w)
    BY <1>5, CalmAll DEF FindCandidates, redis
  <2> QED BY <1>5, <2>1, QuietGo DEF FindCandidates, At, Roads
<1>6. CASE ReleaseRideLock(w)
  <2>1. Calmly(w)
    BY <1>6, CalmAll DEF ReleaseRideLock, Release, Frees, At, Leaving
  <2> QED BY <1>6, <2>1, QuietGo DEF ReleaseRideLock, At, Roads
<1>7. CASE StoreCandidates(w)
  <2>1. Calmly(w)
    BY <1>7, CalmAll DEF StoreCandidates
  <2>2. call' = [call EXCEPT ![w].pc = "next", ![w].list = <<>>, ![w].first = TRUE]
    BY <1>7 DEF StoreCandidates
  <2>3. call'[w] = [call[w] EXCEPT !.pc = "next", !.list = <<>>, !.first = TRUE]
    BY <1>c, <2>2
  <2>4. /\ call'[w].pc = "next" /\ call'[w].event = call[w].event
        /\ call'[w].ride = call[w].ride /\ call'[w].offer = call[w].offer
    BY <1>c, <2>3 DEF Call
  <2>5. Alone(w)
    BY <1>c, <2>2 DEF Alone
  <2>6. Goes(w)
    BY <1>7, <2>4 DEF Goes, Keeps, StoreCandidates, At, Roads
  <2> QED BY <2>1, <2>4, <2>5, <2>6, QuietGoes
<1> QED BY <1>1, <1>2, <1>3, <1>4, <1>5, <1>6, <1>7

LEMMA OutcomeQuiet ==
  ASSUME TypeInv, NEW w \in Workers,
         \/ ClearAccepted(w) \/ UnlockAccepted(w) \/ SetCooldown(w) \/ ClearActive(w)
         \/ (MatchActive(w) /\ active[Ride(w)] # call[w].offer)
  PROVE  Quietly(w)
<1>r. call[w].pc \in {"accepted", "clear"} => Ride(w) \in Rides
  BY CallFits DEF Resting
<1>1. CASE ClearAccepted(w)
  <2>1. Calmly(w) /\ active'[Ride(w)] = None
    BY <1>1, <1>r, CalmForgets DEF ClearAccepted, Forget, Release, At
  <2> QED BY <1>1, <2>1, QuietGo DEF ClearAccepted, At, Roads, Frees
<1>2. CASE UnlockAccepted(w)
  <2>1. Calmly(w)
    BY <1>2, CalmAll DEF UnlockAccepted, Release, Frees, At, Leaving
  <2> QED BY <1>2, <2>1, QuietAck DEF UnlockAccepted
<1>3. CASE SetCooldown(w)
  <2>1. Calmly(w)
    BY <1>3, CalmAll DEF SetCooldown
  <2> QED BY <1>3, <2>1, QuietGo DEF SetCooldown, At, Roads
<1>4. CASE ClearActive(w)
  <2>1. Calmly(w)
    BY <1>4, <1>r, CalmForgets DEF ClearActive, At
  <2> QED BY <1>4, <2>1, QuietGo DEF ClearActive, At, Roads
<1>5. CASE MatchActive(w) /\ active[Ride(w)] # call[w].offer
  <2>1. Calmly(w)
    BY <1>5, CalmAll DEF MatchActive, redis
  <2> QED BY <1>5, <2>1, QuietAck DEF MatchActive, Stop
<1> QED BY <1>1, <1>2, <1>3, <1>4, <1>5

LEMMA SendQuiet ==
  ASSUME TypeInv, NEW w \in Workers,
         \/ NextOffer(w) \/ PopCandidate(w) \/ CheckCount(w) \/ HasOffer(w)
         \/ NotifyOfferSent(w) \/ IncrementCount(w)
  PROVE  Quietly(w)
<1>c. call[w] \in Call /\ call \in [Workers -> Call]
  BY CallFits DEF TypeInv, Hands
<1>1. CASE NextOffer(w)
  <2>1. Calmly(w)
    BY <1>1, CalmAll DEF NextOffer, redis
  <2> QED BY <1>1, <2>1, QuietGo, QuietAck DEF NextOffer, At, Stop, Roads
<1>2. CASE PopCandidate(w)
  <2>1. Calmly(w)
    BY <1>2, CalmAll DEF PopCandidate
  <2>2. CASE Go(w, "giveup")
    BY <1>2, <2>1, <2>2, QuietGo DEF PopCandidate, At, Roads
  <2>3. CASE call' = [call EXCEPT ![w].pc = "count", ![w].driver = Head(candidates[Ride(w)])]
    <3>1. PICK d : d = Head(candidates[Ride(w)])
      OBVIOUS
    <3>2. call'[w] = [call[w] EXCEPT !.pc = "count", !.driver = d] /\ Alone(w)
      BY <1>c, <2>3, <3>1 DEF Alone
    <3>3. /\ call'[w].pc = "count" /\ call'[w].event = call[w].event
          /\ call'[w].ride = call[w].ride /\ call'[w].offer = call[w].offer
      BY <1>c, <3>2 DEF Call
    <3>4. Goes(w)
      BY <1>2, <3>3 DEF Goes, Keeps, PopCandidate, At, Roads
    <3> QED BY <2>1, <3>2, <3>3, <3>4, QuietGoes
  <2> QED BY <1>2, <2>2, <2>3 DEF PopCandidate
<1>3. CASE CheckCount(w)
  <2>1. Calmly(w)
    BY <1>3, CalmAll DEF CheckCount, redis
  <2> QED BY <1>3, <2>1, QuietGo DEF CheckCount, At, Roads
<1>4. CASE HasOffer(w)
  <2>1. Calmly(w)
    BY <1>4, CalmAll DEF HasOffer, redis
  <2>2. CASE Continue(w)
    <3>1. Keeps(w) /\ call'[w].pc = "pop" => Goes(w)
      BY <1>4 DEF Goes, HasOffer, At, Roads
    <3>2. call[w].pc = "busy"
      BY <1>4 DEF HasOffer, At
    <3> QED BY <2>1, <2>2, <3>1, <3>2, ContinueWent, QuietGoes, QuietEnds
  <2>3. CASE Go(w, "create") /\ done' = done
    BY <1>4, <2>1, <2>3, QuietGo DEF HasOffer, At, Roads
  <2> QED BY <1>4, <2>2, <2>3 DEF HasOffer
<1>5. CASE NotifyOfferSent(w)
  <2>1. Calmly(w)
    BY <1>5, CalmAll DEF NotifyOfferSent
  <2> QED BY <1>5, <2>1, QuietGo DEF NotifyOfferSent, At, Roads
<1>6. CASE IncrementCount(w)
  <2>1. Calmly(w)
    BY <1>6, CalmAll DEF IncrementCount
  <2> QED BY <1>6, <2>1, QuietAck DEF IncrementCount
<1> QED BY <1>1, <1>2, <1>3, <1>4, <1>5, <1>6

LEMMA GiveUpQuiet ==
  ASSUME TypeInv, NEW w \in Workers, GiveUp(w) \/ ClearRide(w) \/ CancelRide(w)
  PROVE  Quietly(w)
<1>1. CASE GiveUp(w)
  <2>1. Calmly(w)
    BY <1>1, CalmAll DEF GiveUp, Release, Frees, At, Leaving
  <2> QED BY <1>1, <2>1, QuietGo DEF GiveUp, At, Roads
<1>2. CASE ClearRide(w)
  <2>1. Ride(w) \in Rides
    BY <1>2, CallFits DEF ClearRide, At, Resting
  <2>2. Calmly(w)
    BY <1>2, <2>1, CalmForgets DEF ClearRide, Forget, Release, At, Leaving
  <2> QED BY <1>2, <2>2, QuietGo DEF ClearRide, At, Roads
<1>3. CASE CancelRide(w)
  <2>1. Ride(w) \in Rides
    BY <1>3, CallFits DEF CancelRide, At, Resting
  <2>2. offer' = offer /\ Tells
    BY <1>3, <2>1 DEF CancelRide, Cancelled, RideMoved, Tells, tables
  <2>3. UNCHANGED <<active, lock, incidents>>
    BY <1>3 DEF CancelRide, redis
  <2>4. Calmly(w)
    BY <2>2, <2>3, SameGrows DEF Calmly, TypeInv
  <2> QED BY <1>3, <2>4, QuietAck DEF CancelRide
<1> QED BY <1>1, <1>2, <1>3

LEMMA FailsQuiet ==
  ASSUME TypeInv, NEW w \in Workers,
         CancelRideFails(w) \/ RedisFails(w) \/ RedisFailsSilently(w) \/ FetchFails(w) \/ Crash(w)
  PROVE  Quietly(w)
<1>k. KeysOK
  BY DEF TypeInv
<1>1. CASE CancelRideFails(w)
  <2>1. IncidentsGrow /\ ~Calm'
    BY <1>k, <1>1, IncidentGrows DEF CancelRideFails
  <2>2. Ride(w) \in Rides
    BY <1>1, CallFits DEF CancelRideFails, At, Resting
  <2>3. offer' = offer /\ Tells /\ active' = active
    BY <1>1, <2>2 DEF CancelRideFails, Cancelled, RideMoved, Tells, tables
  <2>4. Calmly(w)
    BY <2>1, <2>3 DEF Calmly
  <2> QED BY <1>1, <2>1, <2>4, QuietNak DEF CancelRideFails
<1>2. CASE RedisFails(w)
  <2>1. IncidentsGrow /\ ~OnlyCrash'
    BY <1>k, <1>2, IncidentGrows DEF RedisFails
  <2>2. offer' = offer /\ Tells /\ active' = active /\ call[w].pc \in Broken /\ Nak(w)
    BY <1>2 DEF RedisFails, Tells, tables, Broken
  <2>3. Calmly(w)
    BY <2>1, <2>2 DEF Calmly
  <2> QED BY <2>1, <2>2, <2>3, QuietNak
<1>3. CASE RedisFailsSilently(w)
  <2>1. IncidentsGrow /\ ~OnlyCrash'
    BY <1>k, <1>3, IncidentGrows DEF RedisFailsSilently
  <2>2. offer' = offer /\ Tells /\ active' = active /\ lock' = lock
    BY <1>3 DEF RedisFailsSilently, Tells, tables
  <2>3. Calmly(w)
    BY <2>1, <2>2 DEF Calmly
  <2>4. \/ Ack(w)
        \/ \E pc \in Steps : Go(w, pc) /\ done' = done /\ <<call[w].pc, pc>> \in Roads /\ pc # "pop"
    BY <1>3 DEF RedisFailsSilently, At, Roads, Steps
  <2> QED BY <2>1, <2>3, <2>4, QuietAck, QuietGo
<1>4. CASE FetchFails(w)
  <2>1. IncidentsGrow
    BY <1>k, <1>4, IncidentGrows DEF FetchFails
  <2>2. Calmly(w)
    BY <1>4, <2>1 DEF Calmly, FetchFails, Tells, tables, redis
  <2> QED BY <1>4, <2>2, QuietGo DEF FetchFails, At, Roads
<1>5. CASE Crash(w)
  <2>1. IncidentsGrow /\ ~NoCrash' /\ (Calm' => NoCrash)
    BY <1>k, <1>5, IncidentGrows DEF Crash
  <2>2. Calmly(w)
    BY <1>5, <2>1 DEF Calmly, Crash, Tells, tables, redis
  <2> QED BY <1>5, <2>1, <2>2, QuietNak DEF Crash
<1> QED BY <1>1, <1>2, <1>3, <1>4, <1>5

\* Every step of a handler keeps the invariant.
LEMMA HandlerSequel ==
  ASSUME TypeInv, UNCHANGED maxOffers, SearchInv, SequelInv, NEW w \in Workers, Step(w) \/ Fails(w)
  PROVE  SequelInv'
<1>1. Grows
  BY StepShape DEF Shape
<1>2. CASE CreateOffer(w) \/ SetActive(w) \/ CreateOfferFails(w)
  BY <1>1, <1>2, CreateSequel, SetActiveSequel, CreateFailsSequel
<1>3. CASE AcquireRideLock(w) /\ Ride(w) \notin lock
  BY <1>1, <1>3, BeginSequel
<1>4. CASE MatchActive(w) /\ active[Ride(w)] = call[w].offer
  BY <1>1, <1>4, FollowSequel
<1>5. CASE Quietly(w)
  BY <1>1, <1>5, QuietSequel
<1>6. \/ CreateOffer(w) \/ SetActive(w) \/ CreateOfferFails(w)
      \/ AcquireRideLock(w) /\ Ride(w) \notin lock
      \/ MatchActive(w) /\ active[Ride(w)] = call[w].offer
      \/ Quietly(w)
  BY RequestQuiet, OutcomeQuiet, SendQuiet, GiveUpQuiet, FailsQuiet DEF Step, Fails
<1> QED BY <1>2, <1>3, <1>4, <1>5, <1>6

(* ------------------- deliveries and the world's steps ------------------ *)

\* A step by which nobody joins a chain, leaves a ride or begins a search.
LEMMA ShrinkRide ==
  ASSUME TypeInv, IncidentsGrow, NEW r \in Rides, RideInv(r), Shrinks(r), done' = done,
         \A i : Request(i, r)' => Request(i, r),
         \A i : i # 0 => (Unbegun(i)' => Unbegun(i)),
         \A v \in Workers : call'[v].pc \in Leaving => call'[v] = call[v],
         OnlyCrash' => (r \in lock => r \in lock'),
         OnlyCrash' /\ Over(r) => \A o \in OffersOf(r)' : offer'[o].status = "ACCEPTED" =>
           OnChain(r)' = {} /\ Waiting(r)' = {} /\ active'[r] \in {o, None},
         OffersOf(r)' = OffersOf(r), Accepted(r)' \subseteq Accepted(r) \cup Waiting(r),
         \A i : i # 0 => (Sent(i) => Sent(i)')
  PROVE  RideInv(r)'
<1>1. Claims(r)' \subseteq Claims(r) /\ ChainInv(r)'
  BY ShrunkClaims, ShrinksChain DEF RideInv
<1>2. ASSUME NEW i, Request(i, r)'
      PROVE  /\ NoCrash' => FreshInv(i, r)'
             /\ OnlyCrash' /\ MayRepeat(i)' => Over(r)'
  <2>1. Request(i, r) /\ i # 0
    BY <1>2 DEF Request, TypeInv, Rows, TablesTypeOK
  <2>2. MayRepeat(i)' => MayRepeat(i)
    BY <2>1, CalmBefore DEF MayRepeat
  <2>3. ASSUME OnlyCrash', Over(r) PROVE Over(r)'
    <3>1. (r \in lock \/ Claims(r) = {})'
      BY <1>1, <2>3 DEF Over
    <3>2. ASSUME NEW v \in Workers, call'[v].pc \in Leaving, Ride(v)' = r PROVE Claims(r)' = {}
      BY <1>1, <2>3, <3>2 DEF Over, Ride
    <3> QED BY <2>3, <3>1, <3>2 DEF Over
  <2>4. NoCrash' => FreshInv(i, r)'
    BY <1>1, <2>1, CalmBefore DEF FreshInv, RideInv
  <2> QED BY <2>1, <2>2, <2>3, <2>4, CalmBefore DEF RideInv
<1>3. ASSUME Firm' PROVE Kept(r)'
  <2>1. Kept(r) /\ ChainInv(r)
    BY <1>3, CalmBefore DEF RideInv
  <2>2. \A i : Request(i, r)' => Request(i, r) /\ (Sent(i) => Sent(i)')
    BY DEF Request, TypeInv, Rows, TablesTypeOK
  <2>3. \A v \in Workers : call'[v].pc \in GivingUp /\ Ride(v)' = r => call[v].pc \in GivingUp /\ Ride(v) = r
    BY DEF GivingUp, Ride
  <2> QED BY <1>1, <2>1, <2>2, <2>3, KeptStays
<1> QED BY <1>1, <1>2, <1>3 DEF RideInv

LEMMA AllOrigin ==
  ASSUME TypeInv, Grows, OffersStay, Records, call' = call
  PROVE  \A v \in Workers : Origin(call[v])'
<1> SUFFICES ASSUME NEW v \in Workers PROVE Origin(call[v])'
  OBVIOUS
<1>1. PICK c : c = call[v]
  OBVIOUS
<1> QED BY <1>1, OriginStays DEF Records

LEMMA SameHands ==
  ASSUME call' = call, done' = done
  PROVE  /\ \A i : (Unbegun(i)' => Unbegun(i)) /\ (Sent(i) => Sent(i)')
         /\ \A r \in Rides : OnChain(r)' = OnChain(r)
BY DEF Unbegun, Sent, OnChain, Ride

\* Riders cancel, keys expire, drivers change their status.
LEMMA AsideSequel ==
  ASSUME TypeInv, Grows, SequelInv, UNCHANGED <<call, done, offer>>, IncidentsGrow, Tells,
         \A r \in Rides : active'[r] \in {active[r], None},
         OnlyCrash' => lock' = lock
  PROVE  SequelInv'
<1>1. OffersStay
  BY DEF OffersStay, Exists
<1>t. \E s \in {"CANCELLED"} : outbox' = outbox \/ \E id \in Rides : Announce(s, id)
  BY DEF Tells
<1>2. OutcomesOnce'
  <2>1. "CANCELLED" \in Announced \ Outcomes
    BY AnnouncedStatuses DEF Outcomes, OfferStatus
  <2> QED BY <1>t, <2>1, OutcomesKept DEF SequelInv, Records
<1>3. ActiveOK'
  BY <1>1 DEF ActiveOK, OffersStay, SequelInv, Records
<1>4. Records'
  BY <1>1, <1>2, <1>3, AllOrigin DEF SequelInv, Records
<1> SUFFICES ASSUME Calm', NEW r \in Rides PROVE RideInv(r)'
  BY <1>4 DEF SequelInv
<1>5. RideInv(r)
  BY CalmBefore DEF SequelInv
<1>6. /\ Waiting(r)' = Waiting(r) /\ OnChain(r)' = OnChain(r)
      /\ OffersOf(r)' = OffersOf(r) /\ Accepted(r)' = Accepted(r)
  BY SameHands DEF Waiting, OffersOf, Accepted
<1>7. Shrinks(r)
  BY <1>6 DEF Shrinks
<1>8. \A i : Request(i, r)' => Request(i, r)
  <2>1. "CANCELLED" \in Announced \ {"REQUESTED"}
    BY AnnouncedStatuses
  <2> QED BY <1>t, <2>1, RequestTold
<1>9. Over(r) => \A o \in OffersOf(r)' : offer'[o].status = "ACCEPTED" =>
           OnChain(r)' = {} /\ Waiting(r)' = {} /\ active'[r] \in {o, None}
  BY <1>6 DEF Over
<1> QED BY <1>5, <1>6, <1>7, <1>8, <1>9, SameHands, ShrinkRide

\* Nothing is under way for a ride that does not exist.
LEMMA NoRideYet ==
  ASSUME TypeInv, Records, NEW r \in Rides, ride[r].status = "ABSENT"
  PROVE  OnChain(r) = {} /\ active[r] = None /\ \A o \in Offers : offer[o].ride # r
<1>1. \A o \in Offers : offer[o].ride # r
  BY DEF TypeInv, Rows, RowsRefer
<1>2. active[r] = None
  BY <1>1 DEF Records, ActiveOK, Exists
<1>3. OnChain(r) = {}
  <2> SUFFICES ASSUME NEW v \in OnChain(r) PROVE FALSE
    OBVIOUS
  <2>1. v \in Workers /\ call[v].pc \notin Resting /\ Ride(v) = r
    BY DEF OnChain, Chain, Deep, Resting
  <2> QED BY <2>1, EventFacts
<1> QED BY <1>1, <1>2, <1>3

LEMMA RequestSequel ==
  ASSUME TypeInv, Grows, SequelInv, NEW q \in Rides, RequestRide(q)
  PROVE  SequelInv'
<1>1. ride[q].status = "ABSENT" /\ Announce("REQUESTED", q)
      /\ UNCHANGED <<offer, active, lock, call, done, incidents>>
  BY DEF RequestRide, RideCreated, redis
<1>2. OffersStay
  BY <1>1 DEF OffersStay, Exists
<1>3. "REQUESTED" \in Announced \ Outcomes
  BY AnnouncedStatuses DEF Outcomes, OfferStatus
<1>4. Records'
  <2>1. OutcomesOnce'
    BY <1>1, <1>3, OutcomesKept DEF SequelInv, Records
  <2>2. ActiveOK'
    BY <1>1, <1>2 DEF ActiveOK, OffersStay, SequelInv, Records
  <2> QED BY <1>1, <1>2, <2>1, <2>2, AllOrigin DEF SequelInv, Records
<1> SUFFICES ASSUME Calm', NEW r \in Rides PROVE RideInv(r)'
  BY <1>4 DEF SequelInv
<1>5. RideInv(r) /\ IncidentsGrow
  BY <1>1, SameIncidents, SameGrows DEF SequelInv, TypeInv
<1>6. /\ Waiting(r)' = Waiting(r) /\ OnChain(r)' = OnChain(r)
      /\ OffersOf(r)' = OffersOf(r) /\ Accepted(r)' = Accepted(r)
  BY <1>1, SameHands DEF Waiting, OffersOf, Accepted
<1>7. Shrinks(r)
  BY <1>1, <1>6 DEF Shrinks
<1>8. CASE r # q
  <2>1. ASSUME NEW i, Request(i, r)' PROVE Request(i, r)
    <3>1. OneMore("REQUESTED", q)
      BY <1>1, <1>3, AnnounceShape DEF TypeInv, Rows, TablesTypeOK
    <3>2. outbox'[Len(outbox) + 1].id = q
      BY <3>1 DEF OneMore
    <3>3. i \in 1..Len(outbox)
      BY <1>8, <2>1, <3>1, <3>2 DEF Request, OneMore
    <3> QED BY <2>1, <3>1, <3>3 DEF Request, OneMore
  <2>2. Over(r) => \A o \in OffersOf(r)' : offer'[o].status = "ACCEPTED" =>
           OnChain(r)' = {} /\ Waiting(r)' = {} /\ active'[r] \in {o, None}
    BY <1>1, <1>6 DEF Over
  <2> QED BY <1>1, <1>5, <1>6, <1>7, <2>1, <2>2, SameHands, ShrinkRide
<1>9. CASE r = q
  <2>1. OnChain(r) = {} /\ active[r] = None /\ \A o \in Offers : offer[o].ride # r
    BY <1>1, <1>9, NoRideYet DEF SequelInv
  <2>2. OffersOf(r) = {} /\ Waiting(r) = {}
    BY <2>1 DEF OffersOf, Waiting
  <2>3. OnChain(r)' = {} /\ OffersOf(r)' = {} /\ Waiting(r)' = {} /\ active'[r] = None
    BY <1>1, <1>6, <2>1, <2>2
  <2>4. Claims(r)' = {}
    <3>1. Claims(r) = {}
      BY <2>1, <2>2, NothingClaimed
    <3> QED BY <1>7, <3>1, ShrunkClaims
  <2>5. ChainInv(r)' /\ Over(r)' /\ Kept(r)' /\ \A i : FreshInv(i, r)'
    <3>1. Accepted(r)' = {}
      BY <2>3 DEF Accepted
    <3> QED BY <2>3, <2>4, <3>1 DEF ChainInv, Over, Kept, FreshInv
  <2> QED BY <2>5 DEF RideInv
<1> QED BY <1>8, <1>9

\* The active offer that waits for an answer has nobody on the chain.
LEMMA PendingAlone ==
  ASSUME TypeInv, Records, NEW r \in Rides, ChainInv(r), NEW o \in Waiting(r), active[r] = o
  PROVE  OnChain(r) = {} /\ Waiting(r) = {o}
<1>1. \A x \in Claims(r) : x = o
  BY DEF ChainInv, Claims
<1>2. o \in Offers /\ offer[o].status = "PENDING" /\ o # None
  BY IdsDiffer DEF Waiting, OffersOf
<1>3. OnChain(r) = {}
  <2> SUFFICES ASSUME NEW v \in OnChain(r) PROVE FALSE
    OBVIOUS
  <2>1. v \in Workers /\ call[v].pc \in Chain \ Deep
    BY <1>2 DEF OnChain, ChainInv
  <2>2. call[v].offer = o /\ call[v].pc \notin Resting
    BY <1>1, <2>1 DEF Claims, Chain, Deep, Resting
  <2>3. FromEvent(call[v])
    BY <1>2, <2>1, <2>2 DEF Records, Origin, Opening, Chain
  <2>4. {"PENDING", "DECLINED", "EXPIRED"} \subseteq Announced /\ Ended \subseteq OutcomeTopics
    BY DEF Announced, Ended, OutcomeTopics, Outcomes, OfferStatus
  <2>5. TopicOf("PENDING") \in Ended
    BY <1>2, <2>1, <2>2, <2>3, <2>4, EventFacts DEF FromEvent, Records, OutcomesOnce
  <2> QED BY <2>4, <2>5, TopicsDiffer DEF Ended
<1> QED BY <1>1, <1>3 DEF Claims

LEMMA EndsSequel ==
  ASSUME TypeInv, Grows, SequelInv, NEW o \in Offers, NEW s \in Outcomes, OfferEnds(o, s)
  PROVE  SequelInv'
<1>1. offer[o].status = "PENDING" /\ OfferSettled(o, s) /\ UNCHANGED <<active, lock, call, done>>
  BY DEF OfferEnds, redis
<1>2. offer[o] \in OfferRow /\ offer' = [offer EXCEPT ![o].status = s] /\ offer \in [Offers -> OfferRow]
      /\ Announce(s, o)
  BY <1>1 DEF OfferSettled, TypeInv, Rows, TablesTypeOK
<1>3. offer'[o].status = s /\ offer'[o].ride = offer[o].ride /\ \A p \in Offers : p # o => offer'[p] = offer[p]
  BY <1>2 DEF OfferRow
<1>s. s # "ABSENT" /\ s # "PENDING" /\ s # "REQUESTED" /\ s \in Announced
  BY AnnouncedStatuses DEF Outcomes, OfferStatus
<1>4. OffersStay
  BY <1>3, <1>s DEF OffersStay, Exists
<1>5. Records'
  <2>1. OutcomesOnce'
    BY <1>1, OutcomesEnd DEF SequelInv, Records
  <2>2. ActiveOK'
    BY <1>1, <1>4 DEF ActiveOK, OffersStay, SequelInv, Records
  <2> QED BY <1>1, <1>4, <2>1, <2>2, AllOrigin DEF SequelInv, Records
<1> SUFFICES ASSUME Calm', NEW r \in Rides PROVE RideInv(r)'
  BY <1>5 DEF SequelInv
<1>6. /\ IncidentsGrow
      /\ OnlyCrash' => active[offer[o].ride] = o
  BY SameGrows, IncidentGrows DEF OfferEnds, TypeInv
<1>7. RideInv(r) /\ Calm
  BY <1>6, CalmBefore DEF SequelInv
<1>8. Waiting(r)' \subseteq Waiting(r) \ {o} /\ OnChain(r)' = OnChain(r)
  <2>1. Waiting(r)' \subseteq Waiting(r) \ {o}
    BY <1>3, <1>s DEF Waiting, OffersOf
  <2> QED BY <1>1, <2>1, SameHands
<1>9. Shrinks(r)
  BY <1>1, <1>8 DEF Shrinks
<1>10. \A i : Request(i, r)' => Request(i, r)
  BY <1>2, <1>s, RequestTold
<1>11. ASSUME OnlyCrash', Over(r), NEW p \in OffersOf(r)', offer'[p].status = "ACCEPTED"
       PROVE  OnChain(r)' = {} /\ Waiting(r)' = {} /\ active'[r] \in {p, None}
  <2>1. CASE p # o
    <3>1. p \in OffersOf(r) /\ offer[p].status = "ACCEPTED"
      BY <1>3, <1>11, <2>1 DEF OffersOf
    <3> QED BY <1>1, <1>8, <1>11, <3>1 DEF Over
  <2>2. CASE p = o
    <3>1. o \in Waiting(r) /\ active[r] = o
      BY <1>1, <1>3, <1>6, <1>11, <2>2 DEF Waiting, OffersOf
    <3>2. OnChain(r) = {} /\ Waiting(r) = {o}
      BY <1>7, <3>1, PendingAlone DEF SequelInv, RideInv
    <3> QED BY <1>1, <1>8, <2>2, <3>1, <3>2
  <2> QED BY <2>1, <2>2
<1>12. OffersOf(r)' = OffersOf(r) /\ Accepted(r)' \subseteq Accepted(r) \cup Waiting(r)
  BY <1>1, <1>3 DEF OffersOf, Accepted, Waiting
<1> QED BY <1>1, <1>6, <1>7, <1>9, <1>10, <1>11, <1>12, SameHands, ShrinkRide

\* A delivery begins a handler that claims nothing yet.
LEMMA DeliverSequel ==
  ASSUME TypeInv, UNCHANGED maxOffers, SequelInv, NEW w \in Workers, NEW i \in 1..Len(outbox), Deliver(w, i)
  PROVE  SequelInv'
<1>1. Takes(w, i) /\ UNCHANGED <<ride, offer, outbox, active, lock, done>> /\ call[w].pc = "idle"
  BY DeliverShape DEF Deliver, At, tables, redis
<1>2. Alone(w) /\ call[w].event = 0
  BY <1>1 DEF Takes
<1>3. PICK e : e = outbox[i]
  OBVIOUS
<1>4. PICK pc : pc = CASE e.topic = Requested -> "active"
                       [] e.topic = TopicOf("ACCEPTED") -> "accepted"
                       [] OTHER -> "cool"
  OBVIOUS
<1>5. PICK o : o = IF e.id \in Offers THEN e.id ELSE None
  OBVIOUS
<1>6. call'[w] = [Idle EXCEPT !.pc = pc, !.event = i, !.ride = RideOf(e), !.offer = o]
  BY <1>3, <1>4, <1>5 DEF Deliver, TypeInv, Hands
<1>7. call'[w].pc = pc /\ call'[w].event = i /\ call'[w].offer = o
  BY <1>6 DEF Idle
<1>8. pc \in {"active", "accepted", "cool"} /\ e.topic \in Handled
  BY <1>3, <1>4 DEF Deliver
<1>9. Origin(call[w])'
  <2>1. "ACCEPTED" \in OfferStatus
    BY DEF OfferStatus
  <2>2. Requested # TopicOf("ACCEPTED")
    BY <2>1, Topics1
  <2>3. CASE e.topic = Requested
    <3>1. e.id \in Rides /\ pc = "active"
      BY <1>3, <1>4, <2>2, <2>3, Topics1 DEF TypeInv, Rows, RowsRefer
    <3>2. o = None
      BY <1>5, <3>1, IdsDiffer
    <3> QED BY <1>7, <3>1, <3>2 DEF Origin
  <2>4. CASE e.topic = TopicOf("ACCEPTED")
    <3>1. pc = "accepted"
      BY <1>4, <2>2, <2>4
    <3> QED BY <1>1, <1>3, <1>7, <2>4, <3>1 DEF Origin, Opening
  <2>5. CASE e.topic # Requested /\ e.topic # TopicOf("ACCEPTED")
    <3>1. e.topic \in Ended /\ pc = "cool"
      BY <1>4, <1>8, <2>5 DEF Handled, Outcomes, OfferStatus, Ended
    <3>2. e.topic \in OfferTopics
      BY <1>8, <2>5, Topics1
    <3>3. e.id \in Offers
      BY <1>3, <3>2 DEF TypeInv, Rows, RowsRefer
    <3> QED BY <1>1, <1>3, <1>5, <1>7, <3>1, <3>3 DEF Origin, Opening, FromEvent
  <2> QED BY <2>3, <2>4, <2>5
<1>10. Grows
  BY <1>1, RowsStep DEF TypeInv, tables
<1>11. Records'
  <2>1. OffersStay
    BY <1>1 DEF OffersStay, Exists
  <2>2. \A v \in Workers : Origin(call[v])'
    BY <1>2, <1>9, <1>10, <2>1, OthersOrigin DEF SequelInv, Records
  <2>3. OutcomesOnce' /\ ActiveOK'
    BY <1>1, <2>1 DEF SequelInv, Records, OutcomesOnce, ActiveOK, OffersStay
  <2> QED BY <2>2, <2>3 DEF Records
<1> SUFFICES ASSUME Calm', NEW r \in Rides PROVE RideInv(r)'
  BY <1>11 DEF SequelInv
<1>12. incidents' = incidents
  BY IncidentGrows DEF Deliver, TypeInv
<1>13. IncidentsGrow /\ RideInv(r)
  BY <1>12, SameIncidents, SameGrows DEF SequelInv, TypeInv
<1>14. OnChain(r)' = OnChain(r) /\ \A v \in OnChain(r) : call'[v] = call[v]
  <2>1. call[w].pc \notin Chain /\ call'[w].pc \notin Chain
    BY <1>1, <1>7, <1>8 DEF Chain, Deep
  <2> QED BY <1>2, <2>1 DEF OnChain, Alone, Ride
<1>15. Waiting(r)' = Waiting(r) /\ OffersOf(r)' = OffersOf(r) /\ Accepted(r)' = Accepted(r)
  BY <1>1 DEF Waiting, OffersOf, Accepted
<1>16. Shrinks(r)
  BY <1>1, <1>14, <1>15 DEF Shrinks
<1>17. ASSUME NEW j, j # 0, Unbegun(j)' PROVE Unbegun(j)
  <2>1. ASSUME NEW u \in Workers, call[u].event = j PROVE call[u].pc \in Entry
    <3>1. call'[u] = call[u]
      BY <1>2, <1>17, <2>1 DEF Alone
    <3> QED BY <1>17, <2>1, <3>1 DEF Unbegun
  <2> QED BY <1>1, <1>17, <2>1 DEF Unbegun
<1>18. \A v \in Workers : call'[v].pc \in Leaving => call'[v] = call[v]
  BY <1>2, <1>7, <1>8 DEF Leaving, Alone
<1>19. Over(r) => \A p \in OffersOf(r)' : offer'[p].status = "ACCEPTED" =>
           OnChain(r)' = {} /\ Waiting(r)' = {} /\ active'[r] \in {p, None}
  BY <1>1, <1>14, <1>15 DEF Over
<1>20. \A j : Request(j, r)' => Request(j, r)
  BY <1>1 DEF Request
<1>21. \A j : j # 0 => (Sent(j) => Sent(j)')
  BY <1>1, <1>2 DEF Sent, Alone
<1> QED BY <1>1, <1>13, <1>15, <1>16, <1>17, <1>18, <1>19, <1>20, <1>21, ShrinkRide

LEMMA WorldSequel ==
  ASSUME TypeInv, UNCHANGED maxOffers, SequelInv,
         \/ \E r \in Rides : RequestRide(r) \/ RiderCancels(r) \/ RideKeyExpires(r)
         \/ \E o \in Offers, s \in Outcomes : OfferEnds(o, s)
         \/ \E d \in Drivers : UpdateDriverStatus(d) \/ OtherRideAsks(d) \/ DriverKeyExpires(d)
  PROVE  SequelInv'
<1>1. Grows
  BY WorldShape DEF World
<1>2. active \in [Rides -> Offers \cup {None}] /\ KeysOK
  BY DEF TypeInv, KeysOK
<1>3. ASSUME NEW r \in Rides, RiderCancels(r) PROVE SequelInv'
  BY <1>1, <1>2, <1>3, SameGrows, AsideSequel DEF RiderCancels, RideMoved, Tells, redis
<1>4. ASSUME NEW r \in Rides, RideKeyExpires(r) PROVE SequelInv'
  <2>1. IncidentsGrow /\ ~OnlyCrash'
    <3>1. Incident("ride key")
      BY <1>4 DEF RideKeyExpires
    <3>2. PICK kind : kind = "ride key"
      OBVIOUS
    <3>3. kind # "crash"
      BY <3>2
    <3> QED BY <1>2, <3>1, <3>2, <3>3, IncidentGrows
  <2>2. active' = active \/ active' = [active EXCEPT ![r] = None]
    BY <1>4 DEF RideKeyExpires
  <2>3. \A q \in Rides : active'[q] \in {active[q], None}
    BY <1>2, <2>2
  <2>4. UNCHANGED <<call, done, offer>> /\ Tells
    BY <1>4 DEF RideKeyExpires, tables, Tells
  <2> QED BY <1>1, <2>1, <2>3, <2>4, AsideSequel
<1>5. ASSUME NEW d \in Drivers, UpdateDriverStatus(d) \/ DriverKeyExpires(d) PROVE SequelInv'
  <2>1. IncidentsGrow
    BY <1>2, <1>5, IncidentGrows DEF UpdateDriverStatus, DriverKeyExpires
  <2>2. UNCHANGED <<call, done, offer, active, lock>> /\ Tells
    BY <1>5 DEF UpdateDriverStatus, DriverKeyExpires, tables, Tells
  <2> QED BY <1>1, <2>1, <2>2, AsideSequel
<1>6. ASSUME NEW d \in Drivers, OtherRideAsks(d) PROVE SequelInv'
  <2>1. IncidentsGrow
    BY <1>2, <1>6, SameGrows DEF OtherRideAsks
  <2>2. UNCHANGED <<call, done, offer, active, lock>> /\ Tells
    BY <1>6 DEF OtherRideAsks, tables, Tells
  <2> QED BY <1>1, <2>1, <2>2, AsideSequel
<1> QED BY <1>1, <1>3, <1>4, <1>5, <1>6, RequestSequel, EndsSequel

LEMMA StutterSequel ==
  ASSUME TypeInv, SequelInv, UNCHANGED vars
  PROVE  SequelInv'
<1>1. Grows /\ IncidentsGrow
  BY StutterShape, SameGrows DEF World, vars, TypeInv
<1> QED BY <1>1, AsideSequel DEF vars, tables, redis, Tells

LEMMA SequelStep == TypeInv /\ SearchInv /\ SequelInv /\ [Next]_vars => SequelInv'
<1> SUFFICES ASSUME TypeInv, SearchInv, SequelInv, [Next]_vars PROVE SequelInv'
  OBVIOUS
<1>1. CASE UNCHANGED vars
  BY <1>1, StutterSequel
<1>2. CASE Next
  <2>1. UNCHANGED maxOffers
    BY <1>2 DEF Next
  <2>2. CASE \E w \in Workers : \/ \E i \in 1..Len(outbox) : Deliver(w, i)
                                \/ Step(w)
                                \/ Fails(w)
    BY <2>1, <2>2, DeliverSequel, HandlerSequel
  <2>3. CASE ~\E w \in Workers : \/ \E i \in 1..Len(outbox) : Deliver(w, i)
                                 \/ Step(w)
                                 \/ Fails(w)
    BY <1>2, <2>1, <2>3, WorldSequel DEF Next
  <2> QED BY <2>2, <2>3
<1> QED BY <1>1, <1>2

LEMMA SequelInit == Init => SequelInv
<1> SUFFICES ASSUME Init PROVE SequelInv
  OBVIOUS
<1>1. /\ \A w \in Workers : call[w] = Idle
      /\ \A r \in Rides : active[r] = None
      /\ \A o \in Offers : offer[o].status = "ABSENT" /\ offer[o].ride = None
      /\ outbox = <<>>
  BY DEF Init, InitTables, NoOffer
<1>2. ASSUME NEW w \in Workers PROVE Origin(call[w]) /\ call[w].pc \notin Chain
  BY <1>1, IdleOff DEF Origin, Opening
<1>3. Records
  BY <1>1, <1>2 DEF Records, OutcomesOnce, ActiveOK
<1>4. ASSUME NEW r \in Rides PROVE RideInv(r)
  <2>1. OnChain(r) = {} /\ OffersOf(r) = {} /\ Waiting(r) = {} /\ active[r] = None
    BY <1>1, <1>2, IdsDiffer DEF OnChain, OffersOf, Waiting
  <2>2. Claims(r) = {}
    BY <2>1, NothingClaimed
  <2>3. Kept(r)
    <3>1. Accepted(r) = {}
      BY <2>1 DEF Accepted
    <3> QED BY <2>1, <2>2, <3>1 DEF Kept
  <2> QED BY <2>1, <2>2, <2>3 DEF RideInv, ChainInv, FreshInv, Over
<1> QED BY <1>3, <1>4 DEF SequelInv

\* A ride waits for one driver at a time, whatever single incident happens but a lost
\* reply and an event delivered again: all that stands for an offer of the ride, in the
\* hands of a handler or in the tables, is one and the same.
THEOREM MatchingOffersInTurn == Spec => []SequentialOffers
<1>1. ASSUME SequelInv, Calm, NEW r \in Rides PROVE Cardinality(Waiting(r)) <= 1
  <2>1. \A x, y \in Waiting(r) : x = y
    BY <1>1 DEF SequelInv, RideInv, ChainInv, Claims
  <2>2. CASE Waiting(r) = {}
    BY <2>2, FS_EmptySet
  <2>3. ASSUME NEW o \in Waiting(r) PROVE Cardinality(Waiting(r)) <= 1
    <3>1. Waiting(r) = {o}
      BY <2>1
    <3> QED BY <3>1, FS_Singleton
  <2> QED BY <2>2, <2>3
<1>2. SequelInv => SequentialOffers
  BY <1>1 DEF SequentialOffers, Calm
<1> QED BY <1>2, TypeInit, TypeStep, SearchInit, SearchStep, SequelInit, SequelStep, PTL DEF Spec

\* Only CancelRide moves a ride in a handler, and it is called at the end of one.
LEMMA HandlerMoves ==
  ASSUME NEW w \in Workers, Step(w) \/ Fails(w)
  PROVE  \/ ride' = ride
         \/ call[w].pc = "cancel" /\ Cancelled(Ride(w))
<1>1. CASE \/ CreateOffer(w) \/ CreateOfferFails(w)
  BY <1>1 DEF CreateOffer, CreateOfferFails, OfferCreated, tables
<1>2. CASE CancelRide(w) \/ CancelRideFails(w)
  BY <1>2 DEF CancelRide, CancelRideFails, At, tables
<1>3. CASE \/ GetActive(w) \/ HasCandidates(w) \/ AcquireRideLock(w) \/ Consider(w) \/ FindCandidates(w)
           \/ ReleaseRideLock(w) \/ StoreCandidates(w) \/ ClearAccepted(w) \/ UnlockAccepted(w)
  BY <1>3 DEF GetActive, HasCandidates, AcquireRideLock, Consider, FindCandidates, ReleaseRideLock,
              StoreCandidates, ClearAccepted, UnlockAccepted, tables
<1>4. CASE \/ SetCooldown(w) \/ MatchActive(w) \/ ClearActive(w) \/ NextOffer(w) \/ PopCandidate(w)
           \/ CheckCount(w) \/ HasOffer(w) \/ NotifyOfferSent(w) \/ SetActive(w) \/ IncrementCount(w)
  BY <1>4 DEF SetCooldown, MatchActive, ClearActive, NextOffer, PopCandidate, CheckCount, HasOffer,
              NotifyOfferSent, SetActive, IncrementCount, tables
<1>5. CASE \/ GiveUp(w) \/ ClearRide(w) \/ RedisFails(w) \/ RedisFailsSilently(w) \/ FetchFails(w) \/ Crash(w)
  BY <1>5 DEF GiveUp, ClearRide, RedisFails, RedisFailsSilently, FetchFails, Crash, tables
<1> QED BY <1>1, <1>2, <1>3, <1>4, <1>5 DEF Step, Fails

\* The service gives up a ride only when no driver is being asked and none has accepted:
\* the handler that gives up was the only one under way, its own offer was declined, and
\* the request is not searched again.
THEOREM MatchingGivesUpUnwanted == Spec => GivesUpUnwanted
<1>1. ASSUME TypeInv, SequelInv, Next, NEW r \in Rides, GivesUp(r), Firm
      PROVE  ~Wanted(r)
  <2>1. Kept(r)
    BY <1>1, FirmCalm DEF SequelInv, RideInv
  <2>2. UNCHANGED maxOffers /\ call' # call /\ ride'[r] # ride[r]
    BY <1>1 DEF Next, GivesUp
  <2>3. ASSUME NEW w \in Workers, call[w].pc = "cancel", Cancelled(Ride(w))
        PROVE  ~Wanted(r)
    <3>1. ride' = [ride EXCEPT ![Ride(w)].status = "CANCELLED"]
      BY <2>2, <2>3 DEF Cancelled, RideMoved, tables
    <3>2. Ride(w) = r
      BY <2>2, <3>1 DEF TypeInv, Rows, TablesTypeOK
    <3>3. Claims(r) = {} /\ Accepted(r) = {}
      BY <2>1, <2>3, <3>2 DEF Kept, GivingUp, Leaving
    <3>4. Waiting(r) = {}
      BY <3>3, NothingClaimed
    <3> QED BY <3>3, <3>4 DEF Wanted, Waiting, Accepted
  <2>4. ASSUME NEW w \in Workers, Step(w) \/ Fails(w) PROVE ~Wanted(r)
    BY <2>2, <2>3, <2>4, HandlerMoves
  <2>5. ASSUME NEW w \in Workers, NEW i \in 1..Len(outbox), Deliver(w, i) PROVE FALSE
    BY <2>2, <2>5 DEF Deliver, tables
  <2>6. ~World
    BY <2>2 DEF World
  <2> QED BY <1>1, <2>2, <2>4, <2>5, <2>6, WorldShape DEF Next
<1>2. TypeInv /\ SequelInv /\ [Next]_vars =>
        [\A r \in Rides : (GivesUp(r) /\ AtMostOneBut({"rpc", "again", "crash"})) => ~Wanted(r)]_vars
  BY <1>1 DEF Firm
<1> QED BY <1>2, TypeInit, TypeStep, SearchInit, SearchStep, SequelInit, SequelStep, PTL DEF Spec, GivesUpUnwanted
=============================================================================
