------------------------------ MODULE Matching ------------------------------
(***************************************************************************)
(* The matching service on top of the ride service's promise.  Handlers of  *)
(* all replicas consume ride.requested and the outcomes of offers, keep     *)
(* their memory of a ride in Redis keys that expire, and drive the ride     *)
(* service by two RPCs, CreateOffer and CancelRide.  Each Redis command and *)
(* each RPC is a step; the ride service is the module RideLifecycle.        *)
(***************************************************************************)
EXTENDS RideLifecycle, FiniteSets

Ext == INSTANCE SequencesExt
Fun == INSTANCE Functions

CONSTANTS
  Workers,        \* consumer goroutines, over all subjects and replicas
  OfferRetryMax,  \* candidates one call of sendNextOffer tries
  Limits,         \* what MaxOffers may be configured to
  Incidents,      \* the kinds of incidents that may happen
  MaxIncidents,   \* bound: incidents of all kinds
  ForeignOffer    \* an offer of a ride that is none of Rides

ASSUME MatchingAssumption ==
  /\ IsFiniteSet(Workers)
  /\ OfferRetryMax \in Nat \ {0} /\ Limits \subseteq Nat \ {0}
  /\ Incidents \subseteq {"early", "redis", "fetch", "crash", "rpc", "ride key", "driver key", "again", "status"}
  /\ MaxIncidents \in Nat
  /\ ForeignOffer \notin Offers \cup {None}

VARIABLES
  maxOffers,   \* offers of a ride before it is given up, configured at the start
  candidates,  \* ride:candidates: per ride, the drivers still to be asked
  active,      \* ride:active_offer: per ride, the offer it waits for
  count,       \* ride:offer_count: per ride
  lock,        \* the rides with a ride:lock
  driverOffer, \* driver:offer: per driver, the offer it was sent
  available,   \* drivers:available
  cooldown,    \* the drivers with a driver:cooldown
  done,        \* the events (indices of outbox) that were acknowledged
  call,        \* per worker, the handler it executes
  gaveUp,      \* the rides cancelled under the key "ride:NO_DRIVER"
  rounds,      \* per ride, how often its candidates were stored
  incidents    \* per kind, how many there were

redis == <<candidates, active, count, lock, driverOffer, available, cooldown>>
vars == <<maxOffers, tables, redis, done, call, gaveUp, rounds, incidents>>

Requested == TopicOf("REQUESTED")
Handled == {Requested} \cup {TopicOf(s) : s \in Outcomes}
Steps == {"idle", "active", "has", "lock", "find", "release", "store", "accepted", "cool", "match",
          "clear", "next", "pop", "count", "busy", "create", "sent", "activate", "increment",
          "giveup", "forget", "cancel", "unlock", "stopped"}
Call == [pc: Steps, event: Nat, ride: Rides \cup {None}, list: Seq(Drivers),
         driver: Drivers \cup {None}, offer: Offers \cup {None}, tried: Nat, first: BOOLEAN]
Idle == [pc |-> "idle", event |-> 0, ride |-> None, list |-> <<>>,
         driver |-> None, offer |-> None, tried |-> 0, first |-> FALSE]

Init ==
  /\ maxOffers \in Limits
  /\ InitTables
  /\ candidates = [r \in Rides |-> <<>>]
  /\ active = [r \in Rides |-> None]
  /\ count = [r \in Rides |-> 0]
  /\ lock = {}
  /\ driverOffer = [d \in Drivers |-> None]
  /\ available = Drivers
  /\ cooldown = {}
  /\ done = {}
  /\ call = [w \in Workers |-> Idle]
  /\ gaveUp = {}
  /\ rounds = [r \in Rides |-> 0]
  /\ incidents = [kind \in Incidents |-> 0]

Incident(kind) ==
  /\ kind \in Incidents
  /\ Fun!FoldFunction(+, 0, incidents) < MaxIncidents
  /\ incidents' = [incidents EXCEPT ![kind] = @ + 1]

-----------------------------------------------------------------------------
(* The ride service, the drivers and the riders. *)

RequestRide(r) == RideCreated(r) /\ UNCHANGED <<redis, done, call, gaveUp, rounds, incidents>>

RiderCancels(r) ==
  /\ ride[r].status = "REQUESTED"
  /\ RideMoved(r, "CANCELLED")
  /\ UNCHANGED <<redis, done, call, gaveUp, rounds, incidents>>

\* The driver answers, or the expiry worker settles the offer.
OfferEnds(o, s) ==
  /\ offer[o].status = "PENDING"
  /\ OfferSettled(o, s)
  /\ IF active[offer[o].ride] = o THEN UNCHANGED incidents ELSE Incident("early")
  /\ UNCHANGED <<redis, done, call, gaveUp, rounds>>

UpdateDriverStatus(d) ==
  /\ Incident("status")
  /\ available' \in {available \cup {d}, available \ {d}}
  /\ UNCHANGED <<tables, candidates, active, count, lock, driverOffer, cooldown,
                 done, call, gaveUp, rounds>>

\* The handler of a ride outside Rides finds the driver free and sends it an offer.  If it
\* looked before this ride's offer was marked, it overwrites a key that is there, which no
\* handler sees.
OtherRideAsks(d) ==
  /\ driverOffer[d] = None
  /\ driverOffer' = [driverOffer EXCEPT ![d] = ForeignOffer]
  /\ available' = available \ {d}
  /\ UNCHANGED <<tables, candidates, active, count, lock, cooldown, done, call, gaveUp, rounds, incidents>>

-----------------------------------------------------------------------------
At(w, pc) == call[w].pc = pc
Ride(w) == call[w].ride
Go(w, pc) == call' = [call EXCEPT ![w].pc = pc]
RideOf(e) == IF e.id \in Rides THEN e.id ELSE offer[e.id].ride
InHand(i) == \E w \in Workers : call[w].event = i

\* Pull: a message of one of the subjects, for the first time, again after Nak, or
\* once more although it was delivered (ack lost, ack wait over, published twice).
Deliver(w, i) ==
  LET e == outbox[i] IN
  /\ At(w, "idle")
  /\ e.topic \in Handled
  /\ IF i \in done \/ InHand(i)
     THEN Incident("again") ELSE UNCHANGED incidents
  /\ call' = [call EXCEPT ![w] =
       [Idle EXCEPT !.pc = CASE e.topic = Requested -> "active"
                             [] e.topic = TopicOf("ACCEPTED") -> "accepted"
                             [] OTHER -> "cool",
                    !.event = i, !.ride = RideOf(e),
                    !.offer = IF e.id \in Offers THEN e.id ELSE None]]
  /\ UNCHANGED <<tables, redis, done, gaveUp, rounds>>

Ack(w) ==
  /\ done' = done \cup {call[w].event}
  /\ call' = [call EXCEPT ![w] = Idle]

\* The handler returns an error: the message will be delivered again.
Nak(w) ==
  /\ call' = [call EXCEPT ![w] = Idle]
  /\ UNCHANGED done

Stop(w, yes, pc) == IF yes THEN Ack(w) ELSE Go(w, pc) /\ UNCHANGED done
Release(r) == lock' = lock \ {r}

(* HandleRideRequested *)

GetActive(w) ==
  /\ At(w, "active")
  /\ Stop(w, active[Ride(w)] # None, "has")
  /\ UNCHANGED <<tables, redis, gaveUp, rounds, incidents>>

HasCandidates(w) ==
  /\ At(w, "has")
  /\ Stop(w, candidates[Ride(w)] # <<>>, "lock")
  /\ UNCHANGED <<tables, redis, gaveUp, rounds, incidents>>

\* Mutant: the result of SETNX is not looked at.
AcquireAnyway(w) ==
  /\ At(w, "lock")
  /\ lock' = lock \cup {Ride(w)}
  /\ Go(w, "find")
  /\ UNCHANGED <<tables, candidates, active, count, driverOffer, available, cooldown,
                 done, gaveUp, rounds, incidents>>

AcquireRideLock(w) ==
  /\ At(w, "lock")
  /\ lock' = lock \cup {Ride(w)}
  /\ Stop(w, Ride(w) \in lock, "find")
  /\ UNCHANGED <<tables, candidates, active, count, driverOffer, available, cooldown,
                 gaveUp, rounds, incidents>>

\* Nearby, IsAvailable and IsCoolingDown: any driver may be near the pickup.
Near == available \ cooldown

\* Jittered arrival times may give any order.
RankedWith(list, d) == {Ext!InsertAt(list, i, d) : i \in 1..(Len(list) + 1)}

\* The drivers near the pickup are looked up one by one, each command at its time.
Consider(w) ==
  /\ At(w, "find")
  /\ \E d \in Near : \E list \in RankedWith(call[w].list, d) :
       /\ ~Ext!Contains(call[w].list, d)
       /\ call' = [call EXCEPT ![w].list = list]
  /\ UNCHANGED <<tables, redis, done, gaveUp, rounds, incidents>>

FindCandidates(w) ==
  /\ At(w, "find")
  /\ Go(w, IF call[w].list = <<>> THEN "release" ELSE "store")
  /\ UNCHANGED <<tables, redis, done, gaveUp, rounds, incidents>>

ReleaseRideLock(w) ==
  /\ At(w, "release")
  /\ Release(Ride(w))
  /\ Go(w, "cancel")
  /\ UNCHANGED <<tables, candidates, active, count, driverOffer, available, cooldown,
                 done, gaveUp, rounds, incidents>>

\* seedCandidates: one transaction replaces the list.
StoreCandidates(w) ==
  LET r == Ride(w) IN
  /\ At(w, "store")
  /\ candidates' = [candidates EXCEPT ![r] = call[w].list]
  /\ rounds' = [rounds EXCEPT ![r] = @ + 1]
  /\ call' = [call EXCEPT ![w].pc = "next", ![w].list = <<>>, ![w].first = TRUE]
  /\ UNCHANGED <<tables, active, count, lock, driverOffer, available, cooldown,
                 done, gaveUp, incidents>>

(* HandleOfferAccepted: the keys and the lock of the ride are deleted *)

Forget(r) ==
  /\ candidates' = [candidates EXCEPT ![r] = <<>>]
  /\ active' = [active EXCEPT ![r] = None]
  /\ count' = [count EXCEPT ![r] = 0]
  /\ Release(r)

\* Mutant: the handler of a declined offer.
ClearAndGoOn(w) ==
  /\ At(w, "accepted")
  /\ active' = [active EXCEPT ![Ride(w)] = None]
  /\ Go(w, "next")
  /\ UNCHANGED <<tables, candidates, count, lock, driverOffer, available, cooldown,
                 done, gaveUp, rounds, incidents>>

ClearAccepted(w) ==
  /\ At(w, "accepted")
  /\ Forget(Ride(w))
  /\ Go(w, "unlock")
  /\ UNCHANGED <<tables, driverOffer, available, cooldown, done, gaveUp, rounds, incidents>>

UnlockAccepted(w) ==
  /\ At(w, "unlock")
  /\ Release(Ride(w))
  /\ Ack(w)
  /\ UNCHANGED <<tables, candidates, active, count, driverOffer, available, cooldown,
                 gaveUp, rounds, incidents>>

(* handleOfferCompletion *)

SetCooldown(w) ==
  /\ At(w, "cool")
  /\ cooldown' = cooldown \cup {offer[call[w].offer].driver}
  /\ Go(w, "match")
  /\ UNCHANGED <<tables, candidates, active, count, lock, driverOffer, available,
                 done, gaveUp, rounds, incidents>>

\* An event about another offer than the active one is dropped.
MatchActive(w) ==
  /\ At(w, "match")
  /\ Stop(w, active[Ride(w)] # call[w].offer, "clear")
  /\ UNCHANGED <<tables, redis, gaveUp, rounds, incidents>>

\* Mutant: the active offer is left to expire.
ClearNothing(w) ==
  /\ At(w, "clear")
  /\ Go(w, "next")
  /\ UNCHANGED <<tables, redis, done, gaveUp, rounds, incidents>>

ClearActive(w) ==
  /\ At(w, "clear")
  /\ active' = [active EXCEPT ![Ride(w)] = None]
  /\ Go(w, "next")
  /\ UNCHANGED <<tables, candidates, count, lock, driverOffer, available, cooldown,
                 done, gaveUp, rounds, incidents>>

(* sendNextOffer *)

NextOffer(w) ==
  /\ At(w, "next")
  /\ Stop(w, active[Ride(w)] # None, "pop")
  /\ UNCHANGED <<tables, redis, gaveUp, rounds, incidents>>

PopCandidate(w) ==
  LET r == Ride(w) IN
  /\ At(w, "pop")
  /\ IF candidates[r] = <<>>
     THEN Go(w, "giveup") /\ UNCHANGED candidates
     ELSE /\ call' = [call EXCEPT ![w].pc = "count", ![w].driver = Head(candidates[r])]
          /\ candidates' = [candidates EXCEPT ![r] = Tail(@)]
  /\ UNCHANGED <<tables, active, count, lock, driverOffer, available, cooldown,
                 done, gaveUp, rounds, incidents>>

CheckCount(w) ==
  /\ At(w, "count")
  /\ Go(w, IF count[Ride(w)] >= maxOffers THEN "giveup" ELSE "busy")
  /\ UNCHANGED <<tables, redis, done, gaveUp, rounds, incidents>>

\* continue: the next candidate, until the retries are used up; then the handler
\* returns nil.
Continue(w) ==
  IF call[w].tried + 1 < OfferRetryMax
  THEN /\ call' = [call EXCEPT ![w].pc = "pop", ![w].tried = @ + 1, ![w].driver = None]
       /\ UNCHANGED done
  ELSE Ack(w)

HasOffer(w) ==
  /\ At(w, "busy")
  /\ IF driverOffer[call[w].driver] # None THEN Continue(w)
     ELSE Go(w, "create") /\ UNCHANGED done
  /\ UNCHANGED <<tables, redis, gaveUp, rounds, incidents>>

\* The id of an offer is new; which one it is makes no difference.
NewOffer ==
  LET unused == {o \in Offers : offer[o].status = "ABSENT"}
  IN  IF unused = {} THEN {} ELSE {CHOOSE o \in unused : TRUE}

CreateOffer(w) ==
  /\ At(w, "create")
  /\ \E o \in NewOffer :
       /\ OfferCreated(o, Ride(w), call[w].driver)
       /\ call' = [call EXCEPT ![w].pc = "sent", ![w].offer = o]
  /\ UNCHANGED <<redis, done, gaveUp, rounds, incidents>>

\* Mutant: the next attempt is for the same candidate.
CreateOfferRetried(w) ==
  /\ At(w, "create")
  /\ Incident("rpc")
  /\ \/ \E o \in NewOffer : OfferCreated(o, Ride(w), call[w].driver)
     \/ UNCHANGED tables
  /\ UNCHANGED <<redis, done, call, gaveUp, rounds>>

\* The RPC returns an error, before or after the ride service has committed.
CreateOfferFails(w) ==
  /\ At(w, "create")
  /\ Incident("rpc")
  /\ \/ \E o \in NewOffer : OfferCreated(o, Ride(w), call[w].driver)
     \/ UNCHANGED tables
  /\ Continue(w)
  /\ UNCHANGED <<redis, gaveUp, rounds>>

NotifyOfferSent(w) ==
  LET d == call[w].driver IN
  /\ At(w, "sent")
  /\ driverOffer' = [driverOffer EXCEPT ![d] = call[w].offer]
  /\ available' = available \ {d}
  /\ Go(w, "activate")
  /\ UNCHANGED <<tables, candidates, active, count, lock, cooldown, done, gaveUp, rounds, incidents>>

SetActive(w) ==
  /\ At(w, "activate")
  /\ active' = [active EXCEPT ![Ride(w)] = call[w].offer]
  /\ Go(w, "increment")
  /\ UNCHANGED <<tables, candidates, count, lock, driverOffer, available, cooldown,
                 done, gaveUp, rounds, incidents>>

\* Mutant: the loop over the candidates goes on after an offer was made.
IncrementAndGoOn(w) ==
  /\ At(w, "increment")
  /\ count' = [count EXCEPT ![Ride(w)] = @ + 1]
  /\ Continue(w)
  /\ UNCHANGED <<tables, candidates, active, lock, driverOffer, available, cooldown,
                 gaveUp, rounds, incidents>>

IncrementCount(w) ==
  /\ At(w, "increment")
  /\ count' = [count EXCEPT ![Ride(w)] = @ + 1]
  /\ Ack(w)
  /\ UNCHANGED <<tables, candidates, active, lock, driverOffer, available, cooldown,
                 gaveUp, rounds, incidents>>

\* No candidate is left, or the ride had maxOffers: unlock it, forget it ...
GiveUp(w) ==
  /\ At(w, "giveup")
  /\ Release(Ride(w))
  /\ Go(w, "forget")
  /\ UNCHANGED <<tables, candidates, active, count, driverOffer, available, cooldown,
                 done, gaveUp, rounds, incidents>>

ClearRide(w) ==
  /\ At(w, "forget")
  /\ Forget(Ride(w))
  /\ Go(w, "cancel")
  /\ UNCHANGED <<tables, driverOffer, available, cooldown, done, gaveUp, rounds, incidents>>

\* ... and cancel it, under a key of its own: a second time is answered from the key.
Cancelled(r) ==
  IF r \in gaveUp THEN UNCHANGED <<tables, gaveUp>>
  ELSE RideMoved(r, "CANCELLED") /\ gaveUp' = gaveUp \cup {r}

CancelRide(w) ==
  /\ At(w, "cancel")
  /\ Cancelled(Ride(w))
  /\ Ack(w)
  /\ UNCHANGED <<redis, rounds, incidents>>

(* Failures *)

\* HandleRideRequested releases the lock when seedCandidates or sendNextOffer returns
\* an error, and keeps it when FindCandidates does.
ReleaseOnError(w) == IF call[w].first \/ At(w, "store") THEN Release(Ride(w)) ELSE UNCHANGED lock

CancelRideFails(w) ==
  /\ At(w, "cancel")
  /\ Incident("rpc")
  /\ Cancelled(Ride(w)) \/ UNCHANGED <<tables, gaveUp>>
  /\ ReleaseOnError(w)
  /\ Nak(w)
  /\ UNCHANGED <<candidates, active, count, driverOffer, available, cooldown, rounds>>

\* A command fails whose error the handler returns; it may have taken effect.
RedisFails(w) ==
  LET r == Ride(w) IN
  /\ call[w].pc \in {"active", "has", "lock", "find", "store", "match", "next", "pop", "count", "busy"}
  /\ Incident("redis")
  /\ ReleaseOnError(w) \/ (At(w, "lock") /\ lock' = lock \cup {r})
  /\ \/ UNCHANGED candidates
     \/ At(w, "store") /\ candidates' = [candidates EXCEPT ![r] = call[w].list]
     \/ At(w, "pop") /\ candidates[r] # <<>> /\ candidates' = [candidates EXCEPT ![r] = Tail(@)]
  /\ rounds' = [rounds EXCEPT ![r] = IF At(w, "store") THEN @ + 1 ELSE @]
  /\ Nak(w)
  /\ UNCHANGED <<tables, active, count, driverOffer, available, cooldown, gaveUp>>

\* A command fails whose error the handler drops; of MarkOfferSent's pipeline a part
\* may have run.
RedisFailsSilently(w) ==
  /\ Incident("redis")
  /\ \/ At(w, "cool") /\ Go(w, "match") /\ UNCHANGED <<done, driverOffer>>
     \/ At(w, "release") /\ Go(w, "cancel") /\ UNCHANGED <<done, driverOffer>>
     \/ At(w, "clear") /\ Go(w, "next") /\ UNCHANGED <<done, driverOffer>>
     \/ At(w, "giveup") /\ Go(w, "forget") /\ UNCHANGED <<done, driverOffer>>
     \/ At(w, "forget") /\ Go(w, "cancel") /\ UNCHANGED <<done, driverOffer>>
     \/ /\ At(w, "sent") /\ Go(w, "activate") /\ UNCHANGED done
        /\ driverOffer' \in {driverOffer, [driverOffer EXCEPT ![call[w].driver] = call[w].offer]}
     \/ At(w, "activate") /\ Go(w, "increment") /\ UNCHANGED <<done, driverOffer>>
     \/ At(w, "accepted") /\ Go(w, "unlock") /\ UNCHANGED <<done, driverOffer>>
     \/ (At(w, "increment") \/ At(w, "unlock")) /\ Ack(w) /\ UNCHANGED driverOffer
  /\ UNCHANGED <<tables, candidates, active, count, lock, available, cooldown, gaveUp, rounds>>

\* The process stops in a handler; its message is delivered again.
Crash(w) ==
  /\ call[w].pc \notin {"idle", "stopped"}
  /\ Incident("crash")
  /\ Nak(w)
  /\ UNCHANGED <<tables, redis, gaveUp, rounds>>

\* Pull returns the error of Fetch, and the consumer is not started again.
FetchFails(w) ==
  /\ At(w, "idle")
  /\ Incident("fetch")
  /\ Go(w, "stopped")
  /\ UNCHANGED <<tables, redis, done, gaveUp, rounds>>

\* A key of a ride expires ...
RideKeyExpires(r) ==
  /\ Incident("ride key")
  /\ \/ candidates[r] # <<>> /\ candidates' = [candidates EXCEPT ![r] = <<>>]
        /\ UNCHANGED <<active, count, lock>>
     \/ active[r] # None /\ active' = [active EXCEPT ![r] = None]
        /\ UNCHANGED <<candidates, count, lock>>
     \/ count[r] # 0 /\ count' = [count EXCEPT ![r] = 0]
        /\ UNCHANGED <<candidates, active, lock>>
     \/ r \in lock /\ Release(r)
        /\ UNCHANGED <<candidates, active, count>>
  /\ UNCHANGED <<tables, driverOffer, available, cooldown, done, call, gaveUp, rounds>>

\* ... or one of a driver.
DriverKeyExpires(d) ==
  /\ Incident("driver key")
  /\ \/ driverOffer[d] # None /\ driverOffer' = [driverOffer EXCEPT ![d] = None]
        /\ UNCHANGED cooldown
     \/ d \in cooldown /\ cooldown' = cooldown \ {d}
        /\ UNCHANGED driverOffer
  /\ UNCHANGED <<tables, candidates, active, count, lock, available, done, call, gaveUp, rounds>>

-----------------------------------------------------------------------------
Step(w) ==
  \/ GetActive(w) \/ HasCandidates(w) \/ AcquireRideLock(w) \/ Consider(w) \/ FindCandidates(w)
  \/ ReleaseRideLock(w) \/ StoreCandidates(w)
  \/ ClearAccepted(w) \/ UnlockAccepted(w)
  \/ SetCooldown(w) \/ MatchActive(w) \/ ClearActive(w)
  \/ NextOffer(w) \/ PopCandidate(w) \/ CheckCount(w) \/ HasOffer(w) \/ CreateOffer(w)
  \/ NotifyOfferSent(w) \/ SetActive(w) \/ IncrementCount(w)
  \/ GiveUp(w) \/ ClearRide(w) \/ CancelRide(w)

Fails(w) ==
  \/ CreateOfferFails(w) \/ CancelRideFails(w)
  \/ RedisFails(w) \/ RedisFailsSilently(w) \/ FetchFails(w) \/ Crash(w)

Next ==
  /\ UNCHANGED maxOffers
  /\ \/ \E r \in Rides : RequestRide(r) \/ RiderCancels(r) \/ RideKeyExpires(r)
     \/ \E o \in Offers, s \in Outcomes : OfferEnds(o, s)
     \/ \E d \in Drivers : UpdateDriverStatus(d) \/ OtherRideAsks(d) \/ DriverKeyExpires(d)
     \/ \E w \in Workers :
          \/ \E i \in 1..Len(outbox) : Deliver(w, i)
          \/ Step(w)
          \/ Fails(w)

Spec == Init /\ [][Next]_vars

\* Consumers poll and handlers run; an offer is settled in the end, by the driver or by
\* the expiry worker (OverdueOffersSettle of RideService).
Fairness ==
  /\ \A w \in Workers : WF_vars(UNCHANGED maxOffers /\ (Step(w) \/ \E i \in 1..Len(outbox) : Deliver(w, i)))
  /\ \A o \in Offers : WF_vars(UNCHANGED maxOffers /\ OfferEnds(o, "EXPIRED"))

FairSpec == Spec /\ Fairness

-----------------------------------------------------------------------------
TypeOK ==
  /\ maxOffers \in Limits
  /\ TablesTypeOK
  /\ candidates \in [Rides -> Seq(Drivers)]
  /\ active \in [Rides -> Offers \cup {None}]
  /\ count \in [Rides -> Nat]
  /\ lock \in SUBSET Rides
  /\ driverOffer \in [Drivers -> Offers \cup {None, ForeignOffer}]
  /\ available \in SUBSET Drivers /\ cooldown \in SUBSET Drivers
  /\ done \in SUBSET (1..Len(outbox))
  /\ call \in [Workers -> Call]
  /\ gaveUp \in SUBSET Rides
  /\ rounds \in [Rides -> Nat]
  /\ incidents \in [Incidents -> Nat]

OffersOf(r) == {o \in Offers : offer[o].ride = r}

\* A driver is asked about a ride at most once per search, whatever events are repeated,
\* handlers race, keys expire and RPCs fail: candidates are popped, never put back.
AskedOncePerRound ==
  \A r \in Rides, d \in Drivers :
    Cardinality({o \in OffersOf(r) : offer[o].driver = d}) <= rounds[r]

\* At most one incident happened, and it was not one of these.
AtMostOneBut(kinds) ==
  /\ \A kind \in Incidents \cap kinds : incidents[kind] = 0
  /\ \A k1, k2 \in Incidents : incidents[k1] > 0 /\ incidents[k2] > 0 => k1 = k2
  /\ \A kind \in Incidents : incidents[kind] <= 1

\* ride:lock admits one search for candidates of a ride at a time, in spite of its
\* early releases, while it does not expire.
SearchedByOne ==
  AtMostOneBut({"ride key"}) =>
    \A v, w \in Workers :
      (call[v].pc \in {"find", "store"} /\ call[w].pc \in {"find", "store"} /\ Ride(v) = Ride(w)) => v = w

Waiting(r) == {o \in OffersOf(r) : offer[o].status = "PENDING"}

\* README.md:53 "sequential offers": a ride waits for one driver at a time, whichever
\* single incident happens, but for a lost reply of an RPC and an event delivered again.
SequentialOffers == AtMostOneBut({"rpc", "again"}) => \A r \in Rides : Cardinality(Waiting(r)) <= 1

GivesUp(r) == ride[r].status # "CANCELLED" /\ ride'[r].status = "CANCELLED" /\ call' # call
Wanted(r) == \E o \in OffersOf(r) : offer[o].status \in {"PENDING", "ACCEPTED"}

\* The service gives up a ride only when no driver is being asked and none has accepted,
\* whichever single incident happens, but for a lost reply, a repeated event and a crash.
GivesUpUnwanted ==
  [][\A r \in Rides : (GivesUp(r) /\ AtMostOneBut({"rpc", "again", "crash"})) => ~Wanted(r)]_vars

\* README.md:45 "Idempotent handlers with at-least-once delivery": an event that is
\* delivered again does not make the service give up a ride that a driver accepted.
AcceptedIsKept ==
  [][\A r \in Rides : GivesUp(r) => \A o \in OffersOf(r) : offer[o].status # "ACCEPTED"]_vars

\* Incidents after which a ride may wait for ever: an answer that comes before the offer
\* is remembered is dropped, a search or a hand-over to the next driver that fails half
\* way is taken for one that is under way, and a key that expires takes its place in the
\* search along.
Stalls == {"early", "redis", "rpc", "crash", "ride key"} \cap Incidents

\* The last candidate this handler tries holds the offer of another ride: the handler
\* returns nil with nobody asked, and no event is left that would search again.
PassedOver(r) ==
  \E w \in Workers :
    /\ At(w, "busy") /\ Ride(w) = r /\ call[w].tried + 1 >= OfferRetryMax
    /\ driverOffer[call[w].driver] \notin OffersOf(r) \cup {None}

\* The ride found a driver or was cancelled.
Settled(r) ==
  \/ ride[r].status = "CANCELLED"
  \/ \E o \in OffersOf(r) : offer[o].status = "ACCEPTED"

\* README.md:11 "drivers get matched, and rides move through clear states": a requested
\* ride finds a driver or is cancelled, unless its handler passed over drivers asked for
\* another ride or one of the stalls happened, in spite of competing rides, repeated
\* events, stopped consumers, drivers that come and go and locks on drivers that expire.
RequestEnds ==
  \A r \in Rides :
    [](ride[r].status = "REQUESTED" => <>Settled(r))
      \/ <>(PassedOver(r) \/ \E kind \in Stalls : incidents[kind] > 0)
=============================================================================
