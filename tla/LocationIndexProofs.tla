------------------------- MODULE LocationIndexProofs -------------------------
(***************************************************************************)
(* drivers:geo settles on the last position, and live drivers are found,   *)
(* for any number of drivers, calls, consumers and removers.               *)
(*                                                                         *)
(* Both rest on the order in which the events of one driver are handled:   *)
(* while nothing disturbs it, its events are done one after the other, so  *)
(* only its newest event can be the last to write drivers:geo.             *)
(***************************************************************************)
EXTENDS LocationIndex, SequenceTheorems, TLAPS

CallStages == {"free", "upsert", "last", "geo", "publish"}
CallRecord == [stage: CallStages, driver: Drivers \cup {Nobody}, report: Nat]
EventRecord == [driver: Drivers, report: Nat \ {0}, state: {"new", "taken", "handled", "done", "again"}]
RemoverRecord == [stage: {"idle", "listed", "stale"}, todo: SUBSET Drivers,
                  found: SUBSET Drivers, applied: SUBSET Drivers]

TypeOK ==
    /\ hash \in [Drivers -> Nat] /\ geo \in [Drivers -> Nat]
    /\ ttl \in [Drivers -> BOOLEAN] /\ last \in [Drivers -> BOOLEAN] /\ rate \in [Drivers -> BOOLEAN]
    /\ reports \in Nat /\ faults \in Nat
    /\ call \in [Calls -> CallRecord]
    /\ \A c \in Calls : /\ call[c].stage = "free" => call[c] = Free
                        /\ call[c].stage # "free" => call[c].driver \in Drivers /\ call[c].report > 0
    /\ events \in Seq(EventRecord)
    /\ hand \in [Consumers -> Nat]
    /\ remover \in [Removers -> RemoverRecord]
    /\ disturbed \subseteq Drivers /\ slow \subseteq Drivers

(* An event being handled is in one hand, and what a hand holds is being   *)
(* handled.                                                                *)
Held ==
    /\ \A w \in Consumers : hand[w] # 0 =>
         hand[w] \in DOMAIN events /\ events[hand[w]].state \in {"taken", "handled"}
    /\ \A v, w \in Consumers : hand[v] # 0 /\ hand[v] = hand[w] => v = w
    /\ \A i \in DOMAIN events : events[i].state \in {"taken", "handled"} =>
         \E w \in Consumers : hand[w] = i

Of(d) == {i \in DOMAIN events : events[i].driver = d}
Newest(d) == {i \in Of(d) : \A j \in Of(d) : j <= i}
CallAt(d, stages) == \E c \in CallsOf(d) : call[c].stage \in stages
Applied(i) == events[i].state \in {"handled", "done"}

(* One call at a time; events are taken in order, each done before the next*)
Orderly(d) ==
    /\ \A b, c \in CallsOf(d) : b = c
    /\ \A i \in Of(d) : events[i].state # "again"
    /\ \A i, j \in Of(d) : i < j /\ events[j].state # "new" => events[i].state = "done"
    /\ Of(d) # {} => Newest(d) # {}

(* The hash is the call's report, or that of the newest event.             *)
Remembered(d) ==
    \/ hash[d] = 0
    \/ \E c \in CallsOf(d) : call[c].stage \in {"last", "geo", "publish"} /\ hash[d] = call[c].report
    \/ /\ ~CallAt(d, {"last", "geo", "publish"})
       /\ \E i \in Newest(d) : hash[d] = events[i].report

(* Once the newest event is handled, drivers:geo has its position.         *)
Placed(d) ==
    \/ CallAt(d, {"publish"})
    \/ geo[d] = 0
    \/ \E i \in Newest(d) : Applied(i) => geo[d] = events[i].report

(* A live driver is in drivers:geo once its newest event is handled, and   *)
(* whoever is about to take it out knows no better than that event.        *)
Kept(d) ==
    \/ ~last[d]
    \/ CallAt(d, {"geo", "publish"})
    \/ \E i \in Newest(d) : Applied(i) /\ d \notin slow =>
         /\ geo[d] # 0
         /\ \A r \in Removers : remover[r].stage = "stale" /\ d \in remover[r].found
                                  => d \in remover[r].applied

DriverInv(d) == Orderly(d) /\ Remembered(d) /\ Placed(d) /\ Kept(d)

IInv ==
    /\ TypeOK
    /\ Held
    /\ \A d \in Drivers \ disturbed : DriverInv(d)

------------------------------------------------------------------------------
(* What one step does to the records it changes.                           *)

LEMMA CallChanged ==
    ASSUME TypeOK, NEW c \in Calls, NEW x \in CallRecord, call' = [call EXCEPT ![c] = x],
           x.stage = "free" => x = Free,
           x.stage # "free" => x.driver \in Drivers /\ x.report > 0
    PROVE  /\ call' \in [Calls -> CallRecord]
           /\ call'[c] = x
           /\ \A b \in Calls \ {c} : call'[b] = call[b]
           /\ \A b \in Calls :
                /\ call'[b].stage = "free" => call'[b] = Free
                /\ call'[b].stage # "free" => call'[b].driver \in Drivers /\ call'[b].report > 0
<1>1. call' \in [Calls -> CallRecord] /\ call'[c] = x /\ \A b \in Calls \ {c} : call'[b] = call[b]
  BY DEF TypeOK
<1>2. \A b \in Calls : /\ call[b].stage = "free" => call[b] = Free
                       /\ call[b].stage # "free" => call[b].driver \in Drivers /\ call[b].report > 0
  BY DEF TypeOK
<1> QED
  BY <1>1, <1>2

LEMMA FreeCall == Free \in CallRecord /\ Free.stage = "free" /\ Free.driver = Nobody
BY DEF Free, CallRecord, CallStages

LEMMA StageChanged ==
    ASSUME TypeOK, NEW c \in Calls, NEW s \in CallStages \ {"free"}, call[c].stage # "free",
           call' = [call EXCEPT ![c].stage = s]
    PROVE  /\ call' = [call EXCEPT ![c] = [call[c] EXCEPT !.stage = s]]
           /\ [call[c] EXCEPT !.stage = s] \in CallRecord
           /\ [call[c] EXCEPT !.stage = s].stage = s
           /\ [call[c] EXCEPT !.stage = s].driver = call[c].driver
           /\ [call[c] EXCEPT !.stage = s].report = call[c].report
           /\ call[c].driver \in Drivers /\ call[c].report \in Nat /\ call[c].report > 0
<1>1. call[c] \in CallRecord /\ call \in [Calls -> CallRecord]
      /\ call[c].driver \in Drivers /\ call[c].report > 0
  BY DEF TypeOK
<1> QED
  BY <1>1 DEF CallRecord

LEMMA EventChanged ==
    ASSUME TypeOK, NEW i \in DOMAIN events,
           NEW s \in {"new", "taken", "handled", "done", "again"},
           events' = [events EXCEPT ![i].state = s]
    PROVE  /\ events' \in Seq(EventRecord)
           /\ DOMAIN events' = DOMAIN events
           /\ \A j \in DOMAIN events \ {i} : events'[j] = events[j]
           /\ \A j \in DOMAIN events : /\ events[j] \in EventRecord
                                       /\ events'[j].driver = events[j].driver
                                       /\ events'[j].report = events[j].report
           /\ events'[i].state = s
           /\ \A d \in Drivers : Of(d)' = Of(d) /\ Newest(d)' = Newest(d)
<1>1. events \in Seq(EventRecord)
  BY DEF TypeOK
<1>2. events \in [DOMAIN events -> EventRecord] /\ DOMAIN events = 1..Len(events) /\ Len(events) \in Nat
  BY <1>1
<1>3. [events[i] EXCEPT !.state = s] \in EventRecord
      /\ [events[i] EXCEPT !.state = s].state = s
      /\ [events[i] EXCEPT !.state = s].driver = events[i].driver
      /\ [events[i] EXCEPT !.state = s].report = events[i].report
  <2>1. events[i] \in EventRecord
    BY <1>2
  <2> QED
    BY <2>1 DEF EventRecord
<1>4. events' = [events EXCEPT ![i] = [events[i] EXCEPT !.state = s]]
  BY <1>2
<1>5. events' \in [1..Len(events) -> EventRecord]
  BY <1>2, <1>3, <1>4
<1>6. events' \in Seq(EventRecord)
  BY <1>2, <1>5, SeqDef
<1>7. /\ DOMAIN events' = DOMAIN events
      /\ \A j \in DOMAIN events \ {i} : events'[j] = events[j]
      /\ events'[i] = [events[i] EXCEPT !.state = s]
  BY <1>2, <1>4
<1>8. \A j \in DOMAIN events : /\ events[j] \in EventRecord
                               /\ events'[j].driver = events[j].driver
                               /\ events'[j].report = events[j].report
  BY <1>2, <1>3, <1>7
<1>9. \A d \in Drivers : Of(d)' = Of(d)
  BY <1>7, <1>8 DEF Of
<1>10. \A d \in Drivers : Newest(d)' = Newest(d)
  BY <1>9 DEF Newest
<1> QED
  BY <1>3, <1>6, <1>7, <1>8, <1>9, <1>10

LEMMA HandOf ==
    ASSUME TypeOK, Held, NEW w \in Consumers, hand[w] # 0
    PROVE  /\ hand[w] \in DOMAIN events
           /\ events[hand[w]] \in EventRecord
           /\ events[hand[w]].driver \in Drivers
           /\ events[hand[w]].report \in Nat \ {0}
           /\ events[hand[w]].state \in {"taken", "handled"}
<1>1. hand[w] \in DOMAIN events /\ events[hand[w]].state \in {"taken", "handled"}
  BY DEF Held
<1>2. events[hand[w]] \in EventRecord
  BY <1>1 DEF TypeOK
<1> QED
  BY <1>1, <1>2 DEF EventRecord

------------------------------------------------------------------------------
(* Types.                                                                  *)

LEMMA TypeInit == Init => TypeOK
<1> SUFFICES ASSUME Init PROVE TypeOK
  OBVIOUS
<1>1. call \in [Calls -> CallRecord] /\ \A c \in Calls : call[c] = Free /\ call[c].stage = "free"
  BY FreeCall DEF Init
<1>2. Fresh \in RemoverRecord
  BY DEF Fresh, RemoverRecord
<1>3. remover \in [Removers -> RemoverRecord]
  BY <1>2 DEF Init
<1> QED
  BY <1>1, <1>3 DEF Init, TypeOK

CallTypes ==
    /\ call' \in [Calls -> CallRecord]
    /\ \A b \in Calls :
         /\ call'[b].stage = "free" => call'[b] = Free
         /\ call'[b].stage # "free" => call'[b].driver \in Drivers /\ call'[b].report > 0

LEMMA CallStepTypes ==
    ASSUME TypeOK, NEW c \in Calls,
           (\E d \in Drivers : Allow(c, d)) \/ Handle(c) \/ Invalid(c) \/ Cut(c)
    PROVE  TypeOK'
<1>0. /\ hash \in [Drivers -> Nat] /\ geo \in [Drivers -> Nat]
      /\ ttl \in [Drivers -> BOOLEAN] /\ last \in [Drivers -> BOOLEAN] /\ rate \in [Drivers -> BOOLEAN]
      /\ reports \in Nat /\ faults \in Nat /\ events \in Seq(EventRecord)
      /\ hand \in [Consumers -> Nat] /\ remover \in [Removers -> RemoverRecord]
      /\ disturbed \subseteq Drivers /\ slow \subseteq Drivers
  BY DEF TypeOK
<1>c. /\ call[c] \in CallRecord
      /\ call[c].stage # "free" => call[c].driver \in Drivers /\ call[c].report \in Nat \ {0}
      /\ call[c] # Free => call[c].driver \in Drivers
  BY DEF TypeOK, CallRecord
<1>1. ASSUME NEW d \in Drivers, Allow(c, d) PROVE TypeOK'
  <2> DEFINE x == [stage |-> "upsert", driver |-> d, report |-> reports + 1]
  <2>1. x \in CallRecord /\ x.stage = "upsert" /\ x.driver \in Drivers /\ x.report > 0
    BY <1>0 DEF CallRecord, CallStages
  <2>2. call' = [call EXCEPT ![c] = x]
    BY <1>1 DEF Allow
  <2> HIDE DEF x
  <2>3. CallTypes
    BY <2>1, <2>2, CallChanged DEF CallTypes
  <2>4. /\ rate' \in [Drivers -> BOOLEAN] /\ reports' \in Nat /\ disturbed' \subseteq Drivers
        /\ UNCHANGED <<hash, ttl, last, geo, events, hand, remover, slow, faults>>
    BY <1>0, <1>1 DEF Allow
  <2> QED
    BY <1>0, <2>3, <2>4 DEF TypeOK, CallTypes
<1>2. ASSUME call[c].stage \in {"upsert", "last", "geo", "publish"},
             call' = [call EXCEPT ![c] = Free]
      PROVE  CallTypes
  BY <1>2, FreeCall, CallChanged DEF CallTypes
<1>3. CASE Invalid(c)
  BY <1>0, <1>2, <1>3 DEF Invalid, redis, TypeOK, CallTypes
<1>4. CASE Cut(c)
  <2>1. CallTypes
    BY <1>4, FreeCall, CallChanged DEF CallTypes, Cut
  <2>2. disturbed' \subseteq Drivers /\ faults' \in Nat
    BY <1>0, <1>c, <1>4 DEF Cut, Fault
  <2> QED
    BY <1>0, <1>4, <2>1, <2>2 DEF Cut, redis, TypeOK, CallTypes
<1>5. CASE Publish(c)
  <2>1. CallTypes
    BY <1>2, <1>5 DEF Publish
  <2>2. [driver |-> call[c].driver, report |-> call[c].report, state |-> "new"] \in EventRecord
    BY <1>c, <1>5 DEF Publish, EventRecord
  <2>3. events' \in Seq(EventRecord)
    BY <1>0, <1>5, <2>2 DEF Publish
  <2> QED
    BY <1>0, <1>5, <2>1, <2>3 DEF Publish, redis, TypeOK, CallTypes
<1>6. ASSUME NEW s \in {"last", "geo", "publish"}, call[c].stage # "free",
             call' = [call EXCEPT ![c].stage = s]
      PROVE  CallTypes
  <2> DEFINE x == [call[c] EXCEPT !.stage = s]
  <2>0. s \in CallStages \ {"free"}
    BY DEF CallStages
  <2>1. call' = [call EXCEPT ![c] = x]
    BY <1>6, <2>0, StageChanged
  <2>2. /\ x \in CallRecord /\ x.stage # "free"
        /\ x.driver \in Drivers /\ x.report > 0
    BY <1>6, <2>0, StageChanged
  <2> HIDE DEF x
  <2> QED
    BY <2>1, <2>2, CallChanged DEF CallTypes
<1>7. CASE UpsertHash(c)
  <2>1. hash' \in [Drivers -> Nat]
    BY <1>0, <1>c, <1>7 DEF UpsertHash
  <2> QED
    BY <1>0, <1>6, <1>7, <2>1 DEF UpsertHash, TypeOK, CallTypes
<1>8. CASE UpsertLast(c)
  <2>1. ttl' \in [Drivers -> BOOLEAN] /\ last' \in [Drivers -> BOOLEAN]
    BY <1>0, <1>c, <1>8 DEF UpsertLast
  <2> QED
    BY <1>0, <1>6, <1>8, <2>1 DEF UpsertLast, TypeOK, CallTypes
<1>9. CASE UpsertGeo(c)
  <2>1. geo' \in [Drivers -> Nat] /\ slow' \subseteq Drivers
    BY <1>0, <1>c, <1>9 DEF UpsertGeo, GeoAdd
  <2> QED
    BY <1>0, <1>6, <1>9, <2>1 DEF UpsertGeo, TypeOK, CallTypes
<1> QED
  BY <1>1, <1>3, <1>4, <1>5, <1>7, <1>8, <1>9 DEF Handle

LEMMA TimeStepTypes ==
    ASSUME TypeOK, NEW d \in Drivers, RateExpires(d) \/ Expire(d)
    PROVE  TypeOK'
<1>1. CASE RateExpires(d)
  BY <1>1 DEF RateExpires, TypeOK
<1>2. CASE Expire(d)
  <2>1. hash' \in [Drivers -> Nat] /\ ttl' \in [Drivers -> BOOLEAN] /\ last' \in [Drivers -> BOOLEAN]
    BY <1>2 DEF Expire, TypeOK
  <2> QED
    BY <1>2, <2>1 DEF Expire, TypeOK
<1> QED
  BY <1>1, <1>2

LEMMA ConsumerStepTypes ==
    ASSUME TypeOK, Held, NEW w \in Consumers, Consume(w) \/ Redeliver(w)
    PROVE  TypeOK'
<1>0. /\ geo \in [Drivers -> Nat] /\ faults \in Nat /\ events \in Seq(EventRecord)
      /\ hand \in [Consumers -> Nat] /\ remover \in [Removers -> RemoverRecord]
      /\ disturbed \subseteq Drivers /\ slow \subseteq Drivers
  BY DEF TypeOK
<1>1. CASE Take(w)
  <2>1. PICK i \in Redelivered \cup Undelivered :
          /\ hand' = [hand EXCEPT ![w] = i]
          /\ events' = [events EXCEPT ![i].state = "taken"]
          /\ disturbed' = IF HandledOf(events[i].driver) = {} THEN disturbed
                          ELSE disturbed \cup {events[i].driver}
    BY <1>1 DEF Take
  <2>2. i \in DOMAIN events /\ i \in Nat
    BY <1>0 DEF Redelivered, Undelivered
  <2>3. events' \in Seq(EventRecord) /\ events[i] \in EventRecord
    BY <2>1, <2>2, EventChanged
  <2>4. disturbed' \subseteq Drivers /\ hand' \in [Consumers -> Nat]
    BY <1>0, <2>1, <2>2, <2>3 DEF EventRecord
  <2> QED
    BY <1>1, <2>3, <2>4 DEF Take, redis, TypeOK
<1>2. CASE HandleDriverLocation(w)
  <2> DEFINE d == events[hand[w]].driver
  <2>1. d \in Drivers /\ events[hand[w]].report \in Nat /\ hand[w] \in DOMAIN events
    BY <1>2, HandOf DEF HandleDriverLocation
  <2>2. events' \in Seq(EventRecord)
    BY <1>2, <2>1, EventChanged DEF HandleDriverLocation
  <2>3. geo' \in [Drivers -> Nat] /\ slow' \subseteq Drivers
    BY <1>0, <1>2, <2>1 DEF HandleDriverLocation, GeoAdd
  <2>4. \A r \in Removers : [remover[r] EXCEPT !.applied = @ \cup {d}] \in RemoverRecord
    BY <1>0, <2>1 DEF RemoverRecord
  <2>5. remover' \in [Removers -> RemoverRecord]
    BY <1>2, <2>4 DEF HandleDriverLocation
  <2> QED
    BY <1>2, <2>2, <2>3, <2>5 DEF HandleDriverLocation, TypeOK
<1>3. CASE Ack(w)
  <2>1. events' \in Seq(EventRecord) /\ hand' \in [Consumers -> Nat]
    BY <1>0, <1>3, HandOf, EventChanged DEF Ack
  <2> QED
    BY <1>3, <2>1 DEF Ack, redis, TypeOK
<1>4. CASE Redeliver(w)
  <2>1. hand[w] \in DOMAIN events /\ events[hand[w]].driver \in Drivers
    BY <1>4, HandOf DEF Redeliver
  <2>2. events' \in Seq(EventRecord)
    BY <1>4, <2>1, EventChanged DEF Redeliver
  <2>3. hand' \in [Consumers -> Nat] /\ disturbed' \subseteq Drivers /\ faults' \in Nat
    BY <1>0, <1>4, <2>1 DEF Redeliver, Fault
  <2> QED
    BY <1>4, <2>2, <2>3 DEF Redeliver, redis, TypeOK
<1> QED
  BY <1>1, <1>2, <1>3, <1>4 DEF Consume

LEMMA RemoverChanged ==
    ASSUME TypeOK, NEW r \in Removers, NEW s \in {"idle", "listed", "stale"},
           NEW F \in SUBSET Drivers,
           remover' = [remover EXCEPT ![r].stage = s, ![r].found = F, ![r].applied = {}]
    PROVE  /\ remover' \in [Removers -> RemoverRecord]
           /\ \A q \in Removers \ {r} : remover'[q] = remover[q]
           /\ remover'[r].stage = s /\ remover'[r].found = F /\ remover'[r].applied = {}
<1>1. remover \in [Removers -> RemoverRecord] /\ remover[r] \in RemoverRecord
  BY DEF TypeOK
<1>2. remover' = [remover EXCEPT ![r] = [remover[r] EXCEPT !.stage = s, !.found = F, !.applied = {}]]
  BY <1>1
<1>3. [remover[r] EXCEPT !.stage = s, !.found = F, !.applied = {}] \in RemoverRecord
  BY <1>1 DEF RemoverRecord
<1> QED
  BY <1>1, <1>2, <1>3 DEF RemoverRecord

LEMMA RemoverIdle ==
    ASSUME TypeOK, NEW r \in Removers,
           remover' = [remover EXCEPT ![r].stage = "idle", ![r].found = {}, ![r].applied = {}]
    PROVE  /\ remover' \in [Removers -> RemoverRecord]
           /\ \A q \in Removers \ {r} : remover'[q] = remover[q]
           /\ remover'[r].stage = "idle"
<1> DEFINE F == {}
<1>1. F \in SUBSET Drivers /\ remover' = [remover EXCEPT ![r].stage = "idle", ![r].found = F, ![r].applied = {}]
  OBVIOUS
<1> HIDE DEF F
<1> QED
  BY <1>1, RemoverChanged

(* A list of members is taken by Scan and by GeoRadius; Restart forgets it.*)
LEMMA RemoverReplaced ==
    ASSUME TypeOK, NEW r \in Removers, NEW x \in RemoverRecord, remover' = [remover EXCEPT ![r] = x]
    PROVE  /\ remover' \in [Removers -> RemoverRecord]
           /\ \A q \in Removers \ {r} : remover'[q] = remover[q]
           /\ remover'[r] = x
BY DEF TypeOK

(* What the steps of a remover other than ZREM do.                         *)
Listing(r) ==
    /\ remover' \in [Removers -> RemoverRecord]
    /\ \A q \in Removers \ {r} : remover'[q] = remover[q]
    /\ remover'[r].stage = "stale" => \A d \in remover'[r].found : ~last[d]
    /\ UNCHANGED <<redis, reports, call, events, hand, disturbed, slow>>
    /\ faults' \in Nat

LEMMA ListingSteps ==
    ASSUME TypeOK, NEW r \in Removers,
           \/ r \in Sweeps /\ (Scan(r) \/ Restart(r))
           \/ GeoRadius(r) \/ Exists(r) \/ RemoverFails(r)
    PROVE  Listing(r)
<1>0. /\ faults \in Nat /\ remover[r] \in RemoverRecord
      /\ remover[r].todo \subseteq Drivers /\ remover[r].found \subseteq Drivers
  BY DEF TypeOK, RemoverRecord
<1>m. Members \subseteq Drivers
  BY DEF Members
<1>1. ASSUME NEW s \in {"idle", "listed"}, NEW F \in SUBSET Drivers, NEW T \in SUBSET Drivers,
             remover' = [remover EXCEPT ![r] = [Fresh EXCEPT !.stage = s, !.found = F, !.todo = T]]
      PROVE  /\ remover' \in [Removers -> RemoverRecord]
             /\ \A q \in Removers \ {r} : remover'[q] = remover[q]
             /\ remover'[r].stage # "stale"
  <2>1. /\ [Fresh EXCEPT !.stage = s, !.found = F, !.todo = T] \in RemoverRecord
        /\ [Fresh EXCEPT !.stage = s, !.found = F, !.todo = T].stage = s
    BY DEF Fresh, RemoverRecord
  <2> QED
    BY <1>1, <2>1, RemoverReplaced
<1>2. CASE Scan(r)
  <2>1. PICK part \in SUBSET remover[r].todo \ {{}} :
          LET rest == remover[r].todo \ part
          IN  remover' = [remover EXCEPT ![r] =
               [Fresh EXCEPT !.stage = IF part \cap Members = {} THEN "idle" ELSE "listed",
                             !.found = part \cap Members,
                             !.todo = IF rest = {} THEN Drivers ELSE rest]]
    BY <1>2 DEF Scan
  <2> DEFINE T == IF remover[r].todo \ part = {} THEN Drivers ELSE remover[r].todo \ part
             s == IF part \cap Members = {} THEN "idle" ELSE "listed"
  <2>2. T \in SUBSET Drivers /\ part \cap Members \in SUBSET Drivers /\ s \in {"idle", "listed"}
    BY <1>0, <1>m
  <2>3. remover' = [remover EXCEPT ![r] =
                      [Fresh EXCEPT !.stage = s, !.found = part \cap Members, !.todo = T]]
    BY <2>1
  <2> HIDE DEF T, s
  <2> QED
    BY <1>0, <1>1, <1>2, <2>2, <2>3 DEF Scan, Listing
<1>3. CASE Restart(r)
  <2>1. Fresh \in RemoverRecord /\ Fresh.stage = "idle"
    BY DEF Fresh, RemoverRecord
  <2>2. remover' = [remover EXCEPT ![r] = Fresh] /\ faults' \in Nat
    BY <1>0, <1>3 DEF Restart, Fault
  <2> QED
    BY <1>3, <2>1, <2>2, RemoverReplaced DEF Restart, Listing
<1>4. CASE GeoRadius(r)
  <2>1. PICK near \in SUBSET Members \ {{}} :
          remover' = [remover EXCEPT ![r] = [Fresh EXCEPT !.stage = "listed", !.found = near]]
    BY <1>4 DEF GeoRadius
  <2>2. /\ [Fresh EXCEPT !.stage = "listed", !.found = near] \in RemoverRecord
        /\ [Fresh EXCEPT !.stage = "listed", !.found = near].stage = "listed"
    BY <1>m DEF Fresh, RemoverRecord
  <2> QED
    BY <1>0, <1>4, <2>1, <2>2, RemoverReplaced DEF GeoRadius, Listing
<1>5. CASE Exists(r)
  <2> DEFINE F == {d \in remover[r].found : ~last[d]}
             s == IF F = {} THEN "idle" ELSE "stale"
  <2>1. F \in SUBSET Drivers /\ s \in {"idle", "listed", "stale"} /\ \A d \in F : ~last[d]
    BY <1>0
  <2>2. remover' = [remover EXCEPT ![r].stage = s, ![r].found = F, ![r].applied = {}]
    BY <1>5 DEF Exists
  <2> HIDE DEF F, s
  <2>3. /\ remover' \in [Removers -> RemoverRecord]
        /\ \A q \in Removers \ {r} : remover'[q] = remover[q]
        /\ remover'[r].found = F
    BY <2>1, <2>2, RemoverChanged
  <2> QED
    BY <1>0, <1>5, <2>1, <2>3 DEF Exists, Listing
<1>6. CASE RemoverFails(r)
  <2>1. remover' = [remover EXCEPT ![r].stage = "idle", ![r].found = {}, ![r].applied = {}]
        /\ faults' \in Nat
    BY <1>0, <1>6 DEF RemoverFails, Fault
  <2>2. /\ remover' \in [Removers -> RemoverRecord]
        /\ \A q \in Removers \ {r} : remover'[q] = remover[q]
        /\ remover'[r].stage = "idle"
    BY <2>1, RemoverIdle
  <2> QED
    BY <1>6, <2>1, <2>2 DEF RemoverFails, Listing
<1> QED
  BY <1>2, <1>3, <1>4, <1>5, <1>6

LEMMA RemoverStepTypes ==
    ASSUME TypeOK, NEW r \in Removers, Listing(r) \/ ZRem(r)
    PROVE  TypeOK'
<1>1. CASE Listing(r)
  BY <1>1 DEF Listing, redis, TypeOK
<1>2. CASE ZRem(r)
  <2>1. remover' = [remover EXCEPT ![r].stage = "idle", ![r].found = {}, ![r].applied = {}]
    BY <1>2 DEF ZRem
  <2>3. remover' \in [Removers -> RemoverRecord]
    BY <2>1, RemoverIdle
  <2>2. geo' \in [Drivers -> Nat] /\ slow' \subseteq Drivers
    BY <1>2 DEF ZRem, TypeOK, RemoverRecord
  <2> QED
    BY <1>2, <2>2, <2>3 DEF ZRem, TypeOK
<1> QED
  BY <1>1, <1>2

LEMMA TypeStep == TypeOK /\ Held /\ [Next]_vars => TypeOK'
<1> SUFFICES ASSUME TypeOK, Held, [Next]_vars PROVE TypeOK'
  OBVIOUS
<1>1. ASSUME NEW c \in Calls,
             (\E d \in Drivers : Allow(c, d)) \/ Handle(c) \/ Invalid(c) \/ Cut(c)
      PROVE  TypeOK'
  BY <1>1, CallStepTypes
<1>2. ASSUME NEW d \in Drivers, RateExpires(d) \/ Expire(d) PROVE TypeOK'
  BY <1>2, TimeStepTypes
<1>3. ASSUME NEW w \in Consumers, Consume(w) \/ Redeliver(w) PROVE TypeOK'
  BY <1>3, ConsumerStepTypes
<1>4. ASSUME NEW r \in Removers,
             \/ r \in Sweeps /\ (Scan(r) \/ Restart(r))
             \/ GeoRadius(r) \/ Remove(r) \/ RemoverFails(r)
      PROVE  TypeOK'
  BY <1>4, ListingSteps, RemoverStepTypes DEF Remove
<1>5. CASE UNCHANGED vars
  BY <1>5 DEF vars, TypeOK
<1>6. Sweeps \subseteq Removers /\ Lookups \subseteq Removers
  BY DEF Removers
<1> QED
  BY <1>1, <1>2, <1>3, <1>4, <1>5, <1>6 DEF Next

------------------------------------------------------------------------------
(* Events and the hands that hold them.                                    *)

LEMMA HeldStep == TypeOK /\ Held /\ [Next]_vars => Held'
<1> SUFFICES ASSUME TypeOK, Held, [Next]_vars PROVE Held'
  OBVIOUS
<1>0. hand \in [Consumers -> Nat] /\ events \in Seq(EventRecord)
  BY DEF TypeOK
<1>1. CASE UNCHANGED <<events, hand>>
  BY <1>1 DEF Held
<1>2. ASSUME NEW c \in Calls, Publish(c) PROVE Held'
  <2>1. PICK e : events' = Append(events, e) /\ e.state = "new"
    BY <1>2 DEF Publish
  <2>2. /\ DOMAIN events \subseteq DOMAIN events'
        /\ \A i \in DOMAIN events : events'[i] = events[i]
        /\ \A i \in DOMAIN events' \ DOMAIN events : events'[i].state = "new"
    BY <1>0, <2>1
  <2>3. hand' = hand
    BY <1>2 DEF Publish
  <2> QED
    BY <2>2, <2>3 DEF Held
<1>3. ASSUME NEW w \in Consumers, Take(w) PROVE Held'
  <2>1. PICK i \in Redelivered \cup Undelivered :
          /\ hand' = [hand EXCEPT ![w] = i]
          /\ events' = [events EXCEPT ![i].state = "taken"]
    BY <1>3 DEF Take
  <2>2. i \in DOMAIN events /\ i \in Nat \ {0} /\ events[i].state \in {"new", "again"}
    BY <1>0 DEF Redelivered, Undelivered
  <2>3. /\ DOMAIN events' = DOMAIN events /\ events'[i].state = "taken"
        /\ \A j \in DOMAIN events \ {i} : events'[j] = events[j]
    BY <2>1, <2>2, EventChanged
  <2>4. hand'[w] = i /\ \A v \in Consumers \ {w} : hand'[v] = hand[v]
    BY <1>0, <2>1
  <2>5. \A v \in Consumers : hand[v] # i
    BY <2>2 DEF Held
  <2>6. hand[w] = 0
    BY <1>3 DEF Take
  <2>7. \A v \in Consumers : hand'[v] # 0 =>
          hand'[v] \in DOMAIN events' /\ events'[hand'[v]].state \in {"taken", "handled"}
    BY <2>2, <2>3, <2>4, <2>5 DEF Held
  <2>8. \A u, v \in Consumers : hand'[u] # 0 /\ hand'[u] = hand'[v] => u = v
    BY <2>4, <2>5 DEF Held
  <2>9. ASSUME NEW j \in DOMAIN events', events'[j].state \in {"taken", "handled"}
        PROVE  \E v \in Consumers : hand'[v] = j
    <3>1. CASE j = i
      BY <2>4, <3>1
    <3>2. CASE j # i
      <4>1. PICK v \in Consumers : hand[v] = j
        BY <2>3, <2>9, <3>2 DEF Held
      <4>2. v # w
        BY <1>0, <2>3, <2>6, <2>9, <4>1
      <4> QED
        BY <2>4, <4>1, <4>2
    <3> QED
      BY <3>1, <3>2
  <2> QED
    BY <2>7, <2>8, <2>9 DEF Held
<1>4. ASSUME NEW w \in Consumers, HandleDriverLocation(w) PROVE Held'
  <2>1. /\ hand[w] \in DOMAIN events /\ hand' = hand
        /\ events' = [events EXCEPT ![hand[w]].state = "handled"]
    BY <1>4, HandOf DEF HandleDriverLocation
  <2>2. /\ DOMAIN events' = DOMAIN events /\ events'[hand[w]].state = "handled"
        /\ \A j \in DOMAIN events \ {hand[w]} : events'[j] = events[j]
    BY <2>1, EventChanged
  <2> QED
    BY <2>1, <2>2 DEF Held
<1>5. ASSUME NEW w \in Consumers, Ack(w) \/ Redeliver(w) PROVE Held'
  <2>1. PICK s \in {"done", "again"} : events' = [events EXCEPT ![hand[w]].state = s]
    BY <1>5 DEF Ack, Redeliver
  <2>2. hand[w] # 0 /\ hand[w] \in DOMAIN events /\ hand' = [hand EXCEPT ![w] = 0]
    BY <1>5, HandOf DEF Ack, Redeliver
  <2>3. /\ DOMAIN events' = DOMAIN events /\ events'[hand[w]].state = s
        /\ \A j \in DOMAIN events \ {hand[w]} : events'[j] = events[j]
    BY <2>1, <2>2, EventChanged
  <2>4. hand'[w] = 0 /\ \A v \in Consumers \ {w} : hand'[v] = hand[v]
    BY <1>0, <2>2
  <2> QED
    BY <2>2, <2>3, <2>4 DEF Held
<1>6. ASSUME NEW c \in Calls,
             (\E d \in Drivers : Allow(c, d)) \/ Handle(c) \/ Invalid(c) \/ Cut(c)
      PROVE  Held'
  BY <1>1, <1>2, <1>6 DEF Allow, Handle, UpsertHash, UpsertLast, UpsertGeo, Invalid, Cut
<1>7. ASSUME NEW d \in Drivers, RateExpires(d) \/ Expire(d) PROVE Held'
  BY <1>1, <1>7 DEF RateExpires, Expire
<1>8. ASSUME NEW r \in Removers, ZRem(r) PROVE Held'
  BY <1>1, <1>8 DEF ZRem
<1>9. ASSUME NEW r \in Removers,
             \/ r \in Sweeps /\ (Scan(r) \/ Restart(r))
             \/ GeoRadius(r) \/ Exists(r) \/ RemoverFails(r)
      PROVE  Held'
  BY <1>1, <1>9, ListingSteps DEF Listing
<1>10. CASE UNCHANGED vars
  BY <1>1, <1>10 DEF vars
<1>11. Sweeps \subseteq Removers /\ Lookups \subseteq Removers
  BY DEF Removers
<1> QED
  BY <1>3, <1>4, <1>5, <1>6, <1>7, <1>8, <1>9, <1>10, <1>11 DEF Next, Consume, Remove

------------------------------------------------------------------------------
(* One driver.                                                             *)

(* What does not change anything of a driver keeps what is known of it:    *)
(* its calls, its events, its keys, and what removers know of it.          *)
Untouched(d) ==
    /\ CallsOf(d)' = CallsOf(d) /\ \A c \in CallsOf(d) : call'[c] = call[c]
    /\ Of(d)' = Of(d) /\ \A i \in Of(d) : events'[i] = events[i]

KeysUntouched(d) ==
    /\ hash'[d] = hash[d] /\ last'[d] = last[d] /\ geo'[d] = geo[d]
    /\ d \in slow <=> d \in slow'

NobodyKnowsLess(d) ==
    \A r \in Removers :
        remover'[r].stage = "stale" /\ d \in remover'[r].found /\ d \notin remover'[r].applied
            => remover[r].stage = "stale" /\ d \in remover[r].found /\ d \notin remover[r].applied

LEMMA UntouchedSets ==
    ASSUME NEW d, Untouched(d)
    PROVE  /\ Newest(d)' = Newest(d)
           /\ \A S : CallAt(d, S)' = CallAt(d, S)
BY DEF Untouched, Newest, CallAt

LEMMA Frame ==
    ASSUME NEW d, DriverInv(d), Untouched(d), KeysUntouched(d), NobodyKnowsLess(d)
    PROVE  DriverInv(d)'
<1>1. Newest(d)' = Newest(d) /\ Newest(d) \subseteq Of(d)
  BY UntouchedSets DEF Newest
<1>2. Orderly(d)'
  BY <1>1 DEF DriverInv, Orderly, Untouched
<1>3. Remembered(d)'
  BY <1>1 DEF DriverInv, Remembered, Untouched, KeysUntouched, CallAt
<1>4. Placed(d)'
  BY <1>1 DEF DriverInv, Placed, Untouched, KeysUntouched, CallAt, Applied
<1>5. Kept(d)'
  <2>1. CASE ~last[d] \/ CallAt(d, {"geo", "publish"})
    BY <2>1 DEF Kept, Untouched, KeysUntouched, CallAt
  <2>2. CASE last[d] /\ ~CallAt(d, {"geo", "publish"})
    <3>1. PICK i \in Newest(d) : Applied(i) /\ d \notin slow =>
             /\ geo[d] # 0
             /\ \A r \in Removers : remover[r].stage = "stale" /\ d \in remover[r].found
                                  => d \in remover[r].applied
      BY <2>2 DEF DriverInv, Kept
    <3>2. Applied(i)' = Applied(i)
      BY <1>1 DEF Untouched, Applied
    <3> QED
      BY <1>1, <3>1, <3>2 DEF Kept, KeysUntouched, NobodyKnowsLess
  <2> QED
    BY <2>1, <2>2
<1> QED
  BY <1>2, <1>3, <1>4, <1>5 DEF DriverInv

LEMMA CallsAfter ==
    ASSUME TypeOK, NEW c \in Calls, NEW x, call' = [call EXCEPT ![c] = x], NEW d \in Drivers
    PROVE  /\ call'[c] = x /\ \A b \in Calls \ {c} : call'[b] = call[b]
           /\ CallsOf(d)' = (CallsOf(d) \ {c}) \cup (IF x.driver = d THEN {c} ELSE {})
<1>1. call'[c] = x /\ \A b \in Calls \ {c} : call'[b] = call[b]
  BY DEF TypeOK
<1> QED
  BY <1>1 DEF CallsOf

(* A step of a call is no step of the drivers it is not about.             *)
LEMMA OtherCall ==
    ASSUME TypeOK, NEW c \in Calls, NEW x, call' = [call EXCEPT ![c] = x], NEW d \in Drivers,
           call[c].driver # d, x.driver # d, UNCHANGED events
    PROVE  Untouched(d)
<1>1. CallsOf(d)' = CallsOf(d) /\ c \notin CallsOf(d) /\ \A b \in Calls \ {c} : call'[b] = call[b]
  BY CallsAfter DEF CallsOf
<1>2. CallsOf(d) \subseteq Calls
  BY DEF CallsOf
<1> QED
  BY <1>1, <1>2 DEF Untouched, Of

LEMMA AllowDriver ==
    ASSUME IInv, NEW c \in Calls, NEW e \in Drivers, Allow(c, e), NEW d \in Drivers \ disturbed'
    PROVE  DriverInv(d)'
<1> DEFINE x == [stage |-> "upsert", driver |-> e, report |-> reports + 1]
<1>1. /\ call' = [call EXCEPT ![c] = x] /\ call[c] = Free
      /\ disturbed' = IF CallsOf(e) = {} THEN disturbed ELSE disturbed \cup {e}
      /\ UNCHANGED <<hash, ttl, last, geo, events, hand, remover, slow, faults>>
  BY DEF Allow
<1>2. x.driver = e /\ x.stage = "upsert" /\ call[c].driver = Nobody
  BY <1>1, FreeCall
<1> HIDE DEF x
<1>3. TypeOK /\ DriverInv(d) /\ KeysUntouched(d) /\ NobodyKnowsLess(d)
  BY <1>1 DEF IInv, KeysUntouched, NobodyKnowsLess
<1>4. CASE d # e
  BY <1>1, <1>2, <1>3, <1>4, OtherCall, Frame, NobodyAssumption
<1>5. CASE d = e
  <2>1. CallsOf(d) = {}
    BY <1>1, <1>5
  <2>2. CallsOf(d)' = {c} /\ call'[c] = x
    <3>1. call'[c] = x /\ \A b \in Calls \ {c} : call'[b] = call[b]
      BY <1>1, <1>3 DEF TypeOK
    <3> QED
      BY <1>2, <1>5, <2>1, <3>1 DEF CallsOf
  <2>3. Of(d)' = Of(d) /\ Newest(d)' = Newest(d)
    BY <1>1 DEF Of, Newest
  <2>4. Orderly(d)'
    BY <1>1, <1>3, <2>2, <2>3 DEF DriverInv, Orderly
  <2>5. \A S : "upsert" \notin S => ~CallAt(d, S)' /\ ~CallAt(d, S)
    BY <1>2, <2>1, <2>2 DEF CallAt
  <2>6. Remembered(d)' /\ Placed(d)'
    BY <1>1, <1>3, <2>1, <2>3, <2>5 DEF DriverInv, Remembered, Placed, Applied
  <2>7. Kept(d)'
    BY <1>1, <1>3, <2>3, <2>5 DEF DriverInv, Kept, Applied
  <2> QED
    BY <2>4, <2>6, <2>7 DEF DriverInv
<1> QED
  BY <1>4, <1>5

(* A call of d that goes on, or ends before it wrote.                      *)
LEMMA OwnCall ==
    ASSUME TypeOK, NEW d \in Drivers, DriverInv(d), NEW c \in Calls, NEW x,
           call' = [call EXCEPT ![c] = x], call[c].driver = d
    PROVE  /\ CallsOf(d) = {c} /\ call'[c] = x
           /\ CallsOf(d)' = IF x.driver = d THEN {c} ELSE {}
           /\ \A S : CallAt(d, S) <=> call[c].stage \in S
           /\ \A S : CallAt(d, S)' <=> x.driver = d /\ x.stage \in S
<1>1. c \in CallsOf(d)
  BY DEF CallsOf
<1>2. CallsOf(d) = {c}
  BY <1>1 DEF DriverInv, Orderly
<1>3. CallsOf(d)' = (CallsOf(d) \ {c}) \cup (IF x.driver = d THEN {c} ELSE {}) /\ call'[c] = x
  BY CallsAfter
<1>4. CallsOf(d)' = IF x.driver = d THEN {c} ELSE {}
  BY <1>2, <1>3
<1> QED
  BY <1>2, <1>3, <1>4 DEF CallAt

LEMMA InvalidDriver ==
    ASSUME IInv, NEW c \in Calls, Invalid(c), NEW d \in Drivers \ disturbed'
    PROVE  DriverInv(d)'
<1>1. /\ call' = [call EXCEPT ![c] = Free] /\ call[c].stage = "upsert"
      /\ UNCHANGED <<redis, reports, events, hand, remover, disturbed, slow, faults>>
  BY DEF Invalid
<1>2. TypeOK /\ DriverInv(d) /\ KeysUntouched(d) /\ NobodyKnowsLess(d)
  BY <1>1 DEF IInv, KeysUntouched, NobodyKnowsLess, redis
<1>3. Free.driver # d
  BY FreeCall, NobodyAssumption
<1>4. CASE call[c].driver # d
  BY <1>1, <1>2, <1>3, <1>4, OtherCall, Frame
<1>5. CASE call[c].driver = d
  <2>1. /\ CallsOf(d) = {c} /\ CallsOf(d)' = {}
        /\ \A S : CallAt(d, S) <=> call[c].stage \in S
        /\ \A S : ~CallAt(d, S)'
    BY <1>1, <1>2, <1>3, <1>5, OwnCall
  <2>2. Of(d)' = Of(d) /\ Newest(d)' = Newest(d) /\ events' = events
    BY <1>1 DEF Of, Newest
  <2>3. Orderly(d)'
    BY <1>2, <2>1, <2>2 DEF DriverInv, Orderly
  <2>4. ~CallAt(d, {"last", "geo", "publish"}) /\ ~CallAt(d, {"publish"}) /\ ~CallAt(d, {"geo", "publish"})
    BY <1>1, <2>1
  <2>5. Remembered(d)' /\ Placed(d)'
    BY <1>1, <1>2, <2>1, <2>2, <2>4 DEF DriverInv, Remembered, Placed, Applied, KeysUntouched
  <2>6. Kept(d)'
    BY <1>1, <1>2, <2>1, <2>2, <2>4 DEF DriverInv, Kept, Applied, KeysUntouched
  <2> QED
    BY <2>3, <2>5, <2>6 DEF DriverInv
<1> QED
  BY <1>4, <1>5

LEMMA CutDriver ==
    ASSUME IInv, NEW c \in Calls, Cut(c), NEW d \in Drivers \ disturbed'
    PROVE  DriverInv(d)'
<1>1. /\ call' = [call EXCEPT ![c] = Free] /\ disturbed' = disturbed \cup {call[c].driver}
      /\ UNCHANGED <<redis, reports, events, hand, remover, slow>>
  BY DEF Cut
<1>2. TypeOK /\ DriverInv(d) /\ KeysUntouched(d) /\ NobodyKnowsLess(d)
  BY <1>1 DEF IInv, KeysUntouched, NobodyKnowsLess, redis
<1>3. Free.driver # d /\ call[c].driver # d
  BY <1>1, FreeCall, NobodyAssumption
<1> QED
  BY <1>1, <1>2, <1>3, OtherCall, Frame

LEMMA UpsertDriver ==
    ASSUME IInv, NEW c \in Calls, UpsertHash(c) \/ UpsertLast(c) \/ UpsertGeo(c),
           NEW d \in Drivers \ disturbed'
    PROVE  DriverInv(d)'
<1>0. TypeOK /\ DriverInv(d) /\ d \in Drivers /\ UNCHANGED <<events, remover, disturbed>>
  BY DEF IInv, UpsertHash, UpsertLast, UpsertGeo
<1>1. PICK s \in {"last", "geo", "publish"} :
        /\ call' = [call EXCEPT ![c].stage = s]
        /\ \/ s = "last" /\ UpsertHash(c)
           \/ s = "geo" /\ UpsertLast(c)
           \/ s = "publish" /\ UpsertGeo(c)
  BY DEF UpsertHash, UpsertLast, UpsertGeo
<1>2. call[c].stage \in {"upsert", "last", "geo"} /\ s \in CallStages \ {"free"}
  BY DEF UpsertHash, UpsertLast, UpsertGeo, CallStages
<1>3. PICK x \in CallRecord :
        /\ call' = [call EXCEPT ![c] = x] /\ x.stage = s
        /\ x.driver = call[c].driver /\ x.report = call[c].report
        /\ call[c].driver \in Drivers /\ call[c].report \in Nat /\ call[c].report > 0
  <2> DEFINE y == [call[c] EXCEPT !.stage = s]
  <2>1. call[c].stage # "free"
    BY <1>2
  <2>2. /\ call' = [call EXCEPT ![c] = y] /\ y \in CallRecord /\ y.stage = s
        /\ y.driver = call[c].driver /\ y.report = call[c].report
        /\ call[c].driver \in Drivers /\ call[c].report \in Nat /\ call[c].report > 0
    BY <1>0, <1>1, <1>2, <2>1, StageChanged
  <2> HIDE DEF y
  <2> QED
    BY <2>2
<1>t. /\ hash \in [Drivers -> Nat] /\ geo \in [Drivers -> Nat] /\ last \in [Drivers -> BOOLEAN]
      /\ slow \subseteq Drivers
  BY <1>0 DEF TypeOK
<1>4. CASE call[c].driver # d
  <2>1. Untouched(d)
    BY <1>0, <1>3, <1>4, OtherCall
  <2>2. KeysUntouched(d)
    <3>1. CASE UpsertHash(c)
      BY <1>t, <1>3, <1>4, <3>1 DEF UpsertHash, KeysUntouched
    <3>2. CASE UpsertLast(c)
      BY <1>t, <1>3, <1>4, <3>2 DEF UpsertLast, KeysUntouched
    <3>3. CASE UpsertGeo(c)
      BY <1>t, <1>3, <1>4, <3>3 DEF UpsertGeo, GeoAdd, KeysUntouched
    <3> QED
      BY <3>1, <3>2, <3>3
  <2> QED
    BY <1>0, <2>1, <2>2, Frame DEF NobodyKnowsLess
<1>5. CASE call[c].driver = d
  <2>1. /\ CallsOf(d) = {c} /\ CallsOf(d)' = {c} /\ call'[c] = x
        /\ \A S : CallAt(d, S) <=> call[c].stage \in S
        /\ \A S : CallAt(d, S)' <=> s \in S
    <3>1. x.driver = d /\ x.stage = s /\ call' = [call EXCEPT ![c] = x]
      BY <1>3, <1>5
    <3>2. /\ CallsOf(d) = {c} /\ call'[c] = x
          /\ CallsOf(d)' = IF x.driver = d THEN {c} ELSE {}
          /\ \A S : CallAt(d, S) <=> call[c].stage \in S
          /\ \A S : CallAt(d, S)' <=> x.driver = d /\ x.stage \in S
      BY <1>0, <1>5, <3>1, OwnCall
    <3> QED
      BY <3>1, <3>2
  <2>2. Of(d)' = Of(d) /\ Newest(d)' = Newest(d) /\ \A i : Applied(i)' = Applied(i)
    BY <1>0 DEF Of, Newest, Applied
  <2>3. Orderly(d)'
    BY <1>0, <2>1, <2>2 DEF DriverInv, Orderly
  <2>4. CASE s = "last" /\ UpsertHash(c)
    <3>1. /\ hash'[d] = call[c].report /\ s = "last" /\ call[c].stage = "upsert"
          /\ last' = last /\ geo' = geo /\ slow' = slow
      BY <1>t, <1>5, <2>4 DEF UpsertHash
    <3>2. Remembered(d)'
      BY <1>3, <2>1, <3>1 DEF Remembered
    <3>3. Placed(d)'
      BY <1>0, <2>1, <2>2, <3>1 DEF DriverInv, Placed
    <3>4. Kept(d)'
      BY <1>0, <2>1, <2>2, <3>1 DEF DriverInv, Kept
    <3> QED
      BY <2>3, <3>2, <3>3, <3>4 DEF DriverInv
  <2>5. CASE s = "geo" /\ UpsertLast(c)
    <3>1. s = "geo" /\ call[c].stage = "last" /\ hash' = hash /\ geo' = geo
      BY <2>5 DEF UpsertLast
    <3>2. Remembered(d)'
      BY <1>0, <1>3, <2>1, <3>1 DEF DriverInv, Remembered
    <3>3. Placed(d)'
      BY <1>0, <2>1, <2>2, <3>1 DEF DriverInv, Placed
    <3>4. Kept(d)'
      BY <2>1, <3>1 DEF Kept
    <3> QED
      BY <2>3, <3>2, <3>3, <3>4 DEF DriverInv
  <2>6. CASE s = "publish" /\ UpsertGeo(c)
    <3>1. s = "publish" /\ call[c].stage = "geo" /\ hash' = hash
      BY <2>6 DEF UpsertGeo
    <3>2. Remembered(d)'
      BY <1>0, <1>3, <2>1, <3>1 DEF DriverInv, Remembered
    <3>3. Placed(d)' /\ Kept(d)'
      BY <2>1, <3>1 DEF Placed, Kept
    <3> QED
      BY <2>3, <3>2, <3>3 DEF DriverInv
  <2> QED
    BY <1>1, <2>4, <2>5, <2>6
<1> QED
  BY <1>4, <1>5

LEMMA PublishDriver ==
    ASSUME IInv, NEW c \in Calls, Publish(c), NEW d \in Drivers \ disturbed'
    PROVE  DriverInv(d)'
<1>e. PICK e : e = [driver |-> call[c].driver, report |-> call[c].report, state |-> "new"]
  OBVIOUS
<1>n. PICK n : n = Len(events) + 1
  OBVIOUS
<1>1. /\ call[c].stage = "publish" /\ call' = [call EXCEPT ![c] = Free]
      /\ events' = Append(events, e)
      /\ UNCHANGED <<redis, reports, hand, remover, disturbed, slow, faults>>
  BY <1>e DEF Publish
<1>2. TypeOK /\ DriverInv(d) /\ KeysUntouched(d) /\ NobodyKnowsLess(d)
  BY <1>1 DEF IInv, KeysUntouched, NobodyKnowsLess, redis
<1>3. Free.driver # d
  BY FreeCall, NobodyAssumption
<1>4. e.driver = call[c].driver /\ e.report = call[c].report /\ e.state = "new"
  BY <1>e
<1>5. /\ events \in Seq(EventRecord) /\ n \in Nat /\ n \notin DOMAIN events
      /\ DOMAIN events' = DOMAIN events \cup {n} /\ events'[n] = e
      /\ \A i \in DOMAIN events : i \in Nat /\ i < n /\ events'[i] = events[i]
  BY <1>1, <1>2, <1>n DEF TypeOK
<1>6. CASE call[c].driver # d
  <2>1. Of(d)' = Of(d) /\ Of(d) \subseteq DOMAIN events
    BY <1>4, <1>5, <1>6 DEF Of
  <2>2. CallsOf(d)' = CallsOf(d) /\ c \notin CallsOf(d) /\ \A b \in Calls \ {c} : call'[b] = call[b]
    BY <1>1, <1>2, <1>3, <1>6, CallsAfter DEF CallsOf
  <2>3. Untouched(d)
    BY <1>5, <2>1, <2>2 DEF Untouched, CallsOf
  <2> QED
    BY <1>2, <2>3, Frame
<1>7. CASE call[c].driver = d
  <2>1. /\ CallsOf(d) = {c} /\ CallsOf(d)' = {}
        /\ \A S : CallAt(d, S) <=> call[c].stage \in S
        /\ \A S : ~CallAt(d, S)'
    BY <1>1, <1>2, <1>3, <1>7, OwnCall
  <2>2. Of(d)' = Of(d) \cup {n} /\ Of(d) \subseteq DOMAIN events
    BY <1>4, <1>5, <1>7 DEF Of
  <2>3. Newest(d)' = {n}
    BY <1>5, <2>2 DEF Newest
  <2>4. Orderly(d)'
    <3>1. \A i \in Of(d) : events[i].state # "again"
      BY <1>2 DEF DriverInv, Orderly
    <3>2. \A i, j \in Of(d) : i < j /\ events[j].state # "new" => events[i].state = "done"
      BY <1>2 DEF DriverInv, Orderly
    <3>3. \A i \in Of(d)' : events'[i].state # "again"
      BY <1>4, <1>5, <2>2, <3>1
    <3>4. \A i, j \in Of(d)' : i < j /\ events'[j].state # "new" => events'[i].state = "done"
      BY <1>4, <1>5, <2>2, <3>2
    <3> QED
      BY <2>1, <2>3, <3>3, <3>4 DEF Orderly
  <2>5. hash'[d] = 0 \/ hash'[d] = events'[n].report
    BY <1>1, <1>2, <1>4, <1>5, <2>1 DEF DriverInv, Remembered, redis
  <2>6. Remembered(d)'
    BY <2>1, <2>3, <2>5 DEF Remembered
  <2>7. ~Applied(n)'
    BY <1>4, <1>5 DEF Applied
  <2>8. Placed(d)' /\ Kept(d)'
    BY <2>3, <2>7 DEF Placed, Kept
  <2> QED
    BY <2>4, <2>6, <2>8 DEF DriverInv
<1> QED
  BY <1>6, <1>7

LEMMA TimeDriver ==
    ASSUME IInv, NEW e \in Drivers, RateExpires(e) \/ Expire(e), NEW d \in Drivers \ disturbed'
    PROVE  DriverInv(d)'
<1>0. /\ TypeOK /\ DriverInv(d) /\ NobodyKnowsLess(d) /\ Untouched(d)
      /\ UNCHANGED <<call, events, geo, remover, slow>>
  BY DEF IInv, RateExpires, Expire, NobodyKnowsLess, Untouched, CallsOf, Of
<1>1. CASE KeysUntouched(d)
  BY <1>0, <1>1, Frame
<1>2. CASE ~KeysUntouched(d)
  <2>1. Expire(e) /\ e = d
    BY <1>0, <1>2 DEF KeysUntouched, RateExpires, Expire, TypeOK
  <2>2. ~last'[d] /\ hash'[d] \in {0, hash[d]}
    BY <1>0, <2>1 DEF Expire, TypeOK
  <2>3. Newest(d)' = Newest(d) /\ CallsOf(d)' = CallsOf(d) /\ Of(d)' = Of(d)
        /\ (\A S : CallAt(d, S)' = CallAt(d, S)) /\ \A i : Applied(i)' = Applied(i)
    BY <1>0, UntouchedSets DEF Untouched, Applied
  <2>4. Orderly(d)'
    BY <1>0, <2>3 DEF DriverInv, Orderly
  <2>5. Remembered(d)'
    BY <1>0, <2>2, <2>3 DEF DriverInv, Remembered
  <2>6. Placed(d)'
    BY <1>0, <2>3 DEF DriverInv, Placed
  <2>7. Kept(d)'
    BY <2>2 DEF Kept
  <2> QED
    BY <2>4, <2>5, <2>6, <2>7 DEF DriverInv
<1> QED
  BY <1>1, <1>2

(* Events of other drivers may change.                                     *)
LEMMA OtherEvent ==
    ASSUME TypeOK, NEW i \in DOMAIN events,
           NEW s \in {"new", "taken", "handled", "done", "again"},
           events' = [events EXCEPT ![i].state = s], UNCHANGED call,
           NEW d \in Drivers, events[i].driver # d
    PROVE  Untouched(d)
<1>1. /\ \A j \in DOMAIN events \ {i} : events'[j] = events[j]
      /\ Of(d)' = Of(d)
  BY EventChanged
<1>2. Of(d) \subseteq DOMAIN events \ {i}
  BY DEF Of
<1> QED
  BY <1>1, <1>2 DEF Untouched, CallsOf

LEMMA TakeDriver ==
    ASSUME IInv, NEW w \in Consumers, Take(w), NEW d \in Drivers \ disturbed'
    PROVE  DriverInv(d)'
<1>1. PICK i \in Redelivered \cup Undelivered :
        /\ i \in Undelivered => \A j \in Undelivered : i <= j
        /\ hand' = [hand EXCEPT ![w] = i]
        /\ events' = [events EXCEPT ![i].state = "taken"]
        /\ disturbed' = IF HandledOf(events[i].driver) = {} THEN disturbed
                        ELSE disturbed \cup {events[i].driver}
  BY DEF Take
<1>2. i \in DOMAIN events /\ UNCHANGED <<redis, reports, call, remover, slow, faults>>
  BY DEF Take, Redelivered, Undelivered
<1>3. TypeOK /\ Held /\ DriverInv(d) /\ KeysUntouched(d) /\ NobodyKnowsLess(d)
  BY <1>1, <1>2 DEF IInv, KeysUntouched, NobodyKnowsLess, redis
<1>4. CASE events[i].driver # d
  BY <1>1, <1>2, <1>3, <1>4, OtherEvent, Frame
<1>5. CASE events[i].driver = d
  <2>1. /\ DOMAIN events' = DOMAIN events /\ events'[i].state = "taken"
        /\ \A j \in DOMAIN events \ {i} : events'[j] = events[j]
        /\ \A j \in DOMAIN events : events'[j].report = events[j].report
        /\ Of(d)' = Of(d) /\ Newest(d)' = Newest(d) /\ Of(d) \subseteq DOMAIN events
    BY <1>1, <1>2, <1>3, EventChanged DEF Of
  <2>2. /\ \A j \in Of(d) : events[j].state # "again"
        /\ \A j, k \in Of(d) : j < k /\ events[k].state # "new" => events[j].state = "done"
        /\ i \in Of(d) /\ \A j \in Of(d) : events[j] \in EventRecord
    BY <1>2, <1>3, <1>5, <2>1 DEF DriverInv, Orderly, Of, TypeOK
  <2>3. i \in Undelivered /\ \A j \in Undelivered : i <= j
    BY <1>1, <2>2 DEF Redelivered
  <2>4. \A j \in Of(d) : events[j].state \notin {"taken", "handled"}
    <3>1. HandledOf(d) = {}
      BY <1>1, <1>5
    <3>2. 0 \notin DOMAIN events
      BY <1>3 DEF TypeOK
    <3> QED
      BY <1>3, <3>1, <3>2 DEF Held, HandledOf, Of
  <2>5. \A j \in Of(d) : j < i => events[j].state = "done"
    <3> SUFFICES ASSUME NEW j \in Of(d), j < i PROVE events[j].state = "done"
      OBVIOUS
    <3>1. events[j].state # "new"
      <4>1. j \in DOMAIN events /\ j \in Nat /\ i \in Nat
        BY <1>2, <1>3, <2>1 DEF TypeOK
      <4> QED
        BY <2>3, <4>1 DEF Undelivered
    <3> QED
      BY <2>2, <2>4, <3>1 DEF EventRecord
  <2>6. Orderly(d)'
    <3>1. CallsOf(d)' = CallsOf(d)
      BY <1>2 DEF CallsOf
    <3>2. \A j \in Of(d)' : events'[j].state # "again"
      BY <2>1, <2>2
    <3>3. ASSUME NEW j \in Of(d)', NEW k \in Of(d)', j < k, events'[k].state # "new"
          PROVE  events'[j].state = "done"
      <4>1. j # i
        <5>1. CASE k = i
          BY <1>2, <1>3, <3>3, <5>1 DEF TypeOK
        <5>2. CASE k # i
          BY <2>1, <2>2, <2>3, <3>3, <5>2 DEF Undelivered
        <5> QED
          BY <5>1, <5>2
      <4>2. events[j].state = "done"
        BY <2>1, <2>2, <2>5, <3>3
      <4> QED
        BY <2>1, <3>3, <4>1, <4>2
    <3> QED
      BY <1>3, <2>1, <3>1, <3>2, <3>3 DEF DriverInv, Orderly
  <2>7. CallsOf(d)' = CallsOf(d) /\ (\A S : CallAt(d, S)' = CallAt(d, S)) /\ Newest(d) \subseteq DOMAIN events
        /\ \A j \in DOMAIN events : Applied(j)' => Applied(j)
    BY <1>2, <2>1 DEF CallsOf, CallAt, Applied, Newest
  <2>8. Remembered(d)'
    BY <1>2, <1>3, <2>1, <2>7 DEF DriverInv, Remembered, redis
  <2>9. Placed(d)'
    BY <1>2, <1>3, <2>1, <2>7 DEF DriverInv, Placed, redis
  <2>10. Kept(d)'
    BY <1>2, <1>3, <2>1, <2>7 DEF DriverInv, Kept, redis
  <2> QED
    BY <2>6, <2>8, <2>9, <2>10 DEF DriverInv
<1> QED
  BY <1>4, <1>5

LEMMA AckDriver ==
    ASSUME IInv, NEW w \in Consumers, Ack(w), NEW d \in Drivers \ disturbed'
    PROVE  DriverInv(d)'
<1>1. PICK i : i = hand[w]
  OBVIOUS
<1>2. /\ i \in DOMAIN events /\ events[i].state = "handled"
      /\ events' = [events EXCEPT ![i].state = "done"]
      /\ UNCHANGED <<redis, reports, call, remover, disturbed, slow, faults>>
  BY <1>1, HandOf DEF Ack, IInv
<1>3. TypeOK /\ DriverInv(d) /\ KeysUntouched(d) /\ NobodyKnowsLess(d)
  BY <1>2 DEF IInv, KeysUntouched, NobodyKnowsLess, redis
<1>4. CASE events[i].driver # d
  BY <1>2, <1>3, <1>4, OtherEvent, Frame
<1>5. CASE events[i].driver = d
  <2>1. /\ DOMAIN events' = DOMAIN events /\ events'[i].state = "done"
        /\ \A j \in DOMAIN events \ {i} : events'[j] = events[j]
        /\ \A j \in DOMAIN events : events'[j].report = events[j].report
        /\ Of(d)' = Of(d) /\ Newest(d)' = Newest(d) /\ Of(d) \subseteq DOMAIN events
    BY <1>2, <1>3, EventChanged DEF Of
  <2>2. CallsOf(d)' = CallsOf(d) /\ (\A S : CallAt(d, S)' = CallAt(d, S)) /\ Newest(d) \subseteq DOMAIN events
        /\ \A j \in DOMAIN events : Applied(j)' = Applied(j)
    BY <1>2, <2>1 DEF CallsOf, CallAt, Applied, Newest
  <2>3. Orderly(d)'
    BY <1>2, <1>3, <2>1, <2>2 DEF DriverInv, Orderly
  <2>4. Remembered(d)'
    BY <1>2, <1>3, <2>1, <2>2 DEF DriverInv, Remembered, redis
  <2>5. Placed(d)'
    BY <1>2, <1>3, <2>1, <2>2 DEF DriverInv, Placed, redis
  <2>6. Kept(d)'
    BY <1>2, <1>3, <2>1, <2>2 DEF DriverInv, Kept, redis
  <2> QED
    BY <2>3, <2>4, <2>5, <2>6 DEF DriverInv
<1> QED
  BY <1>4, <1>5

LEMMA HandleDriver ==
    ASSUME IInv, NEW w \in Consumers, HandleDriverLocation(w), NEW d \in Drivers \ disturbed'
    PROVE  DriverInv(d)'
<1>1. PICK i : i = hand[w]
  OBVIOUS
<1>2. /\ i \in DOMAIN events /\ events[i].state = "taken"
      /\ events[i].driver \in Drivers /\ events[i].report \in Nat \ {0}
      /\ events' = [events EXCEPT ![i].state = "handled"]
      /\ GeoAdd(events[i].driver, events[i].report)
      /\ remover' = [r \in Removers |-> [remover[r] EXCEPT !.applied = @ \cup {events[i].driver}]]
      /\ UNCHANGED <<hash, ttl, last, rate, reports, call, hand, disturbed, faults>>
  BY <1>1, HandOf DEF HandleDriverLocation, IInv
<1>3. TypeOK /\ DriverInv(d)
  BY <1>2 DEF IInv
<1>4. /\ NobodyKnowsLess(d)
      /\ \A r \in Removers : events[i].driver \in remover'[r].applied
  <2>1. \A r \in Removers : remover[r] \in RemoverRecord
    BY <1>3 DEF TypeOK
  <2>2. \A r \in Removers : /\ remover'[r].stage = remover[r].stage
                            /\ remover'[r].found = remover[r].found
                            /\ remover'[r].applied = remover[r].applied \cup {events[i].driver}
    BY <1>2, <2>1 DEF RemoverRecord
  <2> QED
    BY <2>2 DEF NobodyKnowsLess
<1>5. geo \in [Drivers -> Nat]
  BY <1>3 DEF TypeOK
<1>6. CASE events[i].driver # d
  <2>1. KeysUntouched(d)
    BY <1>2, <1>5, <1>6 DEF KeysUntouched, GeoAdd
  <2> QED
    BY <1>2, <1>3, <1>4, <1>6, <2>1, OtherEvent, Frame
<1>7. CASE events[i].driver = d
  <2>1. /\ DOMAIN events' = DOMAIN events /\ events'[i].state = "handled"
        /\ \A j \in DOMAIN events \ {i} : events'[j] = events[j]
        /\ \A j \in DOMAIN events : events'[j].report = events[j].report
        /\ Of(d)' = Of(d) /\ Newest(d)' = Newest(d) /\ Of(d) \subseteq DOMAIN events
    BY <1>2, <1>3, EventChanged DEF Of
  <2>2. CallsOf(d)' = CallsOf(d) /\ (\A S : CallAt(d, S)' = CallAt(d, S))
    BY <1>2 DEF CallsOf, CallAt
  <2>3. geo'[d] = events[i].report
    BY <1>2, <1>5, <1>7 DEF GeoAdd
  <2>4. i \in Of(d)
    BY <1>2, <1>7 DEF Of
  <2>5. PICK j : j \in Newest(d)
    BY <1>3, <2>4 DEF DriverInv, Orderly
  <2>6. j = i \/ events[j].state = "new"
    <3>1. j \in Nat /\ i \in Nat /\ j \in Of(d) /\ i <= j
      BY <1>2, <1>3, <2>1, <2>4, <2>5 DEF Newest, TypeOK
    <3>2. events[i].state # "done"
      BY <1>2
    <3> QED
      BY <1>3, <2>4, <3>1, <3>2 DEF DriverInv, Orderly
  <2>7. j = i \/ ~Applied(j)'
    BY <2>1, <2>5, <2>6 DEF Applied, Newest
  <2>8. Orderly(d)'
    BY <1>2, <1>3, <2>1, <2>2 DEF DriverInv, Orderly
  <2>9. Remembered(d)'
    <3>1. Newest(d) \subseteq DOMAIN events
      BY <2>1 DEF Newest
    <3> QED
      BY <1>2, <1>3, <2>1, <2>2, <3>1 DEF DriverInv, Remembered
  <2>10. Placed(d)'
    BY <2>1, <2>3, <2>4, <2>5, <2>7 DEF Placed
  <2>11. Kept(d)'
    BY <1>2, <1>4, <1>7, <2>1, <2>3, <2>5, <2>7 DEF Kept
  <2> QED
    BY <2>8, <2>9, <2>10, <2>11 DEF DriverInv
<1> QED
  BY <1>6, <1>7

LEMMA RedeliverDriver ==
    ASSUME IInv, NEW w \in Consumers, Redeliver(w), NEW d \in Drivers \ disturbed'
    PROVE  DriverInv(d)'
<1>1. PICK i : i = hand[w]
  OBVIOUS
<1>2. /\ i \in DOMAIN events /\ events[i].driver # d
      /\ events' = [events EXCEPT ![i].state = "again"]
      /\ UNCHANGED <<redis, reports, call, remover, slow>>
  BY <1>1, HandOf DEF Redeliver, IInv
<1>3. TypeOK /\ DriverInv(d) /\ KeysUntouched(d) /\ NobodyKnowsLess(d)
  BY <1>2 DEF IInv, KeysUntouched, NobodyKnowsLess, redis, Redeliver
<1> QED
  BY <1>2, <1>3, OtherEvent, Frame

LEMMA ListingDriver ==
    ASSUME IInv, NEW r \in Removers, Listing(r), NEW d \in Drivers \ disturbed'
    PROVE  DriverInv(d)'
<1>1. /\ DriverInv(d) /\ KeysUntouched(d) /\ Untouched(d)
      /\ UNCHANGED <<last, call, events, slow, hash, geo>>
  BY DEF Listing, IInv, KeysUntouched, Untouched, redis, CallsOf, Of
<1>2. CASE last[d]
  <2>1. NobodyKnowsLess(d)
    BY <1>2 DEF Listing, NobodyKnowsLess
  <2> QED
    BY <1>1, <2>1, Frame
<1>3. CASE ~last[d]
  <2>1. Newest(d)' = Newest(d) /\ CallsOf(d)' = CallsOf(d) /\ Of(d)' = Of(d)
        /\ (\A S : CallAt(d, S)' = CallAt(d, S)) /\ \A i : Applied(i)' = Applied(i)
    BY <1>1, UntouchedSets DEF Untouched, Applied
  <2>2. Orderly(d)'
    BY <1>1, <2>1 DEF DriverInv, Orderly
  <2>3. Remembered(d)'
    BY <1>1, <2>1 DEF DriverInv, Remembered
  <2>4. Placed(d)'
    BY <1>1, <2>1 DEF DriverInv, Placed
  <2>5. Kept(d)'
    BY <1>1, <1>3 DEF Kept
  <2> QED
    BY <2>2, <2>3, <2>4, <2>5 DEF DriverInv
<1> QED
  BY <1>2, <1>3

LEMMA ZRemDriver ==
    ASSUME IInv, NEW r \in Removers, ZRem(r), NEW d \in Drivers \ disturbed'
    PROVE  DriverInv(d)'
<1>1. /\ remover' = [remover EXCEPT ![r].stage = "idle", ![r].found = {}, ![r].applied = {}]
      /\ geo' = [e \in Drivers |-> IF e \in remover[r].found THEN 0 ELSE geo[e]]
      /\ slow' = slow \cup (remover[r].found \cap remover[r].applied)
      /\ remover[r].stage = "stale"
      /\ UNCHANGED <<hash, ttl, last, rate, reports, call, events, hand, disturbed, faults>>
  BY DEF ZRem
<1>2. TypeOK /\ DriverInv(d) /\ Untouched(d) /\ d \in Drivers
  BY <1>1 DEF IInv, Untouched, CallsOf, Of
<1>3. /\ \A q \in Removers \ {r} : remover'[q] = remover[q]
      /\ remover'[r].stage = "idle"
  BY <1>1, <1>2, RemoverIdle
<1>4. NobodyKnowsLess(d)
  BY <1>3 DEF NobodyKnowsLess
<1>5. CASE d \notin remover[r].found
  <2>1. KeysUntouched(d)
    BY <1>1, <1>2, <1>5 DEF KeysUntouched
  <2> QED
    BY <1>2, <1>4, <2>1, Frame
<1>6. CASE d \in remover[r].found
  <2>1. Newest(d)' = Newest(d) /\ CallsOf(d)' = CallsOf(d) /\ Of(d)' = Of(d)
        /\ (\A S : CallAt(d, S)' = CallAt(d, S)) /\ \A i : Applied(i)' = Applied(i)
    BY <1>1, <1>2, UntouchedSets DEF Untouched, Applied
  <2>2. Orderly(d)'
    BY <1>1, <1>2, <2>1 DEF DriverInv, Orderly
  <2>3. Remembered(d)'
    BY <1>1, <1>2, <2>1 DEF DriverInv, Remembered
  <2>4. Placed(d)'
    BY <1>1, <1>2, <1>6 DEF Placed
  <2>5. Kept(d)'
    <3>1. CASE ~last[d] \/ CallAt(d, {"geo", "publish"})
      BY <1>1, <2>1, <3>1 DEF Kept
    <3>2. CASE last[d] /\ ~CallAt(d, {"geo", "publish"})
      <4>1. PICK i \in Newest(d) : Applied(i) /\ d \notin slow => d \in remover[r].applied
        BY <1>1, <1>2, <1>6, <3>2 DEF DriverInv, Kept
      <4>2. Applied(i) => d \in slow'
        BY <1>1, <1>6, <4>1
      <4> QED
        BY <2>1, <4>1, <4>2 DEF Kept
    <3> QED
      BY <3>1, <3>2
  <2> QED
    BY <2>2, <2>3, <2>4, <2>5 DEF DriverInv
<1> QED
  BY <1>5, <1>6

------------------------------------------------------------------------------
LEMMA InvInit == Init => IInv
<1> SUFFICES ASSUME Init PROVE IInv
  OBVIOUS
<1>1. TypeOK
  BY TypeInit
<1>2. Held
  BY DEF Init, Held
<1>3. ASSUME NEW d \in Drivers PROVE DriverInv(d)
  <2>1. Of(d) = {}
    BY DEF Init, Of
  <2>2. CallsOf(d) = {}
    BY FreeCall, NobodyAssumption DEF Init, CallsOf
  <2>3. hash[d] = 0 /\ geo[d] = 0 /\ ~last[d]
    BY DEF Init
  <2> QED
    BY <2>1, <2>2, <2>3 DEF DriverInv, Orderly, Remembered, Placed, Kept, CallAt
<1> QED
  BY <1>1, <1>2, <1>3 DEF IInv

LEMMA InvStep == IInv /\ [Next]_vars => IInv'
<1> SUFFICES ASSUME IInv, [Next]_vars PROVE IInv'
  OBVIOUS
<1>1. TypeOK' /\ Held'
  BY TypeStep, HeldStep DEF IInv
<1>2. ASSUME NEW d \in Drivers \ disturbed' PROVE DriverInv(d)'
  <2>1. ASSUME NEW c \in Calls,
               (\E e \in Drivers : Allow(c, e)) \/ Handle(c) \/ Invalid(c) \/ Cut(c)
        PROVE  DriverInv(d)'
    BY <2>1, AllowDriver, InvalidDriver, CutDriver, UpsertDriver, PublishDriver DEF Handle
  <2>2. ASSUME NEW e \in Drivers, RateExpires(e) \/ Expire(e) PROVE DriverInv(d)'
    BY <2>2, TimeDriver
  <2>3. ASSUME NEW w \in Consumers, Consume(w) \/ Redeliver(w) PROVE DriverInv(d)'
    BY <2>3, TakeDriver, HandleDriver, AckDriver, RedeliverDriver DEF Consume
  <2>4. ASSUME NEW r \in Removers,
               \/ r \in Sweeps /\ (Scan(r) \/ Restart(r))
               \/ GeoRadius(r) \/ Remove(r) \/ RemoverFails(r)
        PROVE  DriverInv(d)'
    BY <2>4, ListingSteps, ListingDriver, ZRemDriver DEF Remove, IInv
  <2>5. CASE UNCHANGED vars
    <3>1. DriverInv(d) /\ KeysUntouched(d) /\ Untouched(d) /\ NobodyKnowsLess(d)
      BY <2>5 DEF vars, IInv, KeysUntouched, Untouched, NobodyKnowsLess, CallsOf, Of
    <3> QED
      BY <3>1, Frame
  <2>6. Sweeps \subseteq Removers /\ Lookups \subseteq Removers
    BY DEF Removers
  <2> QED
    BY <2>1, <2>2, <2>3, <2>4, <2>5, <2>6 DEF Next
<1> QED
  BY <1>1, <1>2 DEF IInv

THEOREM LocationInvariant == Spec => []IInv
<1> QED
  BY InvInit, InvStep, PTL DEF Spec

(* A driver whose calls and events are over: its newest event is done.     *)
LEMMA NewestIsApplied ==
    ASSUME NEW d, Outstanding(d) = {}, NEW i \in Newest(d)
    PROVE  Applied(i)
BY DEF Outstanding, Newest, Of, Applied

(* Once all events of a driver are handled, drivers:geo has its last       *)
(* position or nothing, unless its calls or events overlapped, were        *)
(* repeated or cut.                                                        *)
THEOREM PositionsSettle == Spec => []SettledPosition
<1>1. IInv => SettledPosition
  <2> SUFFICES ASSUME IInv, NEW d \in Drivers, d \notin disturbed,
                      CallsOf(d) = {}, Outstanding(d) = {}, hash[d] # 0
               PROVE  geo[d] \in {0, hash[d]}
    BY DEF SettledPosition
  <2>1. \A S : ~CallAt(d, S)
    BY DEF CallAt
  <2>2. \E i \in Newest(d) : hash[d] = events[i].report
    BY <2>1 DEF IInv, DriverInv, Remembered
  <2>3. geo[d] = 0 \/ \E i \in Newest(d) : geo[d] = events[i].report
    BY <2>1, NewestIsApplied DEF IInv, DriverInv, Placed
  <2>4. \A i, j \in Newest(d) : i = j
    <3>1. DOMAIN events \subseteq Nat
      BY DEF IInv, TypeOK
    <3> QED
      BY <3>1 DEF Newest, Of
  <2> QED
    BY <2>2, <2>3, <2>4
<1> QED
  BY <1>1, LocationInvariant, PTL

(* A live driver is in drivers:geo once its events are handled, whoever    *)
(* removed it on the way, unless a remover slept that long.                *)
THEOREM LiveDriversAreFound == Spec => []LiveIsFound
<1>1. IInv => LiveIsFound
  <2> SUFFICES ASSUME IInv, NEW d \in Drivers, last[d],
                      CallsOf(d) = {}, Outstanding(d) = {}, d \notin disturbed \cup slow
               PROVE  geo[d] # 0
    BY DEF LiveIsFound
  <2>1. \A S : ~CallAt(d, S)
    BY DEF CallAt
  <2> QED
    BY <2>1, NewestIsApplied DEF IInv, DriverInv, Kept
<1> QED
  BY <1>1, LocationInvariant, PTL
==============================================================================
