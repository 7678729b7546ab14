---------------------------- MODULE LocationIndex ----------------------------
(***************************************************************************)
(* Where the drivers are.  The location service keeps, in Redis and per    *)
(* driver, a hash with the last position, a key "last" with the same time  *)
(* to live that says the driver is alive, and the driver's entry in the    *)
(* sorted set drivers:geo, which has no time to live.  A report writes all *)
(* three in one pipeline (no transaction) and is then published.  Matching *)
(* consumes driver.location.updated and writes the event's position into   *)
(* the same drivers:geo, whatever is there.                                *)
(*                                                                         *)
(* Entries of drivers that stopped reporting are taken out by the cleanup  *)
(* loop of every replica and by every Nearby, both of which list members,  *)
(* ask whether their "last" keys exist, and remove the others: three       *)
(* commands, between which the driver may report.                          *)
(***************************************************************************)
EXTENDS Naturals, Sequences, FiniteSets

CONSTANTS
    Drivers,
    Calls,         \* UpdateDriverLocation calls that may run at once
    Sweeps,        \* cleanup loops, one per replica of the location service
    Lookups,       \* ListNearbyDrivers calls that may run at once
    Consumers,     \* pull loops of matching, one per replica
    Nobody,        \* the driver of a call that does not run
    MaxReports,    \* bound: calls that pass the rate limiter
    MaxFaults      \* bound: failures, crashes and redeliveries

ASSUME NobodyAssumption == Nobody \notin Drivers
ASSUME BoundsAssumption == MaxReports \in Nat /\ MaxFaults \in Nat

VARIABLES
    hash,      \* [Drivers -> report in driver:location:<id>, 0 if none]
    ttl,       \* [Drivers -> does that hash have a time to live]
    last,      \* [Drivers -> does the last key exist]
    geo,       \* [Drivers -> report whose position drivers:geo has, 0 if none]
    rate,      \* [Drivers -> does the rate limiter's key exist]
    reports,   \* reports so far; a position is known by its number
    call,      \* [Calls -> stage, driver and report]
    events,    \* driver.location.updated: driver, report and delivery state
    hand,      \* [Consumers -> event being handled, 0 if none]
    remover,   \* [Sweeps \cup Lookups -> stage, cursor and what it found]
    disturbed, \* ghost: drivers whose reports were reordered, repeated or cut
    slow,      \* ghost: drivers removed on knowledge older than their event
    faults

vars == <<hash, ttl, last, geo, rate, reports, call, events, hand, remover, disturbed, slow, faults>>
redis == <<hash, ttl, last, geo, rate>>

Removers == Sweeps \cup Lookups
Free == [stage |-> "free", driver |-> Nobody, report |-> 0]
(* todo: what ZSCAN has not visited in this pass; found: members listed,   *)
(* then the stale ones; applied: ghost, drivers whose event was applied    *)
(* since their last key was asked for.                                     *)
Fresh == [stage |-> "idle", todo |-> Drivers, found |-> {}, applied |-> {}]

Init ==
    /\ hash = [d \in Drivers |-> 0]
    /\ ttl = [d \in Drivers |-> FALSE]
    /\ last = [d \in Drivers |-> FALSE]
    /\ geo = [d \in Drivers |-> 0]
    /\ rate = [d \in Drivers |-> FALSE]
    /\ reports = 0
    /\ call = [c \in Calls |-> Free]
    /\ events = <<>>
    /\ hand = [w \in Consumers |-> 0]
    /\ remover = [r \in Removers |-> Fresh]
    /\ disturbed = {}
    /\ slow = {}
    /\ faults = 0

Fault == faults < MaxFaults /\ faults' = faults + 1

(* Calls that are between the rate limiter and their answer.               *)
CallsOf(d) == {c \in Calls : call[c].driver = d}
(* Events of d that matching has not acknowledged.                         *)
Outstanding(d) == {i \in DOMAIN events : events[i].driver = d /\ events[i].state # "done"}
HandledOf(d) == {w \in Consumers : hand[w] # 0 /\ events[hand[w]].driver = d}

------------------------------------------------------------------------------
(* UpdateDriverLocation.                                                   *)

(* SETNX on the rate limiter's key, then the clock is read: the number of  *)
(* the report stands for recorded_at.  A refused call changes nothing.     *)
Allow(c, d) ==
    /\ call[c] = Free
    /\ ~rate[d]
    /\ reports < MaxReports
    /\ rate' = [rate EXCEPT ![d] = TRUE]
    /\ reports' = reports + 1
    /\ call' = [call EXCEPT ![c] = [stage |-> "upsert", driver |-> d, report |-> reports + 1]]
    /\ disturbed' = IF CallsOf(d) = {} THEN disturbed ELSE disturbed \cup {d}
    /\ UNCHANGED <<hash, ttl, last, geo, events, hand, remover, slow, faults>>

(* NewDriverLocation refuses the coordinates; the limiter's key stays.     *)
Invalid(c) ==
    /\ call[c].stage = "upsert"
    /\ call' = [call EXCEPT ![c] = Free]
    /\ UNCHANGED <<redis, reports, events, hand, remover, disturbed, slow, faults>>

(* Upsert's pipeline: HSET, EXPIRE, SET, GEOADD.  The second and the third *)
(* are one step: without either the hash or the last key would still       *)
(* expire on its own.                                                      *)
UpsertHash(c) ==
    /\ call[c].stage = "upsert"
    /\ hash' = [hash EXCEPT ![call[c].driver] = call[c].report]
    /\ call' = [call EXCEPT ![c].stage = "last"]
    /\ UNCHANGED <<ttl, last, geo, rate, reports, events, hand, remover, disturbed, slow, faults>>

UpsertLast(c) ==
    /\ call[c].stage = "last"
    /\ ttl' = [ttl EXCEPT ![call[c].driver] = hash[call[c].driver] # 0]
    /\ last' = [last EXCEPT ![call[c].driver] = TRUE]
    /\ call' = [call EXCEPT ![c].stage = "geo"]
    /\ UNCHANGED <<hash, geo, rate, reports, events, hand, remover, disturbed, slow, faults>>

(* GEOADD overwrites whatever the entry is; with NX it would not.          *)
GeoAddNX(d, n) ==
    /\ geo' = [geo EXCEPT ![d] = IF @ = 0 THEN n ELSE @]
    /\ slow' = slow \ {d}

GeoAdd(d, n) ==
    /\ geo' = [geo EXCEPT ![d] = n]
    /\ slow' = slow \ {d}

UpsertGeo(c) ==
    /\ call[c].stage = "geo"
    /\ GeoAdd(call[c].driver, call[c].report)
    /\ call' = [call EXCEPT ![c].stage = "publish"]
    /\ UNCHANGED <<hash, ttl, last, rate, reports, events, hand, remover, disturbed, faults>>

Publish(c) ==
    /\ call[c].stage = "publish"
    /\ events' = Append(events, [driver |-> call[c].driver, report |-> call[c].report,
                                 state |-> "new"])
    /\ call' = [call EXCEPT ![c] = Free]
    /\ UNCHANGED <<redis, reports, hand, remover, disturbed, slow, faults>>

(* An error of Redis or of JetStream, or the end of the process: the call  *)
(* stops where it is and nothing is undone.  Its caller sees an error.     *)
Cut(c) ==
    /\ call[c] # Free
    /\ Fault
    /\ call' = [call EXCEPT ![c] = Free]
    /\ disturbed' = disturbed \cup {call[c].driver}
    /\ UNCHANGED <<redis, reports, events, hand, remover, slow>>

------------------------------------------------------------------------------
(* Time.                                                                   *)

RateExpires(d) ==
    /\ rate[d]
    /\ rate' = [rate EXCEPT ![d] = FALSE]
    /\ UNCHANGED <<hash, ttl, last, geo, reports, call, events, hand, remover, disturbed, slow, faults>>

(* The driver has not reported for LocationTTL.  A hash that a pipeline cut*)
(* after HSET left without a time to live stays.                           *)
Expire(d) ==
    /\ last[d]
    /\ last' = [last EXCEPT ![d] = FALSE]
    /\ hash' = IF ttl[d] THEN [hash EXCEPT ![d] = 0] ELSE hash
    /\ ttl' = [ttl EXCEPT ![d] = FALSE]
    /\ UNCHANGED <<geo, rate, reports, call, events, hand, remover, disturbed, slow, faults>>

------------------------------------------------------------------------------
(* Matching: the consumer of driver.location.updated.                      *)

Redelivered == {i \in DOMAIN events : events[i].state = "again"}
Undelivered == {i \in DOMAIN events : events[i].state = "new"}

Take(w) ==
    /\ hand[w] = 0
    /\ \E i \in Redelivered \cup Undelivered :
         /\ i \in Undelivered => \A j \in Undelivered : i <= j
         /\ hand' = [hand EXCEPT ![w] = i]
         /\ events' = [events EXCEPT ![i].state = "taken"]
         /\ disturbed' = IF HandledOf(events[i].driver) = {} THEN disturbed
                         ELSE disturbed \cup {events[i].driver}
    /\ UNCHANGED <<redis, reports, call, remover, slow, faults>>

(* HandleDriverLocation: GEOADD of the event's position.                   *)
HandleDriverLocation(w) ==
    /\ hand[w] # 0 /\ events[hand[w]].state = "taken"
    /\ LET d == events[hand[w]].driver
       IN  /\ GeoAdd(d, events[hand[w]].report)
           /\ remover' = [r \in Removers |-> [remover[r] EXCEPT !.applied = @ \cup {d}]]
    /\ events' = [events EXCEPT ![hand[w]].state = "handled"]
    /\ UNCHANGED <<hash, ttl, last, rate, reports, call, hand, disturbed, faults>>

Ack(w) ==
    /\ hand[w] # 0 /\ events[hand[w]].state = "handled"
    /\ events' = [events EXCEPT ![hand[w]].state = "done"]
    /\ hand' = [hand EXCEPT ![w] = 0]
    /\ UNCHANGED <<redis, reports, call, remover, disturbed, slow, faults>>

(* Redis fails and the event is nacked, the process ends, or the           *)
(* acknowledgement is lost: the event is delivered again.                  *)
Redeliver(w) ==
    /\ hand[w] # 0
    /\ Fault
    /\ events' = [events EXCEPT ![hand[w]].state = "again"]
    /\ hand' = [hand EXCEPT ![w] = 0]
    /\ disturbed' = disturbed \cup {events[hand[w]].driver}
    /\ UNCHANGED <<redis, reports, call, remover, slow>>

------------------------------------------------------------------------------
(* Nearby and CleanStaleGeo.                                               *)

Members == {d \in Drivers : geo[d] # 0}

(* The cursor stays where the first pass ends.                             *)
ScanOnce(s) ==
    /\ remover[s].stage = "idle"
    /\ \E part \in SUBSET remover[s].todo \ {{}} :
         remover' = [remover EXCEPT ![s] =
           [Fresh EXCEPT !.stage = IF part \cap Members = {} THEN "idle" ELSE "listed",
                         !.found = part \cap Members,
                         !.todo = remover[s].todo \ part]]
    /\ UNCHANGED <<redis, reports, call, events, hand, disturbed, slow, faults>>

(* ZSCAN from the cursor returns the members in some of the part of the    *)
(* set it has not visited; when nothing is left it begins again at 0.      *)
Scan(s) ==
    /\ remover[s].stage = "idle"
    /\ \E part \in SUBSET remover[s].todo \ {{}} :
         LET rest == remover[s].todo \ part
         IN  remover' = [remover EXCEPT ![s] =
               [Fresh EXCEPT !.stage = IF part \cap Members = {} THEN "idle" ELSE "listed",
                             !.found = part \cap Members,
                             !.todo = IF rest = {} THEN Drivers ELSE rest]]
    /\ UNCHANGED <<redis, reports, call, events, hand, disturbed, slow, faults>>

(* GEORADIUS with a limit: some of the members.                            *)
GeoRadius(l) ==
    /\ remover[l].stage = "idle"
    /\ \E near \in SUBSET Members \ {{}} :
         remover' = [remover EXCEPT ![l] = [Fresh EXCEPT !.stage = "listed", !.found = near]]
    /\ UNCHANGED <<redis, reports, call, events, hand, disturbed, slow, faults>>

(* The answers of EXISTS are read the wrong way round.                     *)
ExistsInverted(r) ==
    /\ remover[r].stage = "listed"
    /\ LET stale == {d \in remover[r].found : last[d]}
       IN  remover' = [remover EXCEPT ![r].stage = IF stale = {} THEN "idle" ELSE "stale",
                                      ![r].found = stale, ![r].applied = {}]
    /\ UNCHANGED <<redis, reports, call, events, hand, disturbed, slow, faults>>

(* EXISTS on the last key of everybody listed.  The live ones are Nearby's *)
(* answer; if there are no others the command that removes is not sent.    *)
Exists(r) ==
    /\ remover[r].stage = "listed"
    /\ LET stale == {d \in remover[r].found : ~last[d]}
       IN  remover' = [remover EXCEPT ![r].stage = IF stale = {} THEN "idle" ELSE "stale",
                                      ![r].found = stale, ![r].applied = {}]
    /\ UNCHANGED <<redis, reports, call, events, hand, disturbed, slow, faults>>

ZRem(r) ==
    /\ remover[r].stage = "stale"
    /\ geo' = [d \in Drivers |-> IF d \in remover[r].found THEN 0 ELSE geo[d]]
    /\ slow' = slow \cup (remover[r].found \cap remover[r].applied)
    /\ remover' = [remover EXCEPT ![r].stage = "idle", ![r].found = {}, ![r].applied = {}]
    /\ UNCHANGED <<hash, ttl, last, rate, reports, call, events, hand, disturbed, faults>>

(* EXISTS or ZREM fails: the loop goes on with the next cursor.            *)
RemoverFails(r) ==
    /\ remover[r].stage \in {"listed", "stale"}
    /\ Fault
    /\ remover' = [remover EXCEPT ![r].stage = "idle", ![r].found = {}, ![r].applied = {}]
    /\ UNCHANGED <<redis, reports, call, events, hand, disturbed, slow>>

(* A replica of the location service starts again, its cursor at 0.        *)
Restart(s) ==
    /\ Fault
    /\ remover' = [remover EXCEPT ![s] = Fresh]
    /\ UNCHANGED <<redis, reports, call, events, hand, disturbed, slow>>

------------------------------------------------------------------------------
Handle(c) == UpsertHash(c) \/ UpsertLast(c) \/ UpsertGeo(c) \/ Publish(c)
Consume(w) == Take(w) \/ HandleDriverLocation(w) \/ Ack(w)
Remove(r) == Exists(r) \/ ZRem(r)

Next ==
    \/ \E c \in Calls : \/ \E d \in Drivers : Allow(c, d)
                        \/ Handle(c) \/ Invalid(c) \/ Cut(c)
    \/ \E d \in Drivers : RateExpires(d) \/ Expire(d)
    \/ \E w \in Consumers : Consume(w) \/ Redeliver(w)
    \/ \E s \in Sweeps : Scan(s) \/ Restart(s)
    \/ \E l \in Lookups : GeoRadius(l)
    \/ \E r \in Removers : Remove(r) \/ RemoverFails(r)

Spec == Init /\ [][Next]_vars

(* Handlers run to their end, the pull loops of matching and the cleanup   *)
(* tickers go on; nobody has to ask who is near.                           *)
FairSpec ==
    /\ Spec
    /\ \A c \in Calls : WF_vars(Handle(c))
    /\ \A w \in Consumers : WF_vars(Consume(w))
    /\ \A s \in Sweeps : WF_vars(Scan(s) \/ Remove(s))

------------------------------------------------------------------------------
(* Properties                                                              *)

(* Although matching puts older positions back over newer ones while       *)
(* events are on their way, drivers:geo has the driver's last position, or *)
(* nothing, once all its events are handled: provided that no two calls    *)
(* and no two consumers handled the driver at once, no event was           *)
(* redelivered and no call ended early.                                    *)
SettledPosition ==
    \A d \in Drivers :
        /\ d \notin disturbed
        /\ CallsOf(d) = {} /\ Outstanding(d) = {}
        /\ hash[d] # 0
        => geo[d] \in {0, hash[d]}

(* A driver that reported within the time to live is found, although a     *)
(* remover that asked before the report takes it out after: its own event  *)
(* puts it back.  It stays missing only if the remover slept until matching*)
(* had handled the event too, or if its call was cut.                      *)
LiveIsFound ==
    \A d \in Drivers :
        /\ last[d]
        /\ CallsOf(d) = {} /\ Outstanding(d) = {}
        /\ d \notin disturbed \cup slow
        => geo[d] # 0

(* A driver that stops reporting leaves drivers:geo for good, although     *)
(* late events of it put it back after a cleanup has removed it.           *)
GoneInTheEnd ==
    \A d \in Drivers : <>[](~last[d] /\ CallsOf(d) = {}) => <>[](geo[d] = 0)

==============================================================================
