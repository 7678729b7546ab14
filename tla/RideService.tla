---------------------------- MODULE RideService ----------------------------
(***************************************************************************)
(* The ride service's use cases as the code runs them: each call looks its  *)
(* idempotency key up, opens a READ COMMITTED transaction, reads the row,   *)
(* decides, updates the row WHERE status is still the one read, enqueues an *)
(* event, saves the reply under the key and commits.  Calls of several      *)
(* replicas and of their expiry workers interleave between these steps.     *)
(* A transaction's writes are invisible until Commit; the row it updated    *)
(* and the key it inserted stay locked (PostgreSQL blocks the others).      *)
(***************************************************************************)
EXTENDS RideLifecycle

CONSTANTS
  Handlers,      \* goroutines of the gRPC servers, over all replicas
  Sweepers,      \* offer expiry workers, one per replica
  Keys,          \* idempotency keys; a call without one carries None
  Requests,      \* the requests clients send (and may send again)
  MaxCalls,      \* bound: calls the handlers start
  MaxFaults,     \* bound: database errors, crashes, ended contexts
  MaxCleanups,   \* bound: deletions of an old key
  MarksOffered   \* TRUE: somebody writes OFFERED, as the use case's test does

Actors == Handlers \cup Sweepers
CreateOps == {"CreateRide", "CreateOffer"}
RideOps == {"CancelRide", "StartMatching", "AssignDriver", "StartRide", "CompleteRide"}
OfferOps == {"AcceptOffer", "DeclineOffer", "ExpireOffer"}

Request == [op: CreateOps \cup RideOps \cup OfferOps, key: Keys \cup {None},
            id: Rides \cup Offers \cup {None}, driver: Drivers \cup {None}]

\* The id of a request names a ride, or for the offer operations an offer; the
\* operations that store a driver are given one.
WellFormed(q) ==
  /\ q \in Request
  /\ q.op \in RideOps \cup {"CreateOffer"} => q.id \in Rides
  /\ q.op \in OfferOps => q.id \in Offers
  /\ q.op \in {"AssignDriver", "CreateOffer"} => q.driver \in Drivers

\* The reply of an operation, as it is stored under a key.
Reply == [id: Rides \cup Offers, status: Announced]

ASSUME ServiceAssumption ==
  /\ \A q \in Requests : WellFormed(q)
  /\ None \notin Keys \cup Reply
  /\ Handlers \cap Sweepers = {}
  /\ MaxCalls \in Nat /\ MaxFaults \in Nat /\ MaxCleanups \in Nat
  /\ MarksOffered \in BOOLEAN

VARIABLES
  idem,      \* table idempotency_keys: the reply stored under a key, or None
  call,      \* the call each actor executes
  batch,     \* the rest of an expiry worker's ListExpired result
  due,       \* offers whose expires_at has passed
  budget,    \* calls, faults and cleanups so far (bounds)
  history    \* per key since it was last deleted: effects and answers

vars == <<ride, offer, outbox, idem, call, batch, due, budget, history>>

\* The status an operation moves its row to.
NewStatus(op) ==
  CASE op = "CreateRide" -> "REQUESTED"
    [] op = "StartMatching" -> "MATCHING"
    [] op = "AssignDriver" -> "DRIVER_ASSIGNED"
    [] op = "StartRide" -> "IN_PROGRESS"
    [] op = "CompleteRide" -> "COMPLETED"
    [] op = "CancelRide" -> "CANCELLED"
    [] op = "CreateOffer" -> "PENDING"
    [] op = "AcceptOffer" -> "ACCEPTED"
    [] op = "DeclineOffer" -> "DECLINED"
    [] op = "ExpireOffer" -> "EXPIRED"

ReplyOf(w) == [id |-> call[w].id, status |-> NewStatus(call[w].req.op)]

NoRequest == [op |-> "CancelRide", key |-> None, id |-> None, driver |-> None]
Idle == [pc |-> "idle", req |-> NoRequest, id |-> None, seen |-> "ABSENT", saved |-> "no"]
Call == [pc: {"idle", "lookup", "load", "write", "save", "commit"},
         req: Request,
         id: Rides \cup Offers \cup {None},             \* the row of the call
         seen: RideStatus \cup OfferStatus \cup {"ABSENT"},  \* status read by Load
         saved: {"no", "stored", "duplicate", "skipped"}]    \* outcome of idem.Save

Fresh == [applied |-> 0, skipped |-> 0, answers |-> {}]

Init ==
  /\ InitTables
  /\ idem = [k \in Keys |-> None]
  /\ call = [w \in Actors |-> Idle]
  /\ batch = [s \in Sweepers |-> {}]
  /\ due = {}
  /\ budget = [calls |-> 0, faults |-> 0, cleanups |-> 0]
  /\ history = [k \in Keys |-> Fresh]

-----------------------------------------------------------------------------
Key(w) == call[w].req.key
Op(w) == call[w].req.op
Status(id) == IF id \in Rides THEN ride[id].status ELSE offer[id].status
CanMove(id, from, to) == IF id \in Rides THEN RideCanMove(from, to) ELSE OfferCanMove(from, to)

\* Mutant: the read also locks the row (SELECT ... FOR SHARE).
LockedByReader(w, id) ==
  \E v \in Actors \ {w} : call[v].pc \in {"write", "save", "commit"} /\ call[v].id = id

\* Row id is locked by another transaction that wrote it and is still open.
LockedByOther(w, id) ==
  \E v \in Actors \ {w} : call[v].pc \in {"save", "commit"} /\ call[v].id = id

Begin(w, q) == call' = [call EXCEPT ![w] = [Idle EXCEPT !.pc = "lookup", !.req = q]]
Finish(w) == call' = [call EXCEPT ![w] = Idle]

\* A client sends a request, for the first time or again.
Receive(w, q) ==
  /\ call[w].pc = "idle"
  /\ budget.calls < MaxCalls
  /\ Begin(w, q)
  /\ budget' = [budget EXCEPT !.calls = @ + 1]
  /\ UNCHANGED <<tables, idem, batch, due, history>>

HasReply(w) == Key(w) # None /\ idem[Key(w)] # None

\* The key has a stored reply: return it and do nothing else.
Replay(w) ==
  /\ call[w].pc = "lookup"
  /\ HasReply(w)
  /\ history' = [history EXCEPT ![Key(w)].answers = @ \cup {idem[Key(w)]}]
  /\ Finish(w)
  /\ UNCHANGED <<tables, idem, batch, due, budget>>

\* No key, no stored reply, or the lookup failed (its error is ignored): go on.
LookupMiss(w) ==
  /\ call[w].pc = "lookup"
  /\ HasReply(w) => budget.faults < MaxFaults
  /\ call' = [call EXCEPT ![w].pc = IF Op(w) \in CreateOps THEN "write" ELSE "load"]
  /\ budget' = IF HasReply(w) THEN [budget EXCEPT !.faults = @ + 1] ELSE budget
  /\ UNCHANGED <<tables, idem, batch, due, history>>

\* Mutant: the use case does not ask Transition.
LoadUnchecked(w) ==
  LET id == call[w].req.id IN
  /\ call[w].pc = "load"
  /\ IF Status(id) # "ABSENT"
     THEN call' = [call EXCEPT ![w].pc = "write", ![w].id = id, ![w].seen = Status(id)]
     ELSE Finish(w)
  /\ UNCHANGED <<tables, idem, batch, due, budget, history>>

\* repo.Get and Transition: the row's committed status decides; a missing row and
\* a transition that is not an edge roll back.
Load(w) ==
  LET id == call[w].req.id IN
  /\ call[w].pc = "load"
  /\ IF Status(id) # "ABSENT" /\ CanMove(id, Status(id), NewStatus(Op(w)))
     THEN call' = [call EXCEPT ![w].pc = "write", ![w].id = id, ![w].seen = Status(id)]
     ELSE Finish(w)
  /\ UNCHANGED <<tables, idem, batch, due, budget, history>>

\* Mutant: the update has no "AND status = ?".
UpdateBlindly(w) ==
  /\ call[w].pc = "write"
  /\ Op(w) \notin CreateOps
  /\ ~LockedByOther(w, call[w].id)
  /\ call' = [call EXCEPT ![w].pc = "save"]
  /\ UNCHANGED <<tables, idem, batch, due, budget, history>>

\* UpdateStatusIfCurrent / AssignDriverIfCurrent: waits for the row's lock, then
\* updates it if its status is still the one read, else conflicts and rolls back.
CompareAndSet(w) ==
  LET id == call[w].id IN
  /\ call[w].pc = "write"
  /\ Op(w) \notin CreateOps
  /\ ~LockedByOther(w, id)
  /\ IF Status(id) = call[w].seen
     THEN call' = [call EXCEPT ![w].pc = "save"]
     ELSE Finish(w)
  /\ UNCHANGED <<tables, idem, batch, due, budget, history>>

\* uuids nobody has drawn.  (The sets of ids are finite here: an insert that finds
\* none left fails.)
FreshIds(w) ==
  {id \in IF Op(w) = "CreateRide" THEN Rides ELSE Offers :
     Status(id) = "ABSENT" /\ ~LockedByOther(w, id)}

\* Insert of a row under a fresh uuid; an offer needs its ride (foreign key).
Insert(w) ==
  /\ call[w].pc = "write"
  /\ Op(w) \in CreateOps
  /\ IF FreshIds(w) = {} \/ (Op(w) = "CreateOffer" /\ Status(call[w].req.id) = "ABSENT")
     THEN Finish(w)
     ELSE \E id \in FreshIds(w) :
            call' = [call EXCEPT ![w].pc = "save", ![w].id = id]
  /\ UNCHANGED <<tables, idem, batch, due, budget, history>>

\* Mutant: Save is an upsert, so that a duplicate key is no error.
SaveKeyUpsert(w) ==
  /\ call[w].pc = "save"
  /\ call' = [call EXCEPT ![w].pc = "commit",
                          ![w].saved = IF Key(w) = None THEN "no" ELSE "stored"]
  /\ UNCHANGED <<tables, idem, batch, due, budget, history>>

\* Mutant: Save goes to s.Idempotency instead of the transaction's repository.
SaveKeyOutsideTx(w) ==
  /\ call[w].pc = "save"
  /\ call' = [call EXCEPT ![w].pc = "commit"]
  /\ idem' = IF Key(w) = None \/ HasReply(w) THEN idem
             ELSE [idem EXCEPT ![Key(w)] = ReplyOf(w)]
  /\ UNCHANGED <<tables, batch, due, budget, history>>

\* idem.Save inside the transaction; its error is dropped.  The unique index makes
\* it wait for a transaction that inserted the key; a key that is there poisons
\* the transaction, whose Commit will fail.
SaveKey(w) ==
  /\ call[w].pc = "save"
  /\ \/ /\ Key(w) = None
        /\ call' = [call EXCEPT ![w].pc = "commit"]
     \/ /\ Key(w) # None
        /\ \A v \in Actors \ {w} :
             ~(call[v].pc = "commit" /\ call[v].saved = "stored" /\ Key(v) = Key(w))
        /\ call' = [call EXCEPT ![w].pc = "commit",
                                ![w].saved = IF idem[Key(w)] = None THEN "stored" ELSE "duplicate"]
  /\ UNCHANGED <<tables, idem, batch, due, budget, history>>

\* The call's context ended after the event was enqueued: Save returns at once,
\* without reaching the database, and its error is dropped.
SkipKey(w) ==
  /\ call[w].pc = "save"
  /\ Key(w) # None
  /\ budget.faults < MaxFaults
  /\ call' = [call EXCEPT ![w].pc = "commit", ![w].saved = "skipped"]
  /\ budget' = [budget EXCEPT !.faults = @ + 1]
  /\ UNCHANGED <<tables, idem, batch, due, history>>

\* What the transaction wrote becomes visible: the row ...
Apply(w) ==
  LET id == call[w].id
      q == call[w].req
      s == NewStatus(q.op) IN
  /\ ride' = IF id \notin Rides THEN ride
             ELSE [ride EXCEPT ![id] =
                     CASE q.op = "CreateRide" -> [status |-> s, driver |-> None]
                       [] q.op = "AssignDriver" -> [status |-> s, driver |-> q.driver]
                       [] OTHER -> [@ EXCEPT !.status = s]]
  /\ offer' = IF id \notin Offers THEN offer
              ELSE [offer EXCEPT ![id] =
                      IF q.op = "CreateOffer"
                      THEN [status |-> s, ride |-> q.id, driver |-> q.driver]
                      ELSE [@ EXCEPT !.status = s]]

\* ... its event, and the reply under its key; then the client gets the reply,
\* except when its context ended before.  (Begin is not given that context, so
\* Commit does not see it end.)
Commit(w) ==
  /\ call[w].pc = "commit"
  /\ call[w].saved # "duplicate"
  /\ Apply(w)
  /\ Announce(NewStatus(Op(w)), call[w].id)
  /\ IF call[w].saved = "stored"
     THEN /\ idem' = [idem EXCEPT ![Key(w)] = ReplyOf(w)]
          /\ history' = [history EXCEPT ![Key(w)].applied = @ + 1,
                                        ![Key(w)].answers = @ \cup {ReplyOf(w)}]
     ELSE /\ history' = IF call[w].saved = "skipped"
                        THEN [history EXCEPT ![Key(w)].skipped = @ + 1] ELSE history
          /\ UNCHANGED idem
  /\ Finish(w)
  /\ UNCHANGED <<batch, due, budget>>

\* Mutant: Commit's error is dropped like Save's, and the reply is returned.
CommitErrorIgnored(w) ==
  /\ call[w].pc = "commit"
  /\ call[w].saved = "duplicate"
  /\ history' = [history EXCEPT ![Key(w)].answers = @ \cup {ReplyOf(w)}]
  /\ Finish(w)
  /\ UNCHANGED <<tables, idem, batch, due, budget>>

\* Commit of a poisoned transaction fails: everything is rolled back.
CommitFails(w) ==
  /\ call[w].pc = "commit"
  /\ call[w].saved = "duplicate"
  /\ Finish(w)
  /\ UNCHANGED <<tables, idem, batch, due, budget, history>>

\* Mutant: the event is enqueued through s.Outbox, outside the transaction.
AbortKeepsEvent(w) ==
  /\ call[w].pc # "idle"
  /\ budget.faults < MaxFaults
  /\ budget' = [budget EXCEPT !.faults = @ + 1]
  /\ IF call[w].pc \in {"save", "commit"}
     THEN Announce(NewStatus(Op(w)), call[w].id) ELSE UNCHANGED outbox
  /\ Finish(w)
  /\ UNCHANGED <<ride, offer, batch, idem, due, history>>

\* A statement fails, the context ends or the process dies: the open transaction is
\* rolled back; an expiry worker that restarted has lost the rest of its list.
Abort(w) ==
  /\ call[w].pc # "idle"
  /\ budget.faults < MaxFaults
  /\ budget' = [budget EXCEPT !.faults = @ + 1]
  /\ Finish(w)
  /\ batch' \in {batch, [s \in Sweepers |-> IF s = w THEN {} ELSE batch[s]]}
  /\ UNCHANGED <<tables, idem, due, history>>

-----------------------------------------------------------------------------
\* expires_at of a pending offer passes.
OfferDue(o) ==
  /\ offer[o].status = "PENDING"
  /\ o \notin due
  /\ due' = due \cup {o}
  /\ UNCHANGED <<tables, idem, call, batch, budget, history>>

\* OfferExpiryWorker.expire lists pending offers that are due (a batch of them) ...
ListExpired(s) ==
  /\ call[s].pc = "idle"
  /\ batch[s] = {}
  /\ \E listed \in SUBSET {o \in due : offer[o].status = "PENDING"} :
       /\ listed # {}
       /\ batch' = [batch EXCEPT ![s] = listed]
  /\ UNCHANGED <<tables, idem, call, due, budget, history>>

\* Mutant: the worker sends one key of its own with every call.
ExpireNextWithKey(s) ==
  /\ call[s].pc = "idle"
  /\ \E o \in batch[s] :
       /\ Begin(s, [op |-> "ExpireOffer", key |-> CHOOSE k \in Keys : TRUE,
                    id |-> o, driver |-> None])
       /\ batch' = [batch EXCEPT ![s] = @ \ {o}]
  /\ UNCHANGED <<tables, idem, due, budget, history>>

\* ... and expires each, without an idempotency key; errors are only logged.
ExpireNext(s) ==
  /\ call[s].pc = "idle"
  /\ \E o \in batch[s] :
       /\ Begin(s, [op |-> "ExpireOffer", key |-> None, id |-> o, driver |-> None])
       /\ batch' = [batch EXCEPT ![s] = @ \ {o}]
  /\ UNCHANGED <<tables, idem, due, budget, history>>

\* IdempotencyCleanup deletes a key older than its retention.
CleanupKey(k) ==
  /\ idem[k] # None
  /\ budget.cleanups < MaxCleanups
  /\ idem' = [idem EXCEPT ![k] = None]
  /\ history' = [history EXCEPT ![k] = Fresh]
  /\ budget' = [budget EXCEPT !.cleanups = @ + 1]
  /\ UNCHANGED <<tables, call, batch, due>>

\* The write of OFFERED of the use case's test: a transaction of one statement.
MarkOffered(r) ==
  /\ MarksOffered
  /\ ride[r].status = "MATCHING"
  /\ \A w \in Actors : ~(call[w].pc \in {"save", "commit"} /\ call[w].id = r)
  /\ ride' = [ride EXCEPT ![r].status = "OFFERED"]
  /\ UNCHANGED <<offer, outbox, idem, call, batch, due, budget, history>>

Step(w) ==
  \/ Replay(w)
  \/ LookupMiss(w)
  \/ Load(w)
  \/ CompareAndSet(w)
  \/ Insert(w)
  \/ SaveKey(w)
  \/ SkipKey(w)
  \/ Commit(w)
  \/ CommitFails(w)

Next ==
  \/ \E w \in Handlers, q \in Requests : Receive(w, q)
  \/ \E w \in Actors : Step(w) \/ Abort(w)
  \/ \E s \in Sweepers : ListExpired(s) \/ ExpireNext(s)
  \/ \E o \in Offers : OfferDue(o)
  \/ \E k \in Keys : CleanupKey(k)
  \/ \E r \in Rides : MarkOffered(r)

Spec == Init /\ [][Next]_vars

\* Goroutines run and tickers tick; nobody has to send a request.
Fairness ==
  /\ \A w \in Actors : WF_vars(Step(w))
  /\ \A s \in Sweepers : WF_vars(ListExpired(s)) /\ WF_vars(ExpireNext(s))

FairSpec == Spec /\ Fairness

-----------------------------------------------------------------------------
TypeOK ==
  /\ TablesTypeOK
  /\ idem \in [Keys -> Reply \cup {None}]
  /\ call \in [Actors -> Call]
  /\ batch \in [Sweepers -> SUBSET Offers]
  /\ due \in SUBSET Offers
  /\ budget \in [calls: Nat, faults: Nat, cleanups: Nat]
  /\ history \in [Keys -> [applied: Nat, skipped: Nat, answers: SUBSET Reply]]

\* What holds between the steps of the transactions: the calls are well formed, a
\* transaction that has written a row is the only one to hold it, and the row is still
\* as it was read; one that has inserted a key is the only one, and the key is new.
HoldsRow(w) == call[w].pc \in {"save", "commit"}
HoldsKey(w) == call[w].pc = "commit" /\ call[w].saved = "stored"

RowLocksExclusive ==
  \A v, w \in Actors : v # w /\ HoldsRow(v) /\ HoldsRow(w) => call[v].id # call[w].id

KeyLocksExclusive ==
  \A v, w \in Actors : v # w /\ HoldsKey(v) /\ HoldsKey(w) => Key(v) # Key(w)

CallOK(w) ==
  /\ call[w].pc # "idle" => WellFormed(call[w].req)
  /\ call[w].pc = "load" => Op(w) \notin CreateOps
  /\ (call[w].pc \in {"write", "save", "commit"} /\ Op(w) \notin CreateOps) =>
       /\ call[w].id = call[w].req.id
       /\ call[w].seen # "ABSENT"
       /\ CanMove(call[w].id, call[w].seen, NewStatus(Op(w)))
       /\ HoldsRow(w) => Status(call[w].id) = call[w].seen
  /\ (HoldsRow(w) /\ Op(w) \in CreateOps) =>
       /\ call[w].id \in IF Op(w) = "CreateRide" THEN Rides ELSE Offers
       /\ Status(call[w].id) = "ABSENT"
       /\ Op(w) = "CreateOffer" => Status(call[w].req.id) # "ABSENT"
  /\ call[w].saved # "no" => call[w].pc = "commit" /\ Key(w) # None
  /\ HoldsKey(w) => idem[Key(w)] = None

KeysOK ==
  \A k \in Keys :
    /\ history[k].applied = IF idem[k] = None THEN 0 ELSE 1
    /\ history[k].answers \subseteq {idem[k]} \ {None}

TransactionsOK ==
  /\ RowLocksExclusive
  /\ KeyLocksExclusive
  /\ \A w \in Actors : CallOK(w)
  /\ KeysOK

\* Of all the transactions that saved a given key, at most one committed: requests
\* that race under one key cannot both take effect, because the second Save poisons
\* its transaction even though the code drops Save's error.
OneUsePerKey == \A k \in Keys : history[k].applied <= 1

\* Every answer to a call with a given key is the same, whether it was computed or
\* replayed, until the key is deleted.
AnswersAgree == \A k \in Keys : \A a, b \in history[k].answers : a = b

\* A stored reply is never ahead of its operation: the event of what it reports is
\* in the outbox (the key, the row and the event commit together).
StoredReplyHasEffect ==
  \A k \in Keys : idem[k] # None =>
    \E i \in 1..Len(outbox) : outbox[i] = EventOf(idem[k].status, idem[k].id)

\* README.md:45 "Idempotent handlers": a request that is sent again under its key
\* takes effect once.
EffectOncePerKey == \A k \in Keys : history[k].applied + history[k].skipped <= 1

\* Every call ends, although calls wait for each other's row and key locks.
CallsReturn == \A w \in Actors : call[w].pc # "idle" ~> call[w].pc = "idle"

\* A pending offer whose time has passed does not stay pending, whatever replicas,
\* drivers and faults do.
OverdueOffersSettle ==
  \A o \in Offers : o \in due ~> offer[o].status # "PENDING"
=============================================================================
