------------------------------- MODULE Outbox -------------------------------
(***************************************************************************)
(* The relay of the ride service: the workers of all replicas claim rows of *)
(* the outbox table in batches, publish each row's event to JetStream and   *)
(* write the outcome back.  Claiming and marking are transactions of their  *)
(* own, so a worker that dies, or whose mark fails, leaves a row PROCESSING.*)
(* An operator's outbox-replay and a cleanup of sent rows run beside them.  *)
(***************************************************************************)
EXTENDS Naturals, Sequences, FiniteSets

Ext == INSTANCE SequencesExt

CONSTANTS
  Msgs,          \* rows of the table, one event each
  RideOf,        \* the ride (or offer) a row's event is about
  Workers,       \* outbox workers, one per replica
  BatchSize,     \* rows claimed at once
  MaxAttempts,   \* claims of a row before it is dead-lettered
  MaxBroker,     \* bound: publish calls that fail or hang
  MaxFaults,     \* bound: crashes, and writes to the table that fail
  MaxFailures,   \* bound: failures of both kinds
  MaxReplays     \* bound: runs of outbox-replay

ASSUME OutboxAssumption ==
  /\ BatchSize \in Nat \ {0} /\ MaxAttempts \in Nat \ {0}
  /\ {MaxBroker, MaxFaults, MaxFailures, MaxReplays} \subseteq Nat
  /\ DOMAIN RideOf = Msgs

VARIABLES
  row,      \* status and attempt_count of each row (ABSENT before, DELETED after)
  order,    \* the rows in the order of created_at
  waiting,  \* rows whose available_at lies in the future (backoff)
  locked,   \* per worker, the rows its open claim has selected FOR UPDATE
  todo,     \* per worker, what is left of its batch: the rows with their Attempt
  hand,     \* per worker, the row of the batch that it is marking (none or one)
  phase,    \* per worker: what it does next
  stream,   \* the events JetStream has stored, in order
  budget    \* broker failures, faults and replays so far (bounds)

vars == <<row, order, waiting, locked, todo, hand, phase, stream, budget>>

Statuses == {"ABSENT", "DELETED", "PENDING", "PROCESSING", "SENT", "FAILED"}
Phases == {"idle", "selected", "publish", "hung", "mark_sent", "mark_failed"}
Absent == [status |-> "ABSENT", attempts |-> 0]

Init ==
  /\ row = [m \in Msgs |-> Absent]
  /\ order = <<>>
  /\ waiting = {}
  /\ locked = [w \in Workers |-> {}]
  /\ todo = [w \in Workers |-> {}]
  /\ hand = [w \in Workers |-> {}]
  /\ phase = [w \in Workers |-> "idle"]
  /\ stream = <<>>
  /\ budget = [broker |-> 0, faults |-> 0, replays |-> 0]

In(m, s) == \E i \in 1..Len(s) : s[i] = m
Before(m, n) == \E i, j \in 1..Len(order) : i < j /\ order[i] = m /\ order[j] = n
MayFail(kind, max) == budget[kind] < max /\ budget.broker + budget.faults < MaxFailures
Spend(kind) == budget' = [budget EXCEPT ![kind] = @ + 1]

\* A transaction of the ride service commits an event.  created_at is read before the
\* commit, so the row may be older than rows that are there already; not than those
\* of its own ride, whose transactions the lock of the ride's row puts in order.
Enqueue(m) ==
  /\ row[m].status = "ABSENT"
  /\ row' = [row EXCEPT ![m].status = "PENDING"]
  /\ \E p \in 1..(Len(order) + 1) :
       /\ \A i \in p..Len(order) : RideOf[order[i]] # RideOf[m]
       /\ order' = Ext!InsertAt(order, p, m)
  /\ UNCHANGED <<waiting, locked, todo, hand, phase, stream, budget>>

\* Mutant: no FOR UPDATE SKIP LOCKED.
ClaimableShared(m) ==
  /\ row[m].status = "PENDING"
  /\ row[m].attempts < MaxAttempts
  /\ m \notin waiting

\* Mutant: <= in place of <.
ClaimableOnceMore(m) ==
  /\ row[m].status = "PENDING"
  /\ row[m].attempts <= MaxAttempts
  /\ m \notin waiting
  /\ \A w \in Workers : m \notin locked[w]

\* The WHERE of Claim, and SKIP LOCKED.
Claimable(m) ==
  /\ row[m].status = "PENDING"
  /\ row[m].attempts < MaxAttempts
  /\ m \notin waiting
  /\ \A w \in Workers : m \notin locked[w]

\* Mutant: ORDER BY created_at DESC.
BatchNewestFirst ==
  {m \in Msgs : Claimable(m) /\ Cardinality({n \in Msgs : Claimable(n) /\ Before(m, n)}) < BatchSize}

\* The first BatchSize claimable rows by created_at.
Batch ==
  {m \in Msgs : Claimable(m) /\ Cardinality({n \in Msgs : Claimable(n) /\ Before(n, m)}) < BatchSize}

\* Claim, the SELECT ... FOR UPDATE SKIP LOCKED.  (A batch of none changes nothing.)
Select(w) ==
  /\ phase[w] = "idle"
  /\ Batch # {}
  /\ locked' = [locked EXCEPT ![w] = Batch]
  /\ todo' = [todo EXCEPT ![w] = {[msg |-> m, attempt |-> row[m].attempts + 1] : m \in Batch}]
  /\ phase' = [phase EXCEPT ![w] = "selected"]
  /\ UNCHANGED <<row, order, waiting, hand, stream, budget>>

\* Claim, the UPDATE of the selected rows and the commit.
Claim(w) ==
  /\ phase[w] = "selected"
  /\ row' = [m \in Msgs |-> IF m \in locked[w]
                            THEN [status |-> "PROCESSING", attempts |-> row[m].attempts + 1]
                            ELSE row[m]]
  /\ locked' = [locked EXCEPT ![w] = {}]
  /\ phase' = [phase EXCEPT ![w] = "publish"]
  /\ UNCHANGED <<order, waiting, todo, hand, stream, budget>>

\* flush takes the rows of the batch in their order ...
Take(w, r, next) ==
  /\ phase[w] = "publish" /\ r \in todo[w]
  /\ \A x \in todo[w] : ~Before(x.msg, r.msg)
  /\ todo' = [todo EXCEPT ![w] = @ \ {r}]
  /\ hand' = [hand EXCEPT ![w] = {r}]
  /\ phase' = [phase EXCEPT ![w] = next]

\* ... and waits for the next tick when it has been through them.
Done(w) ==
  /\ hand' = [hand EXCEPT ![w] = {}]
  /\ phase' = [phase EXCEPT ![w] = IF todo[w] = {} THEN "idle" ELSE "publish"]

\* Publish returns nil: JetStream has acknowledged the event.
Publish(w, r) ==
  /\ Take(w, r, "mark_sent")
  /\ stream' = Append(stream, r.msg)
  /\ UNCHANGED <<row, order, waiting, locked, budget>>

\* Publish returns an error: no stream answers, or the request cannot be sent.
PublishFails(w, r) ==
  /\ Take(w, r, "mark_failed")
  /\ MayFail("broker", MaxBroker)
  /\ Spend("broker")
  /\ UNCHANGED <<row, order, waiting, locked, stream>>

\* The event or its acknowledgement is lost, and Publish waits: the worker's context has
\* no deadline.
PublishHangs(w, r) ==
  /\ Take(w, r, "hung")
  /\ MayFail("broker", MaxBroker)
  /\ Spend("broker")
  /\ stream' \in {stream, Append(stream, r.msg)}
  /\ UNCHANGED <<row, order, waiting, locked>>

\* The client library gives the connection up, which ends the wait with an error.  It need
\* not: the reply to a request is not waited for again after a reconnect.
ConnectionCloses(w) ==
  /\ phase[w] = "hung"
  /\ phase' = [phase EXCEPT ![w] = "mark_failed"]
  /\ UNCHANGED <<row, order, waiting, locked, todo, hand, stream, budget>>

MarkSent(w, r) ==
  /\ phase[w] = "mark_sent" /\ r \in hand[w]
  /\ row' = [row EXCEPT ![r.msg].status = "SENT"]
  /\ Done(w)
  /\ UNCHANGED <<order, waiting, locked, todo, stream, budget>>

\* Mutant: flush compares with > in place of >=.
MarkFailedTooLate(w, r) ==
  LET last == r.attempt > MaxAttempts IN
  /\ phase[w] = "mark_failed" /\ r \in hand[w]
  /\ row' = [row EXCEPT ![r.msg].status = IF last THEN "FAILED" ELSE "PENDING"]
  /\ waiting' = IF last THEN waiting ELSE waiting \cup {r.msg}
  /\ Done(w)
  /\ UNCHANGED <<order, locked, todo, stream, budget>>

\* MarkFailed: back to PENDING after a backoff, or the dead letter status.
MarkFailed(w, r) ==
  LET last == r.attempt >= MaxAttempts IN
  /\ phase[w] = "mark_failed" /\ r \in hand[w]
  /\ row' = [row EXCEPT ![r.msg].status = IF last THEN "FAILED" ELSE "PENDING"]
  /\ waiting' = IF last THEN waiting ELSE waiting \cup {r.msg}
  /\ Done(w)
  /\ UNCHANGED <<order, locked, todo, stream, budget>>

\* MarkSent or MarkFailed returns an error, which is logged or dropped.
MarkFails(w) ==
  /\ phase[w] \in {"mark_sent", "mark_failed"}
  /\ MayFail("faults", MaxFaults)
  /\ Spend("faults")
  /\ Done(w)
  /\ UNCHANGED <<row, order, waiting, locked, todo, stream>>

\* The process stops, or the claim's transaction fails: the claim is rolled back if it
\* is open, and the batch is forgotten.
Crash(w) ==
  /\ phase[w] # "idle"
  /\ MayFail("faults", MaxFaults)
  /\ Spend("faults")
  /\ locked' = [locked EXCEPT ![w] = {}]
  /\ todo' = [todo EXCEPT ![w] = {}]
  /\ hand' = [hand EXCEPT ![w] = {}]
  /\ phase' = [phase EXCEPT ![w] = "idle"]
  /\ UNCHANGED <<row, order, waiting, stream>>

\* available_at passes.
BackoffEnds(m) ==
  /\ m \in waiting
  /\ waiting' = waiting \ {m}
  /\ UNCHANGED <<row, order, locked, todo, hand, phase, stream, budget>>

\* OutboxCleanupWorker deletes a sent row.
Cleanup(m) ==
  /\ row[m].status = "SENT"
  /\ row' = [row EXCEPT ![m].status = "DELETED"]
  /\ UNCHANGED <<order, waiting, locked, todo, hand, phase, stream, budget>>

\* outbox-replay: the failed rows (up to 100) are pending again.  attempt_count stays.
ResetFailed ==
  /\ budget.replays < MaxReplays
  /\ \E m \in Msgs : row[m].status = "FAILED"
  /\ row' = [m \in Msgs |-> IF row[m].status = "FAILED"
                            THEN [row[m] EXCEPT !.status = "PENDING"] ELSE row[m]]
  /\ Spend("replays")
  /\ UNCHANGED <<order, waiting, locked, todo, hand, phase, stream>>

Step(w) ==
  \/ Select(w) \/ Claim(w)
  \/ \E r \in todo[w] : Publish(w, r) \/ PublishFails(w, r) \/ PublishHangs(w, r)
  \/ \E r \in hand[w] : MarkSent(w, r) \/ MarkFailed(w, r)
  \/ MarkFails(w)

Next ==
  \/ \E m \in Msgs : Enqueue(m) \/ BackoffEnds(m) \/ Cleanup(m)
  \/ \E w \in Workers : Step(w) \/ ConnectionCloses(w) \/ Crash(w)
  \/ ResetFailed

Spec == Init /\ [][Next]_vars

\* The workers run and backoffs end; a connection need not be given up, and nobody has
\* to run outbox-replay.
Fairness ==
  /\ \A w \in Workers : WF_vars(Step(w))
  /\ \A m \in Msgs : WF_vars(BackoffEnds(m))

FairSpec == Spec /\ Fairness

-----------------------------------------------------------------------------
Batched(w) == todo[w] \cup hand[w]
Holds(w, m) == m \in locked[w] \/ \E r \in Batched(w) : r.msg = m
Copies(m) == Cardinality({i \in 1..Len(stream) : stream[i] = m})

TypeOK ==
  /\ row \in [Msgs -> [status: Statuses, attempts: Nat]]
  /\ order \in Seq(Msgs)
  /\ waiting \in SUBSET Msgs
  /\ locked \in [Workers -> SUBSET Msgs]
  /\ todo \in [Workers -> SUBSET [msg: Msgs, attempt: Nat]]
  /\ hand \in [Workers -> SUBSET [msg: Msgs, attempt: Nat]]
  /\ phase \in [Workers -> Phases]
  /\ stream \in Seq(Msgs)
  /\ budget \in [broker: Nat, faults: Nat, replays: Nat]

\* No row is in the hands of two workers, and what a worker holds after its claim is
\* PROCESSING with the attempt the worker counts: no write of one worker is
\* overwritten by another.
HeldByOne ==
  /\ \A v, w \in Workers, m \in Msgs : Holds(v, m) /\ Holds(w, m) => v = w
  /\ \A w \in Workers : phase[w] # "selected" =>
       \A r \in Batched(w) : row[r.msg] = [status |-> "PROCESSING", attempts |-> r.attempt]

\* A row that is marked sent, or deleted after that, has reached the stream.
SentIsPublished ==
  \A m \in Msgs :
    row[m].status \in {"SENT", "DELETED"} => In(m, stream)

\* Duplicates are bounded: an event is stored at most once per claim, and never more
\* than MaxAttempts times, whatever crashes and lost acknowledgements there are.
DuplicatesBounded ==
  \A m \in Msgs : Copies(m) <= row[m].attempts /\ row[m].attempts <= MaxAttempts

\* A row is given up only after MaxAttempts claims, and until then a row that is
\* pending can be claimed (unless an operator replayed it).
GivenUpAtTheEnd ==
  \A m \in Msgs :
    /\ row[m].status = "FAILED" => row[m].attempts = MaxAttempts
    /\ row[m].status = "PENDING" /\ budget.replays = 0 => row[m].attempts < MaxAttempts

\* An event overtakes an older event of its ride only when the older one has been
\* claimed (or its claim was rolled back): another worker has it, or it waits for a retry,
\* was given up or forgotten.  It is never still to be claimed, nor later in the batch.
InOrder ==
  [][\A w \in Workers, m, n \in Msgs :
       (/\ RideOf[n] = RideOf[m] /\ Before(n, m)
        /\ phase[w] = "publish" /\ hand[w] = {} /\ \E r \in hand'[w] : r.msg = m
        /\ stream' = Append(stream, m) /\ ~In(n, stream))
         => /\ \A r \in todo[w] : r.msg # n
            /\ \/ row[n].attempts > 0 \/ \E v \in Workers \ {w} : n \in locked[v]
               \/ budget.faults > 0]_vars

Hung(w) == phase[w] = "hung"

\* Until a worker crashes, a mark fails or rows are replayed, every event is stored or
\* dead-lettered, however often publishing returns an error.  A worker that hangs holds up
\* the rest of its batch and nothing else, as long as another worker runs.
EventuallySettled ==
  \A m \in Msgs :
    row[m].status = "PENDING" ~>
      \/ In(m, stream) \/ row[m].status = "FAILED"
      \/ \E w \in Workers : Hung(w) /\ Holds(w, m)
      \/ \A w \in Workers : Hung(w)
      \/ budget.faults > 0 \/ budget.replays > 0

\* README.md:45 "at-least-once delivery": every event that was committed reaches the
\* stream, whichever worker crashes.
AtLeastOnce == \A m \in Msgs : row[m].status = "PENDING" ~> In(m, stream)
=============================================================================
