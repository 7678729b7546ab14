---------------------------- MODULE OutboxProofs ----------------------------
(***************************************************************************)
(* The safety of the outbox relay, for any number of rows and workers, any  *)
(* batch size and any number of failures.  The argument: a row that a       *)
(* worker has selected is locked until the claim commits and PROCESSING     *)
(* from then on, and no other action touches a row of either kind.  So the  *)
(* batches are disjoint, each row is published at most once per claim, and  *)
(* what a worker writes back is about the attempt it has claimed.           *)
(***************************************************************************)
EXTENDS Outbox, FiniteSetTheorems, SequenceTheorems, TLAPS

-----------------------------------------------------------------------------
(* The inductive invariant. *)

\* What a worker's phase says about its batch.
PhaseOK(w) ==
  /\ phase[w] = "idle" => todo[w] = {}
  /\ phase[w] \in {"idle", "selected", "publish"} => hand[w] = {}
  /\ phase[w] = "selected" => locked[w] = {r.msg : r \in todo[w]}
  /\ phase[w] # "selected" => locked[w] = {}

\* A batch holds a row once, and the row is what the worker has left it as.
BatchOK(w) ==
  /\ todo[w] \cap hand[w] = {}
  /\ \A r, s \in Batched(w) : r.msg = s.msg => r = s
  /\ \A r \in Batched(w) :
       /\ r.attempt <= MaxAttempts
       /\ phase[w] = "selected" =>
            row[r.msg].status = "PENDING" /\ r.attempt = row[r.msg].attempts + 1
       /\ phase[w] # "selected" =>
            row[r.msg].status = "PROCESSING" /\ r.attempt = row[r.msg].attempts

WorkersOK == \A w \in Workers : PhaseOK(w) /\ BatchOK(w)

Apart ==
  \A v, w \in Workers : \A r \in Batched(v), s \in Batched(w) : r.msg = s.msg => v = w

RowsOK ==
  /\ GivenUpAtTheEnd
  /\ \A m \in Msgs : /\ row[m].attempts <= MaxAttempts
                     /\ row[m].status = "ABSENT" => row[m].attempts = 0

\* What has been published, and what may still be.
StreamOK ==
  /\ SentIsPublished
  /\ \A w \in Workers : phase[w] = "mark_sent" => \A r \in hand[w] : In(r.msg, stream)
  /\ \A m \in Msgs : Copies(m) <= row[m].attempts
  /\ \A w \in Workers : phase[w] # "selected" =>
       \A r \in todo[w] : Copies(r.msg) < row[r.msg].attempts

IInv == TypeOK /\ WorkersOK /\ Apart /\ RowsOK /\ StreamOK

-----------------------------------------------------------------------------
(* The stream. *)

LEMMA CopiesType ==
  ASSUME TypeOK
  PROVE  \A m \in Msgs : Copies(m) \in Nat
<1> SUFFICES ASSUME NEW m \in Msgs PROVE Copies(m) \in Nat
  OBVIOUS
<1> DEFINE S == {i \in 1..Len(stream) : stream[i] = m}
<1>1. IsFiniteSet(1..Len(stream))
  BY FS_Interval DEF TypeOK
<1>2. IsFiniteSet(S)
  BY <1>1, FS_Subset, S \subseteq 1..Len(stream)
<1> QED
  BY <1>2, FS_CardinalityType DEF Copies

\* One more event: its copies grow by one, no other's do, and none is lost.
LEMMA StreamGrows ==
  ASSUME TypeOK, NEW x \in Msgs, stream' = Append(stream, x)
  PROVE  /\ \A m \in Msgs : m # x => Copies(m)' = Copies(m)
         /\ Copies(x)' = Copies(x) + 1
         /\ \A m \in Msgs : In(m, stream) => In(m, stream')
         /\ In(x, stream')
<1> DEFINE S(m) == {i \in 1..Len(stream) : stream[i] = m}
           T(m) == {i \in 1..Len(stream') : stream'[i] = m}
           n == Len(stream)
<1>1. /\ n \in Nat /\ Len(stream') = n + 1
      /\ \A i \in 1..n : stream'[i] = stream[i]
      /\ stream'[n + 1] = x
  BY DEF TypeOK
<1>2. ASSUME NEW m \in Msgs, m # x PROVE Copies(m)' = Copies(m)
  <2>1. T(m) = S(m)
    BY <1>1, <1>2
  <2> QED
    BY <2>1 DEF Copies
<1>3. Copies(x)' = Copies(x) + 1
  <2>1. T(x) = S(x) \cup {n + 1} /\ n + 1 \notin S(x)
    BY <1>1
  <2>2. IsFiniteSet(1..n)
    BY <1>1, FS_Interval
  <2>3. IsFiniteSet(S(x))
    BY <2>2, FS_Subset, S(x) \subseteq 1..n
  <2>4. Cardinality(T(x)) = Cardinality(S(x)) + 1
    <3> HIDE DEF S, T
    <3> QED BY <2>1, <2>3, FS_AddElement
  <2> QED
    BY <2>4 DEF Copies
<1>4. \A m \in Msgs : In(m, stream) => In(m, stream')
  BY <1>1 DEF In
<1>5. In(x, stream')
  BY <1>1 DEF In
<1> QED
  BY <1>2, <1>3, <1>4, <1>5

LEMMA InitStream == Init => \A m \in Msgs : Copies(m) = 0
<1> SUFFICES ASSUME Init, NEW m \in Msgs PROVE Copies(m) = 0
  OBVIOUS
<1>1. {i \in 1..Len(stream) : stream[i] = m} = {}
  BY DEF Init
<1> QED
  BY <1>1, FS_EmptySet DEF Copies

-----------------------------------------------------------------------------
LEMMA InvHoldsInitially == Init => IInv
<1> SUFFICES ASSUME Init PROVE IInv
  OBVIOUS
<1>1. TypeOK
  BY DEF Init, TypeOK, Absent, Statuses, Phases
<1>2. WorkersOK /\ Apart
  BY DEF Init, WorkersOK, PhaseOK, BatchOK, Batched, Apart
<1>3. RowsOK
  BY OutboxAssumption DEF Init, RowsOK, GivenUpAtTheEnd, Absent
<1>4. StreamOK
  BY InitStream DEF Init, StreamOK, SentIsPublished, Absent
<1> QED
  BY <1>1, <1>2, <1>3, <1>4 DEF IInv

-----------------------------------------------------------------------------
(* Types. *)

LEMMA InsertType ==
  ASSUME NEW s \in Seq(Msgs), NEW p \in 1..(Len(s) + 1), NEW m \in Msgs
  PROVE  Ext!InsertAt(s, p, m) \in Seq(Msgs)
<1>1. SubSeq(s, 1, p - 1) \in Seq(Msgs) /\ SubSeq(s, p, Len(s)) \in Seq(Msgs)
  BY SubSeqProperties
<1> QED
  BY <1>1 DEF Ext!InsertAt

LEMMA SpendType ==
  ASSUME TypeOK, NEW kind \in {"broker", "faults", "replays"}, Spend(kind)
  PROVE  /\ budget' \in [broker: Nat, faults: Nat, replays: Nat]
         /\ kind # "replays" => budget'.replays = budget.replays
         /\ kind = "replays" => budget'.replays = budget.replays + 1
<1>1. /\ budget = [broker |-> budget.broker, faults |-> budget.faults, replays |-> budget.replays]
      /\ budget.broker \in Nat /\ budget.faults \in Nat /\ budget.replays \in Nat
  BY DEF TypeOK
<1>2. CASE kind = "broker"
  <2>1. budget' = [budget EXCEPT !.broker = budget.broker + 1]
    BY <1>2 DEF Spend
  <2> QED
    BY <1>1, <1>2, <2>1
<1>3. CASE kind = "faults"
  <2>1. budget' = [budget EXCEPT !.faults = budget.faults + 1]
    BY <1>3 DEF Spend
  <2> QED
    BY <1>1, <1>3, <2>1
<1>4. CASE kind = "replays"
  <2>1. budget' = [budget EXCEPT !.replays = budget.replays + 1]
    BY <1>4 DEF Spend
  <2> QED
    BY <1>1, <1>4, <2>1
<1> QED
  BY <1>2, <1>3, <1>4

\* The tail of flush, on w's own part of the state.
LEMMA DoneType ==
  ASSUME TypeOK, NEW w \in Workers, Done(w)
  PROVE  /\ hand' \in [Workers -> SUBSET [msg: Msgs, attempt: Nat]]
         /\ phase' \in [Workers -> Phases]
<1>1. {} \in SUBSET [msg: Msgs, attempt: Nat] /\ {"idle", "publish"} \subseteq Phases
  BY DEF Phases
<1>2. (IF todo[w] = {} THEN "idle" ELSE "publish") \in Phases
  BY <1>1
<1> QED
  BY <1>1, <1>2 DEF Done, TypeOK

LEMMA TakeType ==
  ASSUME TypeOK, NEW w \in Workers, NEW r \in todo[w], NEW next \in Phases, Take(w, r, next)
  PROVE  /\ todo' \in [Workers -> SUBSET [msg: Msgs, attempt: Nat]]
         /\ hand' \in [Workers -> SUBSET [msg: Msgs, attempt: Nat]]
         /\ phase' \in [Workers -> Phases]
         /\ r \in [msg: Msgs, attempt: Nat]
<1>1. /\ todo[w] \ {r} \in SUBSET [msg: Msgs, attempt: Nat]
      /\ {r} \in SUBSET [msg: Msgs, attempt: Nat]
  BY DEF TypeOK
<1> QED
  BY <1>1 DEF Take, TypeOK

LEMMA TypeIsKept == TypeOK /\ [Next]_vars => TypeOK'
<1> SUFFICES ASSUME TypeOK, [Next]_vars PROVE TypeOK'
  OBVIOUS
<1>0. \A w \in Workers : /\ \A r \in todo[w] : r.msg \in Msgs
                         /\ \A r \in hand[w] : r.msg \in Msgs
  BY DEF TypeOK
<1>1. ASSUME NEW m \in Msgs, Enqueue(m) PROVE TypeOK'
  <2>1. order' \in Seq(Msgs)
    BY <1>1, InsertType DEF Enqueue, TypeOK
  <2>2. row' \in [Msgs -> [status: Statuses, attempts: Nat]]
    BY <1>1 DEF Enqueue, TypeOK, Statuses
  <2> QED
    BY <1>1, <2>1, <2>2 DEF Enqueue, TypeOK
<1>2. ASSUME NEW m \in Msgs, BackoffEnds(m) PROVE TypeOK'
  BY <1>2 DEF BackoffEnds, TypeOK
<1>3. ASSUME NEW m \in Msgs, Cleanup(m) PROVE TypeOK'
  BY <1>3 DEF Cleanup, TypeOK, Statuses
<1>4. ASSUME NEW w \in Workers, Select(w) PROVE TypeOK'
  <2>1. Batch \in SUBSET Msgs
    BY DEF Batch
  <2>2. {[msg |-> m, attempt |-> row[m].attempts + 1] : m \in Batch}
           \in SUBSET [msg: Msgs, attempt: Nat]
    BY <2>1 DEF TypeOK
  <2> HIDE DEF Batch
  <2>3. /\ todo' \in [Workers -> SUBSET [msg: Msgs, attempt: Nat]]
        /\ locked' \in [Workers -> SUBSET Msgs]
    BY <1>4, <2>1, <2>2 DEF Select, TypeOK
  <2> QED
    BY <1>4, <2>3 DEF Select, TypeOK, Phases
<1>5. ASSUME NEW w \in Workers, Claim(w) PROVE TypeOK'
  BY <1>5 DEF Claim, TypeOK, Statuses, Phases
<1>6. ASSUME NEW w \in Workers, NEW r \in todo[w], Publish(w, r) PROVE TypeOK'
  <2>1. "mark_sent" \in Phases /\ Take(w, r, "mark_sent")
    BY <1>6 DEF Publish, Phases
  <2> QED
    BY <1>0, <1>6, <2>1, TakeType DEF Publish, TypeOK
<1>7. ASSUME NEW w \in Workers, NEW r \in todo[w], PublishFails(w, r) PROVE TypeOK'
  <2>1. "mark_failed" \in Phases /\ Take(w, r, "mark_failed")
    BY <1>7 DEF PublishFails, Phases
  <2>2. budget' \in [broker: Nat, faults: Nat, replays: Nat]
    BY <1>7, SpendType DEF PublishFails
  <2> QED
    BY <1>7, <2>1, <2>2, TakeType DEF PublishFails, TypeOK
<1>8. ASSUME NEW w \in Workers, NEW r \in hand[w], MarkSent(w, r) PROVE TypeOK'
  <2>1. row' \in [Msgs -> [status: Statuses, attempts: Nat]]
    BY <1>0, <1>8 DEF MarkSent, TypeOK, Statuses
  <2> QED
    BY <1>8, <2>1, DoneType DEF MarkSent, TypeOK
<1>9. ASSUME NEW w \in Workers, NEW r \in hand[w], MarkFailed(w, r) PROVE TypeOK'
  <2>1. row' \in [Msgs -> [status: Statuses, attempts: Nat]]
    BY <1>0, <1>9 DEF MarkFailed, TypeOK, Statuses
  <2>2. waiting' \in SUBSET Msgs
    BY <1>0, <1>9 DEF MarkFailed, TypeOK
  <2> QED
    BY <1>9, <2>1, <2>2, DoneType DEF MarkFailed, TypeOK
<1>10. ASSUME NEW w \in Workers, MarkFails(w) PROVE TypeOK'
  <2>1. budget' \in [broker: Nat, faults: Nat, replays: Nat]
    BY <1>10, SpendType DEF MarkFails
  <2> QED
    BY <1>10, <2>1, DoneType DEF MarkFails, TypeOK
<1>11. ASSUME NEW w \in Workers, Crash(w) PROVE TypeOK'
  <2>1. budget' \in [broker: Nat, faults: Nat, replays: Nat]
    BY <1>11, SpendType DEF Crash
  <2>2. /\ locked' \in [Workers -> SUBSET Msgs]
        /\ todo' \in [Workers -> SUBSET [msg: Msgs, attempt: Nat]]
        /\ hand' \in [Workers -> SUBSET [msg: Msgs, attempt: Nat]]
        /\ phase' \in [Workers -> Phases]
    BY <1>11 DEF Crash, TypeOK, Phases
  <2> QED
    BY <1>11, <2>1, <2>2 DEF Crash, TypeOK
<1>12. CASE ResetFailed
  <2>1. budget' \in [broker: Nat, faults: Nat, replays: Nat]
    BY <1>12, SpendType DEF ResetFailed
  <2>2. row' \in [Msgs -> [status: Statuses, attempts: Nat]]
    BY <1>12 DEF ResetFailed, TypeOK, Statuses
  <2> QED
    BY <1>12, <2>1, <2>2 DEF ResetFailed, TypeOK
<1>13. CASE UNCHANGED vars
  BY <1>13 DEF vars, TypeOK
<1>14. ASSUME NEW w \in Workers, NEW r \in todo[w], PublishHangs(w, r) PROVE TypeOK'
  <2>1. "hung" \in Phases /\ Take(w, r, "hung")
    BY <1>14 DEF PublishHangs, Phases
  <2>2. budget' \in [broker: Nat, faults: Nat, replays: Nat]
    BY <1>14, SpendType DEF PublishHangs
  <2>3. stream' \in Seq(Msgs)
    <3>1. Append(stream, r.msg) \in Seq(Msgs) /\ stream \in Seq(Msgs)
      BY <1>0 DEF TypeOK
    <3> QED
      BY <1>14, <3>1 DEF PublishHangs
  <2> QED
    BY <1>14, <2>1, <2>2, <2>3, TakeType DEF PublishHangs, TypeOK
<1>15. ASSUME NEW w \in Workers, ConnectionCloses(w) PROVE TypeOK'
  BY <1>15 DEF ConnectionCloses, TypeOK, Phases
<1> QED
  BY <1>1, <1>2, <1>3, <1>4, <1>5, <1>6, <1>7, <1>8, <1>9, <1>10, <1>11, <1>12, <1>13,
     <1>14, <1>15
  DEF Next, Step

-----------------------------------------------------------------------------
(* The workers' part of the invariant, for the three ways a step disturbs it. *)

\* The rows of a batch are PENDING or PROCESSING.
LEMMA HeldRows ==
  ASSUME TypeOK, WorkersOK, NEW w \in Workers, NEW r \in Batched(w)
  PROVE  r.msg \in Msgs /\ r.attempt \in Nat /\ row[r.msg].status \in {"PENDING", "PROCESSING"}
<1>1. r \in [msg: Msgs, attempt: Nat]
  BY DEF TypeOK, Batched
<1> QED
  BY <1>1 DEF WorkersOK, BatchOK

\* A step of no worker, on rows that no worker can hold.
LEMMA OthersKeepWorkers ==
  ASSUME TypeOK, WorkersOK, Apart, UNCHANGED <<locked, todo, hand, phase>>,
         \A m \in Msgs : row[m].status \in {"PENDING", "PROCESSING"} => row'[m] = row[m]
  PROVE  WorkersOK' /\ Apart'
<1>1. \A w \in Workers : Batched(w)' = Batched(w)
  BY DEF Batched
<1>2. ASSUME NEW w \in Workers PROVE PhaseOK(w)'
  BY DEF WorkersOK, PhaseOK
<1>3. ASSUME NEW w \in Workers PROVE BatchOK(w)'
  <2>1. \A r \in Batched(w) : row'[r.msg] = row[r.msg]
    BY HeldRows
  <2> QED
    BY <1>1, <2>1 DEF WorkersOK, BatchOK
<1> QED
  BY <1>1, <1>2, <1>3 DEF WorkersOK, Apart

\* A worker takes a row of its batch.
LEMMA TakeKeepsWorkers ==
  ASSUME TypeOK, WorkersOK, Apart, NEW w \in Workers, NEW r \in todo[w],
         NEW next \in {"hung", "mark_sent", "mark_failed"}, Take(w, r, next),
         UNCHANGED <<row, locked>>
  PROVE  WorkersOK' /\ Apart'
<1>1. /\ phase[w] = "publish" /\ hand[w] = {}
      /\ todo'[w] = todo[w] \ {r} /\ hand'[w] = {r} /\ phase'[w] = next
      /\ \A v \in Workers \ {w} :
           todo'[v] = todo[v] /\ hand'[v] = hand[v] /\ phase'[v] = phase[v]
  BY DEF Take, TypeOK, WorkersOK, PhaseOK
<1>2. \A v \in Workers : Batched(v)' = Batched(v)
  BY <1>1 DEF Batched
<1>3. ASSUME NEW v \in Workers PROVE PhaseOK(v)'
  BY <1>1 DEF WorkersOK, PhaseOK
<1>4. ASSUME NEW v \in Workers PROVE BatchOK(v)'
  BY <1>1, <1>2 DEF WorkersOK, BatchOK
<1> QED
  BY <1>2, <1>3, <1>4 DEF WorkersOK, Apart

\* A worker is through with the row in its hand, which alone it may have written.
LEMMA DoneKeepsWorkers ==
  ASSUME TypeOK, WorkersOK, Apart, NEW w \in Workers,
         phase[w] \in {"mark_sent", "mark_failed"}, Done(w), UNCHANGED <<locked, todo>>,
         \A m \in Msgs : (\A r \in hand[w] : r.msg # m) => row'[m] = row[m]
  PROVE  WorkersOK' /\ Apart'
<1>1. /\ hand'[w] = {} /\ phase'[w] = IF todo[w] = {} THEN "idle" ELSE "publish"
      /\ \A v \in Workers \ {w} : hand'[v] = hand[v] /\ phase'[v] = phase[v]
  BY DEF Done, TypeOK
<1>2. \A v \in Workers : Batched(v)' \subseteq Batched(v)
  BY <1>1 DEF Batched
<1>3. ASSUME NEW v \in Workers PROVE PhaseOK(v)'
  BY <1>1 DEF WorkersOK, PhaseOK
<1>4. ASSUME NEW v \in Workers, NEW s \in Batched(v)' PROVE row'[s.msg] = row[s.msg]
  <2>1. s \in Batched(v) /\ s.msg \in Msgs
    BY <1>2, <1>4, HeldRows
  <2>2. ASSUME NEW r \in hand[w], r.msg = s.msg PROVE FALSE
    <3>1. r \in Batched(w)
      BY DEF Batched
    <3>2. v = w
      BY <2>1, <2>2, <3>1 DEF Apart
    <3>3. r = s
      BY <2>1, <2>2, <3>1, <3>2 DEF WorkersOK, BatchOK
    <3>4. s \in todo[w]
      BY <1>1, <1>4, <3>2 DEF Batched
    <3> QED
      BY <3>3, <3>4 DEF WorkersOK, BatchOK
  <2> QED
    BY <2>1, <2>2
<1>5. ASSUME NEW v \in Workers PROVE BatchOK(v)'
  <2>1. \A r \in Batched(v)' : r \in Batched(v)
    BY <1>2
  <2>2. \A r, s \in Batched(v)' : r.msg = s.msg => r = s
    BY <2>1 DEF WorkersOK, BatchOK
  <2>3. todo'[v] \cap hand'[v] = {}
    BY <1>1 DEF WorkersOK, BatchOK
  <2>4. phase'[v] = "selected" <=> phase[v] = "selected"
    BY <1>1
  <2> QED
    BY <1>4, <2>1, <2>2, <2>3, <2>4 DEF WorkersOK, BatchOK
<1>6. Apart'
  BY <1>2 DEF Apart
<1> QED
  BY <1>3, <1>5, <1>6 DEF WorkersOK

-----------------------------------------------------------------------------
(* The claim. *)

\* Selecting: what is locked or PROCESSING is not claimable.
LEMMA SelectKeepsWorkers ==
  ASSUME TypeOK, WorkersOK, Apart, NEW w \in Workers, Select(w)
  PROVE  WorkersOK' /\ Apart'
<1> DEFINE New == {[msg |-> m, attempt |-> row[m].attempts + 1] : m \in Batch}
<1>1. \A m \in Batch : m \in Msgs /\ Claimable(m)
  BY DEF Batch
<1> HIDE DEF Batch
<1>2. /\ phase[w] = "idle" /\ todo[w] = {} /\ hand[w] = {}
      /\ todo'[w] = New /\ hand' = hand /\ phase'[w] = "selected" /\ locked'[w] = Batch
      /\ row' = row
      /\ \A v \in Workers \ {w} :
           todo'[v] = todo[v] /\ phase'[v] = phase[v] /\ locked'[v] = locked[v]
  BY DEF Select, TypeOK, WorkersOK, PhaseOK
<1>3. \A r \in New : /\ r.msg \in Batch /\ row[r.msg].attempts \in Nat
                     /\ r.attempt = row[r.msg].attempts + 1
                     /\ r = [msg |-> r.msg, attempt |-> row[r.msg].attempts + 1]
  BY <1>1 DEF TypeOK
<1>4. Batch = {r.msg : r \in New}
  <2>1. \A m \in Batch : [msg |-> m, attempt |-> row[m].attempts + 1] \in New
    OBVIOUS
  <2> QED
    BY <1>3, <2>1
<1> HIDE DEF New
<1>5. Batched(w)' = New /\ \A v \in Workers \ {w} : Batched(v)' = Batched(v)
  BY <1>2 DEF Batched
<1>6. ASSUME NEW v \in Workers PROVE PhaseOK(v)'
  BY <1>2, <1>4 DEF WorkersOK, PhaseOK
<1>7. BatchOK(w)'
  <2>1. \A r, s \in New : r.msg = s.msg => r = s
    BY <1>3
  <2>2. \A r \in New : r.attempt <= MaxAttempts /\ row[r.msg].status = "PENDING"
    BY <1>1, <1>3, OutboxAssumption DEF Claimable
  <2> QED
    BY <1>2, <1>3, <1>5, <2>1, <2>2 DEF BatchOK
<1>8. \A v \in Workers \ {w} : BatchOK(v)'
  BY <1>2, <1>5 DEF WorkersOK, BatchOK
<1>9. \A v \in Workers \ {w}, s \in Msgs :
        (\E r \in Batched(v) : r.msg = s) => s \notin Batch
  <2> SUFFICES ASSUME NEW v \in Workers \ {w}, NEW r \in Batched(v), r.msg \in Batch
               PROVE  FALSE
    OBVIOUS
  <2>1. row[r.msg].status = "PENDING" /\ r.msg \notin locked[v]
    BY <1>1 DEF Claimable
  <2>2. phase[v] = "selected"
    BY <2>1 DEF WorkersOK, BatchOK
  <2>3. r \in todo[v]
    BY <2>2 DEF WorkersOK, PhaseOK, Batched
  <2> QED
    BY <2>1, <2>2, <2>3 DEF WorkersOK, PhaseOK
<1>10. Apart'
  <2> SUFFICES ASSUME NEW u \in Workers, NEW v \in Workers,
                      NEW r \in Batched(u)', NEW s \in Batched(v)', r.msg = s.msg, u # v
               PROVE  FALSE
    BY DEF Apart
  <2>1. CASE u = w
    BY <1>1, <1>3, <1>5, <1>9, <2>1
  <2>2. CASE v = w
    BY <1>1, <1>3, <1>5, <1>9, <2>2
  <2>3. CASE u # w /\ v # w
    BY <1>5, <2>3 DEF Apart
  <2> QED
    BY <2>1, <2>2, <2>3
<1> QED
  BY <1>6, <1>7, <1>8, <1>10 DEF WorkersOK

\* Claiming: the rows of the batch, and no others, are written.
LEMMA ClaimWrites ==
  ASSUME TypeOK, WorkersOK, NEW w \in Workers, Claim(w)
  PROVE  /\ \A r \in todo[w] :
              row'[r.msg].status = "PROCESSING" /\ row'[r.msg].attempts = r.attempt
         /\ \A m \in Msgs : m \notin locked[w] => row'[m] = row[m]
         /\ \A m \in locked[w] : \E r \in todo[w] : r.msg = m
<1>1. phase[w] = "selected" /\ locked[w] = {r.msg : r \in todo[w]}
  BY DEF Claim, WorkersOK, PhaseOK
<1>2. \A r \in todo[w] : r \in Batched(w) /\ r.msg \in locked[w] /\ r.msg \in Msgs
  BY <1>1 DEF TypeOK, Batched
<1>3. \A r \in todo[w] : r.attempt = row[r.msg].attempts + 1
  BY <1>1, <1>2 DEF WorkersOK, BatchOK
<1> QED
  BY <1>1, <1>2, <1>3 DEF Claim

LEMMA ClaimKeepsWorkers ==
  ASSUME TypeOK, WorkersOK, Apart, NEW w \in Workers, Claim(w)
  PROVE  WorkersOK' /\ Apart'
<1>1. /\ phase[w] = "selected" /\ hand[w] = {}
      /\ todo' = todo /\ hand' = hand /\ phase'[w] = "publish" /\ locked'[w] = {}
      /\ \A v \in Workers \ {w} : phase'[v] = phase[v] /\ locked'[v] = locked[v]
  BY DEF Claim, TypeOK, WorkersOK, PhaseOK
<1>2. \A v \in Workers : Batched(v)' = Batched(v)
  BY <1>1 DEF Batched
<1>3. ASSUME NEW v \in Workers PROVE PhaseOK(v)'
  BY <1>1 DEF WorkersOK, PhaseOK
<1>4. BatchOK(w)'
  <2>1. Batched(w) = todo[w]
    BY <1>1 DEF Batched
  <2>2. BatchOK(w)
    BY DEF WorkersOK
  <2>3. \A r \in Batched(w)' : /\ r.attempt <= MaxAttempts
                               /\ row'[r.msg].status = "PROCESSING"
                               /\ r.attempt = row'[r.msg].attempts
    <3>1. \A r \in todo[w] :
            row'[r.msg].status = "PROCESSING" /\ row'[r.msg].attempts = r.attempt
      BY ClaimWrites
    <3>2. \A r \in todo[w] : r.attempt <= MaxAttempts
      BY <2>1, <2>2 DEF BatchOK
    <3> QED
      BY <1>2, <2>1, <3>1, <3>2
  <2>4. phase'[w] # "selected"
    BY <1>1
  <2>5. /\ todo'[w] \cap hand'[w] = {}
        /\ \A r, s \in Batched(w)' : r.msg = s.msg => r = s
    BY <1>1, <1>2, <2>2 DEF BatchOK
  <2> QED
    BY <2>3, <2>4, <2>5 DEF BatchOK
<1>5. ASSUME NEW v \in Workers \ {w} PROVE BatchOK(v)'
  <2>1. ASSUME NEW s \in Batched(v) PROVE row'[s.msg] = row[s.msg]
    <3>1. \A r \in todo[w] : r.msg # s.msg
      BY DEF Apart, Batched
    <3> QED
      BY <3>1, HeldRows, ClaimWrites
  <2> QED
    BY <1>1, <1>2, <2>1 DEF WorkersOK, BatchOK
<1> QED
  BY <1>2, <1>3, <1>4, <1>5 DEF WorkersOK, Apart

LEMMA CrashKeepsWorkers ==
  ASSUME TypeOK, WorkersOK, Apart, NEW w \in Workers, Crash(w)
  PROVE  WorkersOK' /\ Apart'
<1>1. /\ todo'[w] = {} /\ hand'[w] = {} /\ phase'[w] = "idle" /\ locked'[w] = {} /\ row' = row
      /\ \A v \in Workers \ {w} : /\ todo'[v] = todo[v] /\ hand'[v] = hand[v]
                                  /\ phase'[v] = phase[v] /\ locked'[v] = locked[v]
  BY DEF Crash, TypeOK
<1>2. Batched(w)' = {} /\ \A v \in Workers \ {w} : Batched(v)' = Batched(v)
  BY <1>1 DEF Batched
<1>3. ASSUME NEW v \in Workers PROVE PhaseOK(v)' /\ BatchOK(v)'
  BY <1>1, <1>2 DEF WorkersOK, PhaseOK, BatchOK
<1> QED
  BY <1>2, <1>3 DEF WorkersOK, Apart

\* The wait of a worker that hangs ends.
LEMMA ClosingKeepsWorkers ==
  ASSUME TypeOK, WorkersOK, Apart, NEW w \in Workers, ConnectionCloses(w)
  PROVE  WorkersOK' /\ Apart'
<1>1. /\ phase[w] = "hung" /\ phase'[w] = "mark_failed"
      /\ \A v \in Workers \ {w} : phase'[v] = phase[v]
      /\ UNCHANGED <<row, locked, todo, hand>>
  BY DEF ConnectionCloses, TypeOK
<1>2. \A v \in Workers : Batched(v)' = Batched(v)
  BY <1>1 DEF Batched
<1>3. ASSUME NEW v \in Workers PROVE PhaseOK(v)' /\ BatchOK(v)'
  BY <1>1, <1>2 DEF WorkersOK, PhaseOK, BatchOK
<1> QED
  BY <1>2, <1>3 DEF WorkersOK, Apart

LEMMA WorkersAreKept == TypeOK /\ WorkersOK /\ Apart /\ [Next]_vars => WorkersOK' /\ Apart'
<1> SUFFICES ASSUME TypeOK, WorkersOK, Apart, [Next]_vars PROVE WorkersOK' /\ Apart'
  OBVIOUS
<1>1. ASSUME NEW m \in Msgs, Enqueue(m) PROVE WorkersOK' /\ Apart'
  <2>1. \A n \in Msgs : row[n].status \in {"PENDING", "PROCESSING"} => row'[n] = row[n]
    BY <1>1 DEF Enqueue, TypeOK
  <2> QED
    BY <1>1, <2>1, OthersKeepWorkers DEF Enqueue
<1>2. ASSUME NEW m \in Msgs, BackoffEnds(m) PROVE WorkersOK' /\ Apart'
  BY <1>2, OthersKeepWorkers DEF BackoffEnds
<1>3. ASSUME NEW m \in Msgs, Cleanup(m) PROVE WorkersOK' /\ Apart'
  <2>1. \A n \in Msgs : row[n].status \in {"PENDING", "PROCESSING"} => row'[n] = row[n]
    BY <1>3 DEF Cleanup, TypeOK
  <2> QED
    BY <1>3, <2>1, OthersKeepWorkers DEF Cleanup
<1>4. ASSUME NEW w \in Workers, NEW r \in todo[w], Publish(w, r) PROVE WorkersOK' /\ Apart'
  BY <1>4, TakeKeepsWorkers DEF Publish
<1>5. ASSUME NEW w \in Workers, NEW r \in todo[w], PublishFails(w, r) PROVE WorkersOK' /\ Apart'
  BY <1>5, TakeKeepsWorkers DEF PublishFails
<1>11. ASSUME NEW w \in Workers, NEW r \in todo[w], PublishHangs(w, r) PROVE WorkersOK' /\ Apart'
  BY <1>11, TakeKeepsWorkers DEF PublishHangs
<1>6. ASSUME NEW w \in Workers, NEW r \in hand[w], MarkSent(w, r) PROVE WorkersOK' /\ Apart'
  <2>1. \A m \in Msgs : (\A x \in hand[w] : x.msg # m) => row'[m] = row[m]
    BY <1>6 DEF MarkSent, TypeOK
  <2> QED
    BY <1>6, <2>1, DoneKeepsWorkers DEF MarkSent
<1>7. ASSUME NEW w \in Workers, NEW r \in hand[w], MarkFailed(w, r) PROVE WorkersOK' /\ Apart'
  <2>1. \A m \in Msgs : (\A x \in hand[w] : x.msg # m) => row'[m] = row[m]
    BY <1>7 DEF MarkFailed, TypeOK
  <2> QED
    BY <1>7, <2>1, DoneKeepsWorkers DEF MarkFailed
<1>8. ASSUME NEW w \in Workers, MarkFails(w) PROVE WorkersOK' /\ Apart'
  BY <1>8, DoneKeepsWorkers DEF MarkFails
<1>9. CASE ResetFailed
  <2>1. \A n \in Msgs : row[n].status \in {"PENDING", "PROCESSING"} => row'[n] = row[n]
    BY <1>9 DEF ResetFailed, TypeOK
  <2> QED
    BY <1>9, <2>1, OthersKeepWorkers DEF ResetFailed
<1>10. CASE UNCHANGED vars
  BY <1>10, OthersKeepWorkers DEF vars
<1> QED
  BY <1>1, <1>2, <1>3, <1>4, <1>5, <1>6, <1>7, <1>8, <1>9, <1>10, <1>11,
     SelectKeepsWorkers, ClaimKeepsWorkers, ClosingKeepsWorkers, CrashKeepsWorkers
  DEF Next, Step

-----------------------------------------------------------------------------
(* The rows. *)

\* What a worker knows of the row it is marking.
LEMMA RowInHand ==
  ASSUME TypeOK, WorkersOK, NEW w \in Workers, NEW r \in hand[w],
         phase[w] \in {"mark_sent", "mark_failed"}
  PROVE  /\ r.msg \in Msgs /\ r.attempt \in Nat /\ r.attempt <= MaxAttempts
         /\ row[r.msg] = [status |-> "PROCESSING", attempts |-> r.attempt]
<1>1. r \in Batched(w) /\ r \in [msg: Msgs, attempt: Nat]
  BY DEF Batched, TypeOK
<1>2. row[r.msg] \in [status: Statuses, attempts: Nat]
  BY <1>1 DEF TypeOK
<1>3. row[r.msg].status = "PROCESSING" /\ r.attempt = row[r.msg].attempts
  BY <1>1 DEF WorkersOK, BatchOK
<1> QED
  BY <1>1, <1>2, <1>3 DEF WorkersOK, BatchOK

LEMMA RowsAreKept == TypeOK /\ WorkersOK /\ RowsOK /\ [Next]_vars => RowsOK'
<1> SUFFICES ASSUME TypeOK, WorkersOK, RowsOK, [Next]_vars PROVE RowsOK'
  OBVIOUS
<1>0. /\ \A m \in Msgs : row[m].attempts \in Nat
      /\ MaxAttempts \in Nat \ {0} /\ budget.replays \in Nat
  BY OutboxAssumption DEF TypeOK
<1> USE DEF RowsOK, GivenUpAtTheEnd
<1>1. ASSUME row' = row, budget'.replays = budget.replays PROVE RowsOK'
  BY <1>1
<1>2. ASSUME NEW m \in Msgs, Enqueue(m) PROVE RowsOK'
  <2>0. row[m].status = "ABSENT" /\ row[m].attempts = 0
    BY <1>2 DEF Enqueue
  <2>1. /\ row'[m].attempts = 0 /\ row'[m].status = "PENDING"
        /\ \A n \in Msgs \ {m} : row'[n] = row[n]
        /\ budget' = budget
    BY <1>2, <2>0 DEF Enqueue, TypeOK
  <2> QED
    BY <1>0, <2>1
<1>3. ASSUME NEW m \in Msgs, Cleanup(m) PROVE RowsOK'
  BY <1>3 DEF Cleanup, TypeOK
<1>4. ASSUME NEW w \in Workers, Claim(w) PROVE RowsOK'
  <2>1. \A m \in Msgs : row'[m] = row[m] \/
          (row'[m].status = "PROCESSING" /\ row'[m].attempts <= MaxAttempts)
    <3>1. \A r \in todo[w] : r.attempt <= MaxAttempts
      BY DEF WorkersOK, BatchOK, Batched
    <3>2. /\ \A r \in todo[w] :
               row'[r.msg].status = "PROCESSING" /\ row'[r.msg].attempts = r.attempt
          /\ \A m \in Msgs : m \notin locked[w] => row'[m] = row[m]
          /\ \A m \in locked[w] : \E r \in todo[w] : r.msg = m
      BY <1>4, ClaimWrites
    <3> QED
      BY <3>1, <3>2
  <2>2. budget' = budget
    BY <1>4 DEF Claim
  <2> QED
    BY <1>0, <2>1, <2>2
<1>5. ASSUME NEW w \in Workers, NEW r \in hand[w], MarkSent(w, r) PROVE RowsOK'
  BY <1>5, RowInHand DEF MarkSent, TypeOK
<1>6. ASSUME NEW w \in Workers, NEW r \in hand[w], MarkFailed(w, r) PROVE RowsOK'
  <2>1. /\ r.msg \in Msgs /\ r.attempt \in Nat /\ r.attempt <= MaxAttempts
        /\ row[r.msg] = [status |-> "PROCESSING", attempts |-> r.attempt]
    BY <1>6, RowInHand DEF MarkFailed
  <2>2. /\ row'[r.msg].attempts = r.attempt
        /\ row'[r.msg].status = IF r.attempt >= MaxAttempts THEN "FAILED" ELSE "PENDING"
        /\ \A m \in Msgs \ {r.msg} : row'[m] = row[m]
    BY <1>6, <2>1 DEF MarkFailed, TypeOK
  <2>3. budget' = budget
    BY <1>6 DEF MarkFailed
  <2> QED
    BY <1>0, <2>1, <2>2, <2>3
<1>7. CASE ResetFailed
  <2>1. budget'.replays # 0
    BY <1>0, <1>7, SpendType DEF ResetFailed
  <2>2. \A m \in Msgs : /\ row'[m].attempts = row[m].attempts
                        /\ row'[m].status # "FAILED"
                        /\ row'[m].status \in {row[m].status, "PENDING"}
    BY <1>7 DEF ResetFailed, TypeOK
  <2> QED
    BY <1>0, <2>1, <2>2
<1>8. CASE UNCHANGED vars
  BY <1>1, <1>8 DEF vars
<1>9. ASSUME NEW m \in Msgs, BackoffEnds(m) PROVE RowsOK'
  BY <1>1, <1>9 DEF BackoffEnds
<1>10. ASSUME NEW w \in Workers, Select(w) PROVE RowsOK'
  BY <1>1, <1>10 DEF Select
<1>11. ASSUME NEW w \in Workers, NEW r \in todo[w], Publish(w, r) PROVE RowsOK'
  BY <1>1, <1>11 DEF Publish
<1>12. ASSUME NEW w \in Workers, NEW r \in todo[w], PublishFails(w, r) PROVE RowsOK'
  BY <1>1, <1>12, SpendType DEF PublishFails
<1>13. ASSUME NEW w \in Workers, MarkFails(w) PROVE RowsOK'
  BY <1>1, <1>13, SpendType DEF MarkFails
<1>14. ASSUME NEW w \in Workers, Crash(w) PROVE RowsOK'
  BY <1>1, <1>14, SpendType DEF Crash
<1>15. ASSUME NEW w \in Workers, NEW r \in todo[w], PublishHangs(w, r) PROVE RowsOK'
  BY <1>1, <1>15, SpendType DEF PublishHangs
<1>16. ASSUME NEW w \in Workers, ConnectionCloses(w) PROVE RowsOK'
  BY <1>1, <1>16 DEF ConnectionCloses
<1> QED
  BY <1>2, <1>3, <1>4, <1>5, <1>6, <1>7, <1>8, <1>9, <1>10, <1>11, <1>12, <1>13, <1>14,
     <1>15, <1>16
  DEF Next, Step

-----------------------------------------------------------------------------
(* What has been published. *)

\* A step that appends nothing: no row loses an attempt, SENT is written by the worker
\* that has the row in hand, and no worker has more to publish than before.
LEMMA QuietStep ==
  ASSUME TypeOK, StreamOK, stream' = stream,
         \A m \in Msgs : /\ row'[m].attempts \in Nat
                         /\ row[m].attempts <= row'[m].attempts
                         /\ row'[m].status \in {"SENT", "DELETED"} => In(m, stream),
         \A w \in Workers : phase'[w] = "mark_sent" => phase[w] = "mark_sent" /\ hand'[w] \subseteq hand[w],
         \A w \in Workers : phase'[w] # "selected" =>
            \A r \in todo'[w] : \/ row[r.msg].attempts < row'[r.msg].attempts
                                \/ phase[w] # "selected" /\ r \in todo[w],
         \A w \in Workers : \A r \in todo'[w] : r.msg \in Msgs
  PROVE  StreamOK'
<1>1. /\ \A m \in Msgs : Copies(m)' = Copies(m) /\ Copies(m) \in Nat
      /\ \A m : In(m, stream') <=> In(m, stream)
  BY CopiesType DEF Copies
<1>2. SentIsPublished'
  BY <1>1 DEF SentIsPublished
<1>3. \A w \in Workers : phase'[w] = "mark_sent" => \A r \in hand'[w] : In(r.msg, stream')
  BY <1>1 DEF StreamOK
<1>4. \A m \in Msgs : row[m].attempts \in Nat /\ Copies(m) <= row[m].attempts
  BY DEF StreamOK, TypeOK
<1>5. \A m \in Msgs : Copies(m)' <= row'[m].attempts
  BY <1>1, <1>4
<1>6. ASSUME NEW w \in Workers, phase'[w] # "selected", NEW r \in todo'[w]
      PROVE  Copies(r.msg)' < row'[r.msg].attempts
  <2>1. r.msg \in Msgs /\ Copies(r.msg)' = Copies(r.msg)
    BY <1>1, <1>6
  <2>2. CASE row[r.msg].attempts < row'[r.msg].attempts
    BY <1>1, <1>4, <2>1, <2>2
  <2>3. CASE phase[w] # "selected" /\ r \in todo[w]
    <3>1. Copies(r.msg) < row[r.msg].attempts
      BY <2>3 DEF StreamOK
    <3> QED
      BY <1>1, <1>4, <2>1, <3>1
  <2> QED
    BY <1>6, <2>2, <2>3
<1> QED
  BY <1>2, <1>3, <1>5, <1>6 DEF StreamOK

\* A step that stores the event of the row a worker takes.
LEMMA StoringStep ==
  ASSUME TypeOK, WorkersOK, Apart, StreamOK, NEW w \in Workers, NEW r \in todo[w],
         NEW next \in {"hung", "mark_sent", "mark_failed"}, Take(w, r, next), UNCHANGED row,
         stream' = Append(stream, r.msg)
  PROVE  StreamOK'
<1>1. /\ r \in Batched(w) /\ r.msg \in Msgs
      /\ phase[w] = "publish"
      /\ todo'[w] = todo[w] \ {r} /\ hand'[w] = {r} /\ phase'[w] = next
      /\ \A v \in Workers \ {w} :
           todo'[v] = todo[v] /\ hand'[v] = hand[v] /\ phase'[v] = phase[v]
  BY DEF Take, TypeOK, Batched
<1>2. /\ \A m \in Msgs : m # r.msg => Copies(m)' = Copies(m)
      /\ Copies(r.msg)' = Copies(r.msg) + 1
      /\ \A m \in Msgs : In(m, stream) => In(m, stream')
      /\ In(r.msg, stream')
  BY <1>1, StreamGrows
<1>3. \A v \in Workers : \A s \in todo'[v] : s \in todo[v] /\ s.msg \in Msgs /\ s.msg # r.msg
  <2> SUFFICES ASSUME NEW v \in Workers, NEW s \in todo'[v]
               PROVE  s \in todo[v] /\ s.msg \in Msgs /\ s.msg # r.msg
    OBVIOUS
  <2>1. s \in todo[v] /\ s \in Batched(v) /\ (v = w => s # r)
    BY <1>1 DEF Batched
  <2>2. s.msg \in Msgs
    BY <2>1, HeldRows
  <2>3. s.msg # r.msg
    BY <1>1, <2>1 DEF Apart, WorkersOK, BatchOK
  <2> QED
    BY <2>1, <2>2, <2>3
<1>4. \A m \in Msgs : /\ Copies(m) \in Nat /\ row[m].attempts \in Nat
                      /\ Copies(m) <= row[m].attempts
  BY CopiesType DEF StreamOK, TypeOK
<1>5. Copies(r.msg) < row[r.msg].attempts
  BY <1>1 DEF StreamOK
<1>6. \A m \in Msgs : Copies(m)' <= row'[m].attempts
  <2> SUFFICES ASSUME NEW m \in Msgs PROVE Copies(m)' <= row[m].attempts
    OBVIOUS
  <2>1. CASE m = r.msg
    BY <1>1, <1>2, <1>4, <1>5, <2>1
  <2>2. CASE m # r.msg
    BY <1>2, <1>4, <2>2
  <2> QED
    BY <2>1, <2>2
<1>7. \A v \in Workers : phase'[v] = "mark_sent" => \A s \in hand'[v] : In(s.msg, stream')
  <2> SUFFICES ASSUME NEW v \in Workers, phase'[v] = "mark_sent", NEW s \in hand'[v]
               PROVE  In(s.msg, stream')
    OBVIOUS
  <2>1. CASE v = w
    BY <1>1, <1>2, <2>1
  <2>2. CASE v # w
    <3>1. phase[v] = "mark_sent" /\ s \in hand[v]
      BY <1>1, <2>2
    <3>2. In(s.msg, stream) /\ s.msg \in Msgs
      BY <3>1 DEF StreamOK, TypeOK
    <3> QED
      BY <1>2, <3>2
  <2> QED
    BY <2>1, <2>2
<1>8. ASSUME NEW v \in Workers, phase'[v] # "selected", NEW s \in todo'[v]
      PROVE  Copies(s.msg)' < row'[s.msg].attempts
  <2>1. phase[v] # "selected" /\ s \in todo[v] /\ s.msg \in Msgs /\ s.msg # r.msg
    BY <1>1, <1>3, <1>8
  <2>2. Copies(s.msg)' = Copies(s.msg) /\ Copies(s.msg) < row[s.msg].attempts
    BY <1>2, <2>1 DEF StreamOK
  <2> QED
    BY <2>2
<1>9. SentIsPublished'
  BY <1>2 DEF StreamOK, SentIsPublished
<1> QED
  BY <1>6, <1>7, <1>8, <1>9 DEF StreamOK

LEMMA StreamIsKept ==
  TypeOK /\ WorkersOK /\ Apart /\ RowsOK /\ StreamOK /\ [Next]_vars => StreamOK'
<1> SUFFICES ASSUME TypeOK, WorkersOK, Apart, RowsOK, StreamOK, [Next]_vars PROVE StreamOK'
  OBVIOUS
<1>0. /\ TypeOK'
      /\ \A m \in Msgs : row[m].attempts \in Nat /\ row'[m].attempts \in Nat
      /\ \A w \in Workers : /\ \A r \in todo[w] \cup todo'[w] : r.msg \in Msgs
                            /\ \A r \in hand[w] : r.msg \in Msgs
      /\ \A m \in Msgs : row[m].status \in {"SENT", "DELETED"} => In(m, stream)
  BY TypeIsKept DEF TypeOK, StreamOK, SentIsPublished
\* A step of no worker but on the rows.
<1>1. ASSUME UNCHANGED <<stream, todo, hand, phase>>,
             \A m \in Msgs : /\ row'[m].attempts = row[m].attempts
                             /\ \/ row'[m].status \notin {"SENT", "DELETED"}
                                \/ row[m].status \in {"SENT", "DELETED"}
      PROVE  StreamOK'
  BY <1>0, <1>1, QuietStep
<1>2. ASSUME NEW m \in Msgs, Enqueue(m) PROVE StreamOK'
  <2>1. \A n \in Msgs : /\ row'[n].attempts = row[n].attempts
                        /\ row'[n].status \in {row[n].status, "PENDING"}
    BY <1>2 DEF Enqueue, TypeOK
  <2> QED
    BY <1>1, <1>2, <2>1 DEF Enqueue
<1>3. ASSUME NEW m \in Msgs, Cleanup(m) PROVE StreamOK'
  <2>1. \A n \in Msgs : /\ row'[n].attempts = row[n].attempts
                        /\ row'[n].status = row[n].status \/ row[n].status = "SENT"
    BY <1>3 DEF Cleanup, TypeOK
  <2> QED
    BY <1>1, <1>3, <2>1 DEF Cleanup
<1>4. CASE ResetFailed
  <2>1. \A n \in Msgs : /\ row'[n].attempts = row[n].attempts
                        /\ row'[n].status \in {row[n].status, "PENDING"}
    BY <1>4 DEF ResetFailed, TypeOK
  <2> QED
    BY <1>1, <1>4, <2>1 DEF ResetFailed
<1>5. ASSUME NEW m \in Msgs, BackoffEnds(m) PROVE StreamOK'
  BY <1>1, <1>5 DEF BackoffEnds
<1>6. CASE UNCHANGED vars
  BY <1>1, <1>6 DEF vars
\* The claim.
<1>7. ASSUME NEW w \in Workers, Select(w) PROVE StreamOK'
  <2>1. /\ row' = row /\ hand' = hand /\ stream' = stream /\ phase'[w] = "selected"
        /\ \A v \in Workers \ {w} : phase'[v] = phase[v] /\ todo'[v] = todo[v]
    BY <1>7 DEF Select, TypeOK
  <2> QED
    BY <1>0, <2>1, QuietStep
<1>8. ASSUME NEW w \in Workers, Claim(w) PROVE StreamOK'
  <2>1. /\ todo' = todo /\ hand' = hand /\ stream' = stream /\ phase'[w] = "publish"
        /\ \A v \in Workers \ {w} : phase'[v] = phase[v]
        /\ phase[w] = "selected"
    BY <1>8 DEF Claim, TypeOK
  <2>2. /\ \A r \in todo[w] : row[r.msg].attempts < row'[r.msg].attempts
        /\ \A m \in Msgs : /\ row[m].attempts <= row'[m].attempts
                           /\ row'[m].status \in {row[m].status, "PROCESSING"}
    <3>1. \A r \in todo[w] : /\ r.attempt = row[r.msg].attempts + 1
                             /\ row'[r.msg].attempts = r.attempt
                             /\ row'[r.msg].status = "PROCESSING"
      BY <1>8, <2>1, ClaimWrites DEF WorkersOK, BatchOK, Batched
    <3>2. \A m \in Msgs : row'[m] = row[m] \/ \E r \in todo[w] : r.msg = m
      BY <1>8, ClaimWrites
    <3> QED
      BY <1>0, <3>1, <3>2
  <2>3. \A m \in Msgs : row'[m].status \in {"SENT", "DELETED"} => In(m, stream)
    BY <1>0, <2>2
  <2> QED
    BY <1>0, <2>1, <2>2, <2>3, QuietStep
\* Publishing.
<1>9. ASSUME NEW w \in Workers, NEW r \in todo[w], Publish(w, r) PROVE StreamOK'
  BY <1>9, StoringStep DEF Publish
\* Taking a row without storing its event.
<1>16. ASSUME NEW w \in Workers, NEW r \in todo[w], NEW next \in {"hung", "mark_failed"},
              Take(w, r, next), UNCHANGED <<row, stream>>
       PROVE  StreamOK'
  <2>1. /\ phase[w] = "publish" /\ phase'[w] = next /\ todo'[w] = todo[w] \ {r}
        /\ \A v \in Workers \ {w} :
             phase'[v] = phase[v] /\ todo'[v] = todo[v] /\ hand'[v] = hand[v]
    BY <1>16 DEF Take, TypeOK
  <2> QED
    BY <1>0, <1>16, <2>1, QuietStep
<1>10. ASSUME NEW w \in Workers, NEW r \in todo[w], PublishFails(w, r) PROVE StreamOK'
  BY <1>10, <1>16 DEF PublishFails
<1>17. ASSUME NEW w \in Workers, NEW r \in todo[w], PublishHangs(w, r) PROVE StreamOK'
  <2>1. CASE stream' = Append(stream, r.msg)
    BY <1>17, <2>1, StoringStep DEF PublishHangs
  <2>2. CASE stream' = stream
    BY <1>16, <1>17, <2>2 DEF PublishHangs
  <2> QED
    BY <1>17, <2>1, <2>2 DEF PublishHangs
<1>18. ASSUME NEW w \in Workers, ConnectionCloses(w) PROVE StreamOK'
  <2>1. /\ phase[w] = "hung" /\ phase'[w] = "mark_failed"
        /\ \A v \in Workers \ {w} : phase'[v] = phase[v]
        /\ UNCHANGED <<row, stream, todo, hand>>
    BY <1>18 DEF ConnectionCloses, TypeOK
  <2> QED
    BY <1>0, <2>1, QuietStep
\* Writing the outcome back.
<1>11. ASSUME NEW w \in Workers, phase[w] \in {"mark_sent", "mark_failed"}, Done(w),
              UNCHANGED <<stream, todo>>,
              \A m \in Msgs : /\ row'[m].attempts = row[m].attempts
                              /\ row'[m].status \in {"SENT", "DELETED"} => In(m, stream)
       PROVE  StreamOK'
  <2>1. /\ hand'[w] = {} /\ phase'[w] \in {"idle", "publish"}
        /\ \A v \in Workers \ {w} : phase'[v] = phase[v] /\ hand'[v] = hand[v]
    BY <1>11 DEF Done, TypeOK
  <2> QED
    BY <1>0, <1>11, <2>1, QuietStep
<1>12. ASSUME NEW w \in Workers, NEW r \in hand[w], MarkSent(w, r) PROVE StreamOK'
  <2>1. In(r.msg, stream)
    BY <1>12 DEF MarkSent, StreamOK
  <2>2. \A m \in Msgs : /\ row'[m].attempts = row[m].attempts
                        /\ row'[m].status = row[m].status \/ m = r.msg
    BY <1>0, <1>12 DEF MarkSent, TypeOK
  <2>3. \A m \in Msgs : row'[m].status \in {"SENT", "DELETED"} => In(m, stream)
    BY <1>0, <2>1, <2>2
  <2> QED
    BY <1>11, <1>12, <2>2, <2>3 DEF MarkSent
<1>13. ASSUME NEW w \in Workers, NEW r \in hand[w], MarkFailed(w, r) PROVE StreamOK'
  <2>1. \A m \in Msgs : /\ row'[m].attempts = row[m].attempts
                        /\ row'[m].status \in {row[m].status, "FAILED", "PENDING"}
    BY <1>0, <1>13 DEF MarkFailed, TypeOK
  <2>2. \A m \in Msgs : row'[m].status \in {"SENT", "DELETED"} => In(m, stream)
    BY <1>0, <2>1
  <2> QED
    BY <1>11, <1>13, <2>1, <2>2 DEF MarkFailed
<1>14. ASSUME NEW w \in Workers, MarkFails(w) PROVE StreamOK'
  BY <1>0, <1>11, <1>14 DEF MarkFails
<1>15. ASSUME NEW w \in Workers, Crash(w) PROVE StreamOK'
  <2>1. /\ row' = row /\ stream' = stream
        /\ todo'[w] = {} /\ phase'[w] = "idle"
        /\ \A v \in Workers \ {w} :
             phase'[v] = phase[v] /\ todo'[v] = todo[v] /\ hand'[v] = hand[v]
    BY <1>15 DEF Crash, TypeOK
  <2> QED
    BY <1>0, <2>1, QuietStep
<1> QED
  BY <1>2, <1>3, <1>4, <1>5, <1>6, <1>7, <1>8, <1>9, <1>10, <1>12, <1>13, <1>14, <1>15,
     <1>17, <1>18
  DEF Next, Step

LEMMA InvIsKept == IInv /\ [Next]_vars => IInv'
  BY TypeIsKept, WorkersAreKept, RowsAreKept, StreamIsKept DEF IInv

LEMMA RelayInvariant == Spec => []IInv
  BY InvHoldsInitially, InvIsKept, PTL DEF Spec

-----------------------------------------------------------------------------
(* The order in which the events of a ride are published. *)

\* A row is in the table once, from its insertion on.
InPlace ==
  /\ \A i, j \in 1..Len(order) : order[i] = order[j] => i = j
  /\ \A i \in 1..Len(order) : row[order[i]].status # "ABSENT"

\* A row that was never claimed is pending, and waits for nothing.
Untouched ==
  \A m \in Msgs : row[m].attempts = 0 => row[m].status \in {"ABSENT", "PENDING"} /\ m \notin waiting

\* Without a fault, the rows of a ride that are older than one in a batch have been
\* claimed, or are about to be: the one whose turn it is has no older one to be claimed.
OlderFirst ==
  budget.faults = 0 =>
    \A w \in Workers : \A r \in todo[w] : \A n \in Msgs :
      RideOf[n] = RideOf[r.msg] /\ Before(n, r.msg) =>
        row[n].attempts > 0 \/ \E v \in Workers : n \in locked[v]

OrderInv == InPlace /\ Untouched /\ OlderFirst

\* Where InsertAt puts the rows.
LEMMA InsertPlaces ==
  ASSUME NEW s \in Seq(Msgs), NEW p \in 1..(Len(s) + 1), NEW m \in Msgs,
         NEW t, t = Ext!InsertAt(s, p, m)
  PROVE  /\ Len(t) = Len(s) + 1
         /\ t[p] = m
         /\ \A i \in 1..(p - 1) : t[i] = s[i]
         /\ \A i \in (p + 1)..(Len(s) + 1) : t[i] = s[i - 1]
<1> DEFINE a == SubSeq(s, 1, p - 1)
           b == SubSeq(s, p, Len(s))
           n == Len(s)
<1>1. n \in Nat /\ p \in Nat /\ 1 <= p /\ p <= n + 1
  OBVIOUS
<1>2. /\ a \in Seq(Msgs) /\ Len(a) = p - 1
      /\ \A i \in 1..(p - 1) : a[i] = s[i]
  BY SubSeqProperties
<1>3. /\ b \in Seq(Msgs) /\ Len(b) = n + 1 - p
      /\ \A i \in 1..(n + 1 - p) : b[i] = s[p + i - 1]
  <2>1. CASE p = n + 1
    BY <2>1, SubSeqProperties
  <2>2. CASE p <= n
    BY <2>2, SubSeqProperties
  <2> QED
    BY <1>1, <2>1, <2>2
<1> HIDE DEF a, b, n
<1>4. <<m>> \in Seq(Msgs) /\ Len(<<m>>) = 1 /\ <<m>>[1] = m
  OBVIOUS
<1> DEFINE c == a \o <<m>>
<1>5. /\ c \in Seq(Msgs) /\ Len(c) = p
      /\ \A i \in 1..(p - 1) : c[i] = s[i]
      /\ c[p] = m
  <2>1. c \in Seq(Msgs) /\ Len(c) = p
    BY <1>1, <1>2, <1>4, ConcatProperties
  <2>2. \A i \in 1..Len(c) : c[i] = IF i <= Len(a) THEN a[i] ELSE <<m>>[i - Len(a)]
    BY <1>2, <1>4, ConcatProperties
  <2> HIDE DEF c
  <2> QED
    BY <1>1, <1>2, <1>4, <2>1, <2>2
<1> HIDE DEF c
<1>6. /\ Len(c \o b) = n + 1
      /\ \A i \in 1..(n + 1) : (c \o b)[i] = IF i <= p THEN c[i] ELSE b[i - p]
  <2>1. Len(c) + Len(b) = n + 1
    BY <1>1, <1>3, <1>5
  <2>2. /\ Len(c \o b) = Len(c) + Len(b)
        /\ \A i \in 1..(Len(c) + Len(b)) :
             (c \o b)[i] = IF i <= Len(c) THEN c[i] ELSE b[i - Len(c)]
    BY <1>3, <1>5, ConcatProperties
  <2> QED
    BY <1>5, <2>1, <2>2
<1>7. \A i \in (p + 1)..(n + 1) : (c \o b)[i] = s[i - 1]
  <2> SUFFICES ASSUME NEW i \in (p + 1)..(n + 1) PROVE (c \o b)[i] = s[i - 1]
    OBVIOUS
  <2>1. (c \o b)[i] = b[i - p]
    BY <1>1, <1>6
  <2>2. b[i - p] = s[p + (i - p) - 1]
    BY <1>1, <1>3
  <2> QED
    BY <1>1, <2>1, <2>2
<1>8. /\ (c \o b)[p] = m
      /\ \A i \in 1..(p - 1) : (c \o b)[i] = s[i]
  BY <1>1, <1>5, <1>6
<1>9. t = c \o b
  BY DEF Ext!InsertAt, a, b, c, n
<1> QED
  BY <1>6, <1>7, <1>8, <1>9 DEF n

\* A new row is in the table, once, behind the rows of its ride; the others stay as they were.
LEMMA EnqueueOrders ==
  ASSUME TypeOK, InPlace, NEW m \in Msgs, Enqueue(m)
  PROVE  /\ InPlace'
         /\ \A x, y \in Msgs : x # m /\ y # m /\ Before(x, y)' => Before(x, y)
         /\ \A y \in Msgs : Before(m, y)' => RideOf[y] # RideOf[m]
<1> DEFINE n == Len(order)
<1>1. PICK p \in 1..(n + 1) : /\ \A i \in p..n : RideOf[order[i]] # RideOf[m]
                              /\ order' = Ext!InsertAt(order, p, m)
  BY DEF Enqueue
<1>2. /\ n \in Nat /\ p \in Nat /\ 1 <= p /\ p <= n + 1
      /\ \A i \in 1..n : order[i] \in Msgs
  BY DEF TypeOK
<1>3. /\ Len(order') = n + 1
      /\ order'[p] = m
      /\ \A i \in 1..(p - 1) : order'[i] = order[i]
      /\ \A i \in (p + 1)..(n + 1) : order'[i] = order[i - 1]
  <2>1. order \in Seq(Msgs) /\ p \in 1..(Len(order) + 1)
    BY DEF TypeOK
  <2> HIDE DEF n
  <2>2. /\ Len(order') = Len(order) + 1
        /\ order'[p] = m
        /\ \A i \in 1..(p - 1) : order'[i] = order[i]
        /\ \A i \in (p + 1)..(Len(order) + 1) : order'[i] = order[i - 1]
    BY <1>1, <2>1, InsertPlaces
  <2> QED
    BY <2>2 DEF n
<1>4. \A i \in 1..n : order[i] # m
  BY DEF InPlace, Enqueue
<1> DEFINE old(i) == IF i < p THEN i ELSE i - 1
<1>5. \A i \in 1..(n + 1) : i # p => old(i) \in 1..n /\ order'[i] = order[old(i)] /\ order'[i] # m
  BY <1>2, <1>3, <1>4
<1>6. ASSUME NEW i \in 1..(n + 1), NEW j \in 1..(n + 1), i # p, j # p
      PROVE  (old(i) = old(j) => i = j) /\ (i < j => old(i) < old(j))
  <2>1. i \in Nat /\ j \in Nat
    BY <1>2
  <2> QED
    BY <1>2, <1>6, <2>1
<1>7. \A j \in 1..(n + 1) : p < j => old(j) \in p..n
  BY <1>2
<1>8. /\ row'[m].status = "PENDING"
      /\ \A x \in Msgs \ {m} : row'[x] = row[x]
  BY DEF Enqueue, TypeOK
<1> HIDE DEF n, old
<1>9. \A i, j \in 1..(n + 1) : order'[i] = order'[j] => i = j
  <2> SUFFICES ASSUME NEW i \in 1..(n + 1), NEW j \in 1..(n + 1), order'[i] = order'[j]
               PROVE  i = j
    OBVIOUS
  <2>1. CASE i = p \/ j = p
    BY <1>3, <1>5, <2>1
  <2>2. CASE i # p /\ j # p
    <3>1. old(i) = old(j)
      BY <1>5, <2>2 DEF InPlace, n
    <3> QED
      BY <1>6, <2>2, <3>1
  <2> QED
    BY <2>1, <2>2
<1>10. \A i \in 1..(n + 1) : row'[order'[i]].status # "ABSENT"
  <2> SUFFICES ASSUME NEW i \in 1..(n + 1) PROVE row'[order'[i]].status # "ABSENT"
    OBVIOUS
  <2>1. CASE i = p
    BY <1>3, <1>8, <2>1
  <2>2. CASE i # p
    <3>1. old(i) \in 1..n /\ order'[i] = order[old(i)] /\ order'[i] # m
      BY <1>5, <2>2
    <3>2. row[order[old(i)]].status # "ABSENT"
      BY <3>1 DEF InPlace, n
    <3> QED
      BY <1>2, <1>8, <3>1, <3>2
  <2> QED
    BY <2>1, <2>2
<1>11. ASSUME NEW x \in Msgs, NEW y \in Msgs, x # m, y # m, Before(x, y)' PROVE Before(x, y)
  <2>1. PICK i \in 1..(n + 1), j \in 1..(n + 1) : i < j /\ order'[i] = x /\ order'[j] = y
    BY <1>3, <1>11 DEF Before
  <2>2. i # p /\ j # p
    BY <1>3, <1>11, <2>1
  <2>3. /\ old(i) \in 1..n /\ old(j) \in 1..n /\ old(i) < old(j)
        /\ order[old(i)] = x /\ order[old(j)] = y
    <3>1. old(i) < old(j)
      BY <1>6, <2>1, <2>2
    <3>2. /\ old(i) \in 1..n /\ order'[i] = order[old(i)]
          /\ old(j) \in 1..n /\ order'[j] = order[old(j)]
      BY <1>5, <2>2
    <3> QED
      BY <2>1, <3>1, <3>2
  <2> QED
    BY <2>3 DEF Before, n
<1>12. ASSUME NEW y \in Msgs, Before(m, y)' PROVE RideOf[y] # RideOf[m]
  <2>1. PICK i \in 1..(n + 1), j \in 1..(n + 1) : i < j /\ order'[i] = m /\ order'[j] = y
    BY <1>3, <1>12 DEF Before
  <2>2. i = p
    BY <1>5, <2>1
  <2>3. old(j) \in p..n /\ order[old(j)] = y
    BY <1>2, <1>5, <1>7, <2>1, <2>2
  <2> QED
    BY <1>1, <2>3 DEF n
<1> QED
  BY <1>3, <1>9, <1>10, <1>11, <1>12 DEF InPlace

\* The batch is closed: it leaves out no claimable row that is older than one of its rows.
LEMMA BatchClosed ==
  ASSUME TypeOK, InPlace, NEW m \in Batch, NEW n \in Msgs, Claimable(n), Before(n, m)
  PROVE  n \in Batch
<1> DEFINE Older(x) == {y \in Msgs : Claimable(y) /\ Before(y, x)}
           R == {order[i] : i \in 1..Len(order)}
<1>1. IsFiniteSet(R)
  <2>1. IsFiniteSet(1..Len(order))
    BY FS_Interval DEF TypeOK
  <2>2. order \in Surjection(1..Len(order), R)
    BY DEF TypeOK, Surjection
  <2> QED
    BY <2>1, <2>2, FS_Surjection
<1>2. \A x : Older(x) \subseteq R
  BY DEF Before
<1>3. Older(n) \subseteq Older(m)
  <2> SUFFICES ASSUME NEW y \in Msgs, Before(y, n) PROVE Before(y, m)
    OBVIOUS
  <2>1. PICK i \in 1..Len(order), j \in 1..Len(order) : i < j /\ order[i] = y /\ order[j] = n
    BY DEF Before
  <2>2. PICK k \in 1..Len(order), l \in 1..Len(order) : k < l /\ order[k] = n /\ order[l] = m
    BY DEF Before
  <2>3. j = k
    BY <2>1, <2>2 DEF InPlace
  <2>4. i < l
    BY <2>1, <2>2, <2>3 DEF TypeOK
  <2> QED
    BY <2>1, <2>2, <2>4 DEF Before
<1>4. m \in Msgs /\ Cardinality(Older(m)) < BatchSize
  BY DEF Batch
<1> HIDE DEF Older, R
<1>5. IsFiniteSet(Older(m))
  BY <1>1, <1>2, FS_Subset
<1>6. /\ Cardinality(Older(n)) <= Cardinality(Older(m))
      /\ Cardinality(Older(m)) \in Nat /\ Cardinality(Older(n)) \in Nat
  BY <1>1, <1>2, <1>3, <1>5, FS_Subset, FS_CardinalityType
<1>7. Cardinality(Older(n)) < BatchSize
  BY <1>4, <1>6, OutboxAssumption
<1> QED
  BY <1>7 DEF Batch, Older

\* Faults are counted and never forgotten.
LEMMA FaultsGrow ==
  ASSUME TypeOK, [Next]_vars
  PROVE  /\ budget'.faults = 0 => budget.faults = 0
         /\ \A w \in Workers : MarkFails(w) \/ Crash(w) => budget'.faults # 0
<1>1. /\ budget = [broker |-> budget.broker, faults |-> budget.faults, replays |-> budget.replays]
      /\ budget.faults \in Nat
  BY DEF TypeOK
<1>2. ASSUME Spend("faults") PROVE budget'.faults # 0
  <2>1. budget' = [budget EXCEPT !.faults = budget.faults + 1]
    BY <1>2 DEF Spend
  <2>2. budget'.faults = budget.faults + 1
    BY <1>1, <2>1
  <2> QED
    BY <1>1, <2>2
<1>3. ASSUME Spend("broker") \/ Spend("replays") PROVE budget'.faults = budget.faults
  <2>1. \/ budget' = [budget EXCEPT !.broker = budget.broker + 1]
        \/ budget' = [budget EXCEPT !.replays = budget.replays + 1]
    BY <1>3 DEF Spend
  <2> QED
    BY <1>1, <2>1
<1> QED
  BY <1>2, <1>3 DEF Next, Step, vars, Enqueue, BackoffEnds, Cleanup, Select, Claim, Publish,
     PublishFails, PublishHangs, ConnectionCloses, MarkSent, MarkFailed, MarkFails, Crash,
     ResetFailed

LEMMA OrderHoldsInitially == Init => OrderInv
<1> SUFFICES ASSUME Init PROVE OrderInv
  OBVIOUS
<1>1. InPlace
  BY DEF Init, InPlace
<1>2. Untouched
  BY DEF Init, Untouched, Absent
<1>3. OlderFirst
  BY DEF Init, OlderFirst
<1> QED
  BY <1>1, <1>2, <1>3 DEF OrderInv

\* A step that inserts nothing keeps the table's order.
LEMMA InPlaceIsKept == TypeOK /\ InPlace /\ [Next]_vars => InPlace'
<1> SUFFICES ASSUME TypeOK, InPlace, [Next]_vars PROVE InPlace'
  OBVIOUS
<1>1. \A i \in 1..Len(order) : order[i] \in Msgs
  BY DEF TypeOK
<1>2. ASSUME order' = order, \A m \in Msgs : row'[m].status = "ABSENT" => row[m].status = "ABSENT"
      PROVE  InPlace'
  BY <1>1, <1>2 DEF InPlace
<1>3. ASSUME NEW m \in Msgs, Enqueue(m) PROVE InPlace'
  BY <1>3, EnqueueOrders
<1>4. ASSUME NEW m \in Msgs, Cleanup(m) PROVE InPlace'
  <2>1. \A n \in Msgs : row'[n].status \in {row[n].status, "DELETED"}
    BY <1>4 DEF Cleanup, TypeOK
  <2> QED
    BY <1>2, <1>4, <2>1 DEF Cleanup
<1>5. ASSUME NEW w \in Workers, Claim(w) PROVE InPlace'
  <2>1. \A n \in Msgs : row'[n].status \in {row[n].status, "PROCESSING"}
    BY <1>5 DEF Claim, TypeOK
  <2> QED
    BY <1>2, <1>5, <2>1 DEF Claim
<1>6. ASSUME NEW w \in Workers, NEW r \in hand[w], MarkSent(w, r) PROVE InPlace'
  <2>1. \A n \in Msgs : row'[n].status \in {row[n].status, "SENT"}
    BY <1>6 DEF MarkSent, TypeOK
  <2> QED
    BY <1>2, <1>6, <2>1 DEF MarkSent
<1>7. ASSUME NEW w \in Workers, NEW r \in hand[w], MarkFailed(w, r) PROVE InPlace'
  <2>1. \A n \in Msgs : row'[n].status \in {row[n].status, "FAILED", "PENDING"}
    BY <1>7 DEF MarkFailed, TypeOK
  <2> QED
    BY <1>2, <1>7, <2>1 DEF MarkFailed
<1>8. CASE ResetFailed
  <2>1. \A n \in Msgs : row'[n].status \in {row[n].status, "PENDING"}
    BY <1>8 DEF ResetFailed, TypeOK
  <2> QED
    BY <1>2, <1>8, <2>1 DEF ResetFailed
<1>9. row' = row /\ order' = order => InPlace'
  BY <1>2
<1> QED
  BY <1>3, <1>4, <1>5, <1>6, <1>7, <1>8, <1>9
  DEF Next, Step, vars, BackoffEnds, Select, Publish, PublishFails, PublishHangs,
      ConnectionCloses, MarkFails, Crash

\* Only a claim makes a row one that was touched, and it counts the attempt.
LEMMA UntouchedIsKept ==
  TypeOK /\ WorkersOK /\ Untouched /\ [Next]_vars => Untouched'
<1> SUFFICES ASSUME TypeOK, WorkersOK, Untouched, [Next]_vars PROVE Untouched'
  OBVIOUS
<1>0. \A m \in Msgs : row[m].attempts \in Nat
  BY DEF TypeOK
<1>1. ASSUME waiting' \subseteq waiting,
             \A m \in Msgs : \/ row'[m].attempts # 0
                             \/ /\ row'[m].attempts = row[m].attempts
                                /\ row'[m].status \in {row[m].status, "PENDING"}
      PROVE  Untouched'
  BY <1>1 DEF Untouched
<1>2. ASSUME NEW m \in Msgs, Enqueue(m) PROVE Untouched'
  <2>1. \A n \in Msgs : /\ row'[n].attempts = row[n].attempts
                        /\ row'[n].status \in {row[n].status, "PENDING"}
    BY <1>2 DEF Enqueue, TypeOK
  <2> QED
    BY <1>1, <1>2, <2>1 DEF Enqueue
<1>3. ASSUME NEW m \in Msgs, Cleanup(m) PROVE Untouched'
  <2>1. row[m].attempts # 0
    BY <1>3 DEF Cleanup, Untouched
  <2>2. row'[m].attempts = row[m].attempts /\ \A n \in Msgs \ {m} : row'[n] = row[n]
    BY <1>3 DEF Cleanup, TypeOK
  <2>3. waiting' \subseteq waiting
    BY <1>3 DEF Cleanup
  <2> QED
    BY <1>1, <2>1, <2>2, <2>3
<1>4. ASSUME NEW w \in Workers, Claim(w) PROVE Untouched'
  <2>1. \A n \in Msgs : row'[n] = row[n] \/ row'[n].attempts = row[n].attempts + 1
    BY <1>4 DEF Claim, TypeOK
  <2>2. \A n \in Msgs : row'[n] = row[n] \/ row'[n].attempts # 0
    BY <1>0, <2>1
  <2>3. waiting' \subseteq waiting
    BY <1>4 DEF Claim
  <2> QED
    BY <1>1, <2>2, <2>3
\* What a worker marks has been claimed.
<1>5. ASSUME NEW w \in Workers, NEW r \in hand[w], phase[w] \in {"mark_sent", "mark_failed"}
      PROVE  r.msg \in Msgs /\ row[r.msg].attempts # 0
  <2>1. r.msg \in Msgs /\ row[r.msg] = [status |-> "PROCESSING", attempts |-> r.attempt]
    BY <1>5, RowInHand
  <2> QED
    BY <2>1 DEF Untouched
<1>6. ASSUME NEW w \in Workers, NEW r \in hand[w], MarkSent(w, r) PROVE Untouched'
  <2>1. r.msg \in Msgs /\ row[r.msg].attempts # 0
    BY <1>5, <1>6 DEF MarkSent
  <2>2. row'[r.msg].attempts # 0 /\ \A n \in Msgs \ {r.msg} : row'[n] = row[n]
    BY <1>6, <2>1 DEF MarkSent, TypeOK
  <2>3. waiting' \subseteq waiting
    BY <1>6 DEF MarkSent
  <2> QED
    BY <1>1, <2>2, <2>3
<1>7. ASSUME NEW w \in Workers, NEW r \in hand[w], MarkFailed(w, r) PROVE Untouched'
  <2>1. r.msg \in Msgs /\ row[r.msg].attempts # 0
    BY <1>5, <1>7 DEF MarkFailed
  <2>2. row'[r.msg].attempts # 0 /\ \A n \in Msgs \ {r.msg} : row'[n] = row[n]
    BY <1>7, <2>1 DEF MarkFailed, TypeOK
  <2>3. waiting' \subseteq waiting \cup {r.msg}
    BY <1>7 DEF MarkFailed
  <2> QED
    BY <2>2, <2>3 DEF Untouched
<1>8. CASE ResetFailed
  <2>1. \A n \in Msgs : /\ row'[n].attempts = row[n].attempts
                        /\ row'[n].status \in {row[n].status, "PENDING"}
    BY <1>8 DEF ResetFailed, TypeOK
  <2> QED
    BY <1>1, <1>8, <2>1 DEF ResetFailed
<1>9. ASSUME row' = row, waiting' \subseteq waiting PROVE Untouched'
  BY <1>1, <1>9
<1>10. (\E m \in Msgs : BackoffEnds(m)) => Untouched'
  BY <1>9 DEF BackoffEnds
<1>11. row' = row /\ waiting' = waiting => Untouched'
  BY <1>9
<1> QED
  BY <1>2, <1>3, <1>4, <1>6, <1>7, <1>8, <1>10, <1>11
  DEF Next, Step, vars, Select, Publish, PublishFails, PublishHangs, ConnectionCloses,
      MarkFails, Crash

LEMMA OlderIsKept ==
  TypeOK /\ WorkersOK /\ RowsOK /\ InPlace /\ Untouched /\ OlderFirst /\ [Next]_vars => OlderFirst'
<1> SUFFICES ASSUME TypeOK, WorkersOK, InPlace, Untouched, OlderFirst, [Next]_vars,
                    budget'.faults = 0
             PROVE  OlderFirst'
  BY DEF OlderFirst
<1>0. /\ budget.faults = 0
      /\ \A w \in Workers : ~MarkFails(w) /\ ~Crash(w)
      /\ \A m \in Msgs : row[m].attempts \in Nat
      /\ \A w \in Workers : \A r \in todo[w] : r.msg \in Msgs
  BY FaultsGrow DEF TypeOK
<1> DEFINE Taken(n) == row[n].attempts > 0 \/ \E v \in Workers : n \in locked[v]
<1>1. \A w \in Workers : \A r \in todo[w] : \A n \in Msgs :
        RideOf[n] = RideOf[r.msg] /\ Before(n, r.msg) => Taken(n)
  BY <1>0 DEF OlderFirst
<1> HIDE DEF Taken
\* A step that adds nothing to a batch and forgets no claim.
<1>2. ASSUME \A w \in Workers : todo'[w] \subseteq todo[w],
             \A n \in Msgs : Taken(n) => Taken(n)',
             order' = order
      PROVE  OlderFirst'
  BY <1>1, <1>2 DEF OlderFirst, Taken, Before
<1>3. ASSUME \A w \in Workers : todo'[w] \subseteq todo[w], order' = order, locked' = locked,
             \A n \in Msgs : row'[n].attempts = row[n].attempts
      PROVE  OlderFirst'
  BY <1>2, <1>3 DEF Taken
<1>4. ASSUME NEW m \in Msgs, Enqueue(m) PROVE OlderFirst'
  <2>1. /\ todo' = todo /\ locked' = locked
        /\ \A n \in Msgs : row'[n].attempts = row[n].attempts
    BY <1>4 DEF Enqueue, TypeOK
  <2>2. \A w \in Workers : \A r \in todo[w] : r.msg # m
    BY <1>4, HeldRows DEF Enqueue, Batched
  <2>3. ASSUME NEW w \in Workers, NEW r \in todo[w], NEW n \in Msgs,
               RideOf[n] = RideOf[r.msg], Before(n, r.msg)'
        PROVE  Taken(n)
    <3>1. n # m
      BY <1>0, <1>4, <2>3, EnqueueOrders
    <3>2. Before(n, r.msg)
      BY <1>0, <1>4, <2>2, <2>3, <3>1, EnqueueOrders
    <3> QED
      BY <1>1, <2>3, <3>2
  <2> QED
    BY <2>1, <2>3 DEF OlderFirst, Taken, Before
<1>5. ASSUME NEW w \in Workers, Select(w) PROVE OlderFirst'
  <2>1. \A m \in Batch : m \in Msgs /\ Claimable(m)
    BY DEF Batch
  <2> HIDE DEF Batch
  <2>2. /\ row' = row /\ order' = order
        /\ todo'[w] = {[msg |-> m, attempt |-> row[m].attempts + 1] : m \in Batch}
        /\ locked'[w] = Batch /\ locked[w] = {}
        /\ \A v \in Workers \ {w} : todo'[v] = todo[v] /\ locked'[v] = locked[v]
    BY <1>5 DEF Select, TypeOK, WorkersOK, PhaseOK
  <2>3. \A r \in todo'[w] : r.msg \in Batch
    BY <2>2
  <2>4. \A n \in Msgs : Taken(n) => row'[n].attempts > 0 \/ \E v \in Workers : n \in locked'[v]
    BY <2>2 DEF Taken
  <2>5. ASSUME NEW m \in Batch, NEW n \in Msgs, Before(n, m)
        PROVE  row'[n].attempts > 0 \/ \E v \in Workers : n \in locked'[v]
    <3>1. CASE Taken(n)
      BY <2>4, <3>1
    <3>2. CASE ~Taken(n)
      <4>1. row[n].attempts = 0 /\ \A v \in Workers : n \notin locked[v]
        BY <1>0, <3>2 DEF Taken
      <4>2. row[n].status # "ABSENT"
        BY <2>5 DEF Before, InPlace
      <4>3. Claimable(n)
        BY <4>1, <4>2, OutboxAssumption DEF Claimable, Untouched
      <4>4. n \in Batch
        BY <2>1, <2>5, <4>3, BatchClosed
      <4> QED
        BY <2>2, <4>4
    <3> QED
      BY <3>1, <3>2
  <2>6. ASSUME NEW v \in Workers, NEW r \in todo'[v], NEW n \in Msgs,
               RideOf[n] = RideOf[r.msg], Before(n, r.msg)
        PROVE  row'[n].attempts > 0 \/ \E u \in Workers : n \in locked'[u]
    <3>1. CASE v = w
      BY <2>3, <2>5, <2>6, <3>1
    <3>2. CASE v # w
      BY <1>1, <2>2, <2>4, <2>6, <3>2
    <3> QED
      BY <3>1, <3>2
  <2>7. \A x, y : Before(x, y)' <=> Before(x, y)
    BY <2>2 DEF Before
  <2> QED
    BY <2>6, <2>7 DEF OlderFirst
<1>6. ASSUME NEW w \in Workers, Claim(w) PROVE OlderFirst'
  <2>1. /\ todo' = todo /\ order' = order
        /\ \A n \in Msgs : row'[n] = IF n \in locked[w]
                                     THEN [status |-> "PROCESSING", attempts |-> row[n].attempts + 1]
                                     ELSE row[n]
        /\ \A v \in Workers \ {w} : locked'[v] = locked[v]
    BY <1>6 DEF Claim, TypeOK
  <2>2. \A n \in Msgs : Taken(n) => Taken(n)'
    <3> SUFFICES ASSUME NEW n \in Msgs, Taken(n) PROVE Taken(n)'
      OBVIOUS
    <3>1. CASE n \in locked[w]
      <4>1. row'[n].attempts = row[n].attempts + 1
        <5>1. row'[n] = [status |-> "PROCESSING", attempts |-> row[n].attempts + 1]
          BY <2>1, <3>1
        <5> QED
          BY <5>1
      <4> QED
        BY <1>0, <4>1 DEF Taken
    <3>2. CASE n \notin locked[w]
      <4>1. row'[n] = row[n]
        BY <2>1, <3>2
      <4> QED
        BY <2>1, <3>2, <4>1 DEF Taken
    <3> QED
      BY <3>1, <3>2
  <2> QED
    BY <1>2, <2>1, <2>2
<1>7. ASSUME NEW w \in Workers, NEW r \in todo[w],
             Publish(w, r) \/ PublishFails(w, r) \/ PublishHangs(w, r)
      PROVE  OlderFirst'
  <2>1. /\ row' = row /\ order' = order /\ locked' = locked
        /\ \A v \in Workers : todo'[v] \subseteq todo[v]
    <3>1. /\ row' = row /\ order' = order /\ locked' = locked
          /\ todo' = [todo EXCEPT ![w] = @ \ {r}]
      BY <1>7 DEF Publish, PublishFails, PublishHangs, Take
    <3> QED
      BY <3>1 DEF TypeOK
  <2> QED
    BY <1>3, <2>1
<1>8. ASSUME NEW w \in Workers, NEW r \in hand[w], MarkSent(w, r) \/ MarkFailed(w, r)
      PROVE  OlderFirst'
  <2>1. \A n \in Msgs : row'[n].attempts = row[n].attempts
    <3>1. CASE MarkSent(w, r)
      BY <3>1 DEF MarkSent, TypeOK
    <3>2. CASE MarkFailed(w, r)
      BY <3>2 DEF MarkFailed, TypeOK
    <3> QED
      BY <1>8, <3>1, <3>2
  <2>2. todo' = todo /\ order' = order /\ locked' = locked
    BY <1>8 DEF MarkSent, MarkFailed
  <2> QED
    BY <1>3, <2>1, <2>2
<1>9. CASE ResetFailed
  <2>1. \A n \in Msgs : row'[n].attempts = row[n].attempts
    BY <1>9 DEF ResetFailed, TypeOK
  <2> QED
    BY <1>3, <1>9, <2>1 DEF ResetFailed
<1>10. ASSUME NEW m \in Msgs, Cleanup(m) PROVE OlderFirst'
  <2>1. \A n \in Msgs : row'[n].attempts = row[n].attempts
    BY <1>10 DEF Cleanup, TypeOK
  <2> QED
    BY <1>3, <1>10, <2>1 DEF Cleanup
<1>11. UNCHANGED <<row, order, locked, todo>> => OlderFirst'
  BY <1>3
<1> QED
  BY <1>0, <1>4, <1>5, <1>6, <1>7, <1>8, <1>9, <1>10, <1>11
  DEF Next, Step, vars, BackoffEnds, ConnectionCloses

LEMMA OrderIsKept == IInv /\ OrderInv /\ [Next]_vars => OrderInv'
  BY InPlaceIsKept, UntouchedIsKept, OlderIsKept DEF IInv, OrderInv

LEMMA OrderInvariant == Spec => [](IInv /\ OrderInv)
  BY InvHoldsInitially, InvIsKept, OrderHoldsInitially, OrderIsKept, PTL DEF Spec

\* The step that publishes is the worker's own, and it has taken the row from its batch.
LEMMA PublishingStep ==
  ASSUME IInv, [Next]_vars, NEW w \in Workers, phase[w] = "publish", hand[w] = {},
         NEW s \in hand'[w]
  PROVE  s \in todo[w] /\ \A x \in todo[w] : ~Before(x.msg, s.msg)
<1>1. hand'[w] # hand[w]
  OBVIOUS
<1>2. hand \in [Workers -> SUBSET [msg: Msgs, attempt: Nat]]
  BY DEF IInv, TypeOK
<1>3. ASSUME NEW v \in Workers, NEW r \in todo[v], NEW next, Take(v, r, next)
      PROVE  s \in todo[w] /\ \A x \in todo[w] : ~Before(x.msg, s.msg)
  <2>1. v = w
    BY <1>1, <1>2, <1>3 DEF Take
  <2>2. s = r
    BY <1>2, <1>3, <2>1 DEF Take
  <2> QED
    BY <1>3, <2>1, <2>2 DEF Take
<1>4. ASSUME NEW v \in Workers, Done(v) PROVE FALSE
  <2>1. hand'[w] = hand[w] \/ hand'[w] = {}
    BY <1>2, <1>4 DEF Done
  <2> QED
    BY <1>1, <2>1
<1>5. ASSUME NEW v \in Workers, Crash(v) PROVE FALSE
  <2>1. hand'[w] = hand[w] \/ hand'[w] = {}
    BY <1>2, <1>5 DEF Crash
  <2> QED
    BY <1>1, <2>1
<1>6. hand' # hand
  BY <1>1
<1> QED
  BY <1>3, <1>4, <1>5, <1>6 DEF Next, Step, vars, Enqueue, BackoffEnds, Cleanup, Select, Claim,
     Publish, PublishFails, PublishHangs, ConnectionCloses, MarkSent, MarkFailed, MarkFails,
     ResetFailed

-----------------------------------------------------------------------------
(* The theorems. *)

\* The variables of the relay keep their types, with any number of rows and workers.
THEOREM RelayTypes == Spec => []TypeOK
<1>1. IInv => TypeOK
  BY DEF IInv
<1> QED
  BY <1>1, RelayInvariant, PTL

\* No row is ever in the hands of two workers, whichever of them crash (Claim, MarkSent
\* and MarkFailed of outbox_repo.go).
THEOREM RelayHeldByOne == Spec => []HeldByOne
<1>1. IInv => HeldByOne
  <2> SUFFICES ASSUME IInv PROVE HeldByOne
    OBVIOUS
  <2>1. ASSUME NEW w \in Workers, NEW m \in Msgs, Holds(w, m)
        PROVE  \E r \in Batched(w) : r.msg = m
    BY <2>1 DEF IInv, WorkersOK, PhaseOK, Holds, Batched
  <2>2. ASSUME NEW v \in Workers, NEW w \in Workers, NEW m \in Msgs, Holds(v, m), Holds(w, m)
        PROVE  v = w
    BY <2>1, <2>2 DEF IInv, Apart
  <2>3. ASSUME NEW w \in Workers, phase[w] # "selected", NEW r \in Batched(w)
        PROVE  row[r.msg] = [status |-> "PROCESSING", attempts |-> r.attempt]
    <3>1. row[r.msg] \in [status: Statuses, attempts: Nat]
      BY HeldRows DEF IInv, TypeOK
    <3> QED
      BY <2>3, <3>1 DEF IInv, WorkersOK, BatchOK
  <2> QED
    BY <2>2, <2>3 DEF HeldByOne
<1> QED
  BY <1>1, RelayInvariant, PTL

\* A row that says SENT (or has been deleted as such) has been stored by JetStream.
THEOREM RelaySentIsPublished == Spec => []SentIsPublished
<1>1. IInv => SentIsPublished
  BY DEF IInv, StreamOK
<1> QED
  BY <1>1, RelayInvariant, PTL

\* An event is stored at most once per claim of its row, and at most MaxAttempts times.
THEOREM RelayDuplicatesBounded == Spec => []DuplicatesBounded
<1>1. IInv => DuplicatesBounded
  BY DEF IInv, StreamOK, RowsOK, DuplicatesBounded
<1> QED
  BY <1>1, RelayInvariant, PTL

\* A row is dead-lettered with its last attempt, never before.
THEOREM RelayGivenUpAtTheEnd == Spec => []GivenUpAtTheEnd
<1>1. IInv => GivenUpAtTheEnd
  BY DEF IInv, RowsOK
<1> QED
  BY <1>1, RelayInvariant, PTL

\* An event of a ride is not published before an older one that was never claimed, nor
\* before an older one of its own batch (Claim's ORDER BY created_at, and flush).
THEOREM RelayInOrder == Spec => InOrder
<1>1. IInv /\ OrderInv /\ [Next]_vars =>
        \A w \in Workers, m, n \in Msgs :
          (/\ RideOf[n] = RideOf[m] /\ Before(n, m)
           /\ phase[w] = "publish" /\ hand[w] = {} /\ \E r \in hand'[w] : r.msg = m
           /\ stream' = Append(stream, m) /\ ~In(n, stream))
            => /\ \A r \in todo[w] : r.msg # n
               /\ \/ row[n].attempts > 0 \/ \E v \in Workers \ {w} : n \in locked[v]
                  \/ budget.faults > 0
  <2> SUFFICES ASSUME IInv, OrderInv, [Next]_vars,
                      NEW w \in Workers, NEW m \in Msgs, NEW n \in Msgs,
                      RideOf[n] = RideOf[m], Before(n, m),
                      phase[w] = "publish", hand[w] = {},
                      NEW s \in hand'[w], s.msg = m
               PROVE  /\ \A r \in todo[w] : r.msg # n
                      /\ \/ row[n].attempts > 0 \/ \E v \in Workers \ {w} : n \in locked[v]
                         \/ budget.faults > 0
    OBVIOUS
  <2>1. s \in todo[w] /\ \A x \in todo[w] : ~Before(x.msg, m)
    BY PublishingStep
  <2>2. locked[w] = {} /\ budget.faults \in Nat
    BY DEF IInv, WorkersOK, PhaseOK, TypeOK
  <2>3. CASE budget.faults = 0
    <3>1. row[n].attempts > 0 \/ \E v \in Workers : n \in locked[v]
      BY <2>1, <2>3 DEF OrderInv, OlderFirst
    <3> QED
      BY <2>1, <2>2, <3>1
  <2>4. CASE budget.faults # 0
    BY <2>1, <2>2, <2>4
  <2> QED
    BY <2>3, <2>4
<1> QED
  BY <1>1, OrderInvariant, PTL DEF Spec, InOrder
=============================================================================
