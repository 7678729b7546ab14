-------------------------- MODULE NotifyHubProofs --------------------------
(***************************************************************************)
(* A client without an excuse misses nothing, and receives a number twice  *)
(* at most and only after a replay: for any number of replicas, clients    *)
(* and events and any size of channels and history.                        *)
(***************************************************************************)
EXTENDS NotifyHub, FiniteSetTheorems, SequenceTheorems, TLAPS

Notice == [id: Nat, event: Events]
WorkerRecord == [stage: {"idle", "handle", "append", "send", "ack", "stopped"},
                 hand: Seq(Events), id: Nat]
Places == Replicas \cup {NoReplica}
Hubs == Places \X Nat
ClientRecord == [to: Places, ch: Seq(Notice), cursor: Nat, got: Seq(Notice), connects: Nat,
                 home: Hubs, since: Nat, resumed: BOOLEAN, excuse: SUBSET Incidents]

TypeOK ==
    /\ worker \in [Workers -> WorkerRecord]
    /\ numbered \in [Replicas -> Seq(Events)]
    /\ history \in [Replicas -> Seq(Notice)]
    /\ boots \in [Replicas -> Nat]
    /\ client \in [Clients -> ClientRecord]

Ids(s) == {s[i].id : i \in DOMAIN s}

(* Numbers whose notification has been in the history.                     *)
Appended(r) == (1..Len(numbered[r])) \ InFlight(r, {"append"})
Unsent(r) == InFlight(r, {"append", "send"})

(* A worker has a batch while it is busy, and a number of its own while it *)
(* broadcasts.                                                             *)
Busy(w) == worker[w].stage \in {"append", "send", "ack"}
WorkersOK ==
    /\ \A w \in Workers : worker[w].stage = "handle" \/ Busy(w) => worker[w].hand # <<>>
    /\ \A w \in Workers : Busy(w) =>
         /\ worker[w].id \in 1..Len(numbered[w[1]])
         /\ numbered[w[1]][worker[w].id] = Head(worker[w].hand)
    /\ \A v, w \in Workers : Busy(v) /\ Busy(w) /\ v[1] = w[1] /\ v # w
                               => worker[v].id # worker[w].id

HistoryOK(r) ==
    /\ Len(history[r]) <= HistorySize
    /\ \A p \in DOMAIN history[r] :
         /\ history[r][p].id \in Appended(r)
         /\ history[r][p].event = numbered[r][history[r][p].id]
    /\ \A p, q \in DOMAIN history[r] : history[r][p].id = history[r][q].id => p = q

(* The hub a client is at home at is one that was there; a client without  *)
(* an excuse is connected to no other.                                     *)
HomesOK(c) ==
    /\ client[c].home[1] \in Replicas => client[c].home[2] <= boots[client[c].home[1]]
    /\ client[c].to # NoReplica /\ client[c].excuse = {} => AtHome(c, client[c].to)

(* The excuses for hearing a number again.                                 *)
Plain(c) == "overlap" \notin client[c].excuse /\ "moved" \notin client[c].excuse

(* The numbers of r that c has a right to.                                 *)
Owed(c, r) == {i \in Appended(r) : i > client[c].since /\ Matches(c, numbered[r][i])}

(* No number overtakes another after the client's first connection.        *)
NoneOvertaken(c, r) ==
    \A i \in Appended(r) : \A j \in Unsent(r) \ {i} : i > client[c].since => j > i

(* From the first number the client has a right to, the history is sorted; *)
(* what it does not hold is older than all it holds, and it is full.       *)
HistorySorted(c, r) ==
    \A p, q \in DOMAIN history[r] :
        p < q /\ history[r][p].id > client[c].since => history[r][p].id < history[r][q].id

HistoryReaches(c, r) ==
    \A i \in Appended(r) \ Ids(history[r]) : i > client[c].since =>
        Len(history[r]) = HistorySize /\ \A k \in Ids(history[r]) : i < k

(* What the client has up to its cursor, and up to each entry of its       *)
(* channel, is complete.                                                   *)
CompleteToCursor(c, r) ==
    \A i \in Owed(c, r) : i <= client[c].cursor => i \in Ids(client[c].got)

CompleteChannel(c, r) ==
    \A p \in DOMAIN client[c].ch : \A i \in Owed(c, r) :
        i <= client[c].ch[p].id =>
            i \in Ids(client[c].got) \cup {client[c].ch[q].id : q \in 1..p}

Complete(c, r) ==
    \A i \in Owed(c, r) \ Unsent(r) : i \in Ids(client[c].got) \cup Ids(client[c].ch)

AtHomeInv(c, r) ==
    /\ client[c].since <= Len(numbered[r])
    /\ client[c].cursor \in Appended(r) \cup {0}
    /\ Ids(client[c].ch) \subseteq Appended(r)
    /\ NoneOvertaken(c, r)
    /\ HistorySorted(c, r)
    /\ HistoryReaches(c, r)
    /\ CompleteToCursor(c, r)
    /\ client[c].to = r => CompleteChannel(c, r) /\ Complete(c, r)

IInv ==
    /\ TypeOK
    /\ WorkersOK
    /\ \A r \in Replicas : HistoryOK(r)
    /\ \A c \in Clients : HomesOK(c)
    /\ \A c \in Clients, r \in Replicas :
         AtHome(c, r) /\ client[c].excuse = {} => AtHomeInv(c, r)

------------------------------------------------------------------------------
(* Ascending: every member of the set once, in order.                      *)

LEMMA RankOf ==
    ASSUME NEW S \in SUBSET Nat, IsFiniteSet(S), NEW i \in S
    PROVE  /\ Cardinality({j \in S : j <= i}) \in 1..Cardinality(S)
           /\ \A k \in S : i < k =>
                Cardinality({j \in S : j <= i}) < Cardinality({j \in S : j <= k})
<1> DEFINE Below(k) == {j \in S : j <= k}
<1>1. ASSUME NEW k \in S PROVE IsFiniteSet(Below(k)) /\ Cardinality(Below(k)) \in Nat
      /\ Cardinality(Below(k)) <= Cardinality(S)
  <2>1. Below(k) \in SUBSET S
    OBVIOUS
  <2> HIDE DEF Below
  <2> QED
    BY <2>1, FS_Subset, FS_CardinalityType
<1>2. Cardinality(Below(i)) # 0
  <2>1. Below(i) # {}
    OBVIOUS
  <2> HIDE DEF Below
  <2> QED
    BY <1>1, <2>1, FS_EmptySet
<1>3. ASSUME NEW k \in S, i < k PROVE Cardinality(Below(i)) < Cardinality(Below(k))
  <2>0. \A j \in S : j <= i => j <= k
    <3> SUFFICES ASSUME NEW j \in S, j <= i PROVE j <= k
      OBVIOUS
    <3>1. i \in Nat /\ j \in Nat /\ k \in Nat
      OBVIOUS
    <3> QED
      BY <1>3, <3>1
  <2>1. Below(i) \in SUBSET Below(k)
    BY <2>0
  <2>2. k \in Below(k) /\ k \notin Below(i)
    BY <1>3
  <2> HIDE DEF Below
  <2>3. IsFiniteSet(Below(k))
    BY <1>1
  <2>4. Cardinality(Below(i)) <= Cardinality(Below(k))
        /\ (Cardinality(Below(k)) = Cardinality(Below(i)) => Below(k) = Below(i))
    BY <2>1, <2>3, FS_Subset
  <2> QED
    BY <1>1, <2>2, <2>4
<1>4. Cardinality(S) \in Nat
  BY FS_CardinalityType
<1> QED
  BY <1>1, <1>2, <1>3, <1>4

(* Every rank is taken: the ranks are an injection of S into as many       *)
(* numbers as it has members.                                              *)
LEMMA RankTaken ==
    ASSUME NEW S \in SUBSET Nat, IsFiniteSet(S), NEW k \in 1..Cardinality(S)
    PROVE  \E i \in S : Cardinality({j \in S : j <= i}) = k
<1> DEFINE n == Cardinality(S)
           rank == [i \in S |-> Cardinality({j \in S : j <= i})]
<1>1. n \in Nat
  BY FS_CardinalityType
<1>2. rank \in [S -> 1..n]
  BY RankOf
<1>3. \A i, j \in S : rank[i] = rank[j] => i = j
  <2> SUFFICES ASSUME NEW i \in S, NEW j \in S, rank[i] = rank[j], i # j PROVE FALSE
    OBVIOUS
  <2>1. i < j \/ j < i
    OBVIOUS
  <2>2. rank[i] < rank[j] \/ rank[j] < rank[i]
    BY <2>1, RankOf
  <2>3. rank[i] \in 1..n /\ rank[j] \in 1..n
    BY <1>2
  <2> HIDE DEF rank, n
  <2> QED
    BY <2>2, <2>3, <1>1
<1>4. IsFiniteSet(1..n) /\ Cardinality(1..n) = n
  BY <1>1, FS_Interval
<1>5. rank \in Injection(S, 1..n)
  <2> HIDE DEF rank, n
  <2> QED
    BY <1>2, <1>3 DEF Injection, IsInjective
<1>6. rank \in Surjection(S, 1..n)
  <2> HIDE DEF rank
  <2>1. Cardinality(S) = Cardinality(1..n)
    BY <1>4
  <2> HIDE DEF n
  <2> QED
    BY <1>4, <1>5, <2>1, FS_Injection
<1>7. \E i \in S : rank[i] = k
  <2> HIDE DEF rank
  <2> QED
    BY <1>6 DEF Surjection
<1> QED
  BY <1>7

LEMMA AscendingOrder ==
    ASSUME NEW S \in SUBSET Nat, IsFiniteSet(S)
    PROVE  /\ Cardinality(S) \in Nat
           /\ Ascending(S) \in [1..Cardinality(S) -> S]
           /\ \A i \in S : \E k \in 1..Cardinality(S) : Ascending(S)[k] = i
           /\ \A p, q \in 1..Cardinality(S) : p < q => Ascending(S)[p] < Ascending(S)[q]
<1> DEFINE rank(i) == Cardinality({j \in S : j <= i})
           n == Cardinality(S)
<1>1. n \in Nat
  BY FS_CardinalityType
<1>2. \A i \in S : rank(i) \in 1..n
  BY RankOf
<1>3. \A i, k \in S : i < k => rank(i) < rank(k)
  BY RankOf
<1>4. \A k \in 1..n : \E i \in S : rank(i) = k
  BY RankTaken
<1>5. Ascending(S) = [k \in 1..n |-> CHOOSE i \in S : rank(i) = k]
  BY DEF Ascending
<1> HIDE DEF rank, n
<1>6. \A k \in 1..n : Ascending(S)[k] \in S /\ rank(Ascending(S)[k]) = k
  BY <1>4, <1>5
<1>7. Ascending(S) \in [1..n -> S]
  BY <1>5, <1>6
<1>8. \A i, k \in S : rank(i) = rank(k) => i = k
  <2> SUFFICES ASSUME NEW i \in S, NEW k \in S, rank(i) = rank(k), i # k PROVE FALSE
    OBVIOUS
  <2>1. i < k \/ k < i
    OBVIOUS
  <2> QED
    BY <2>1, <1>2, <1>3, <1>1
<1>9. \A i \in S : Ascending(S)[rank(i)] = i
  BY <1>2, <1>6, <1>8
<1>10. \A p, q \in 1..n : p < q => Ascending(S)[p] < Ascending(S)[q]
  <2> SUFFICES ASSUME NEW p \in 1..n, NEW q \in 1..n, p < q,
                      ~(Ascending(S)[p] < Ascending(S)[q])
               PROVE  FALSE
    OBVIOUS
  <2> DEFINE a == Ascending(S)[p]
             b == Ascending(S)[q]
  <2>1. a \in S /\ b \in S /\ rank(a) = p /\ rank(b) = q
    BY <1>6
  <2>2. a \in Nat /\ b \in Nat /\ ~(a < b)
    BY <2>1
  <2> HIDE DEF a, b
  <2>4. a = b \/ b < a
    BY <2>2
  <2>3. ~(q < p) /\ p # q
    BY <1>1
  <2> QED
    BY <2>1, <2>4, <2>3, <1>3
<1> QED
  BY <1>1, <1>2, <1>7, <1>9, <1>10 DEF n

LEMMA AscendingSeq ==
    ASSUME NEW S \in SUBSET Nat, IsFiniteSet(S)
    PROVE  Ascending(S) \in Seq(S) /\ Len(Ascending(S)) = Cardinality(S)
<1>1. Cardinality(S) \in Nat /\ Ascending(S) \in [1..Cardinality(S) -> S]
  BY AscendingOrder
<1> QED
  BY <1>1

LEMMA AscendingEvents ==
    ASSUME NEW S \in SUBSET Events
    PROVE  Ascending(S) \in Seq(Events) /\ (S # {} => Len(Ascending(S)) > 0)
<1>1. IsFiniteSet(S) /\ S \in SUBSET Nat
  BY EventsAssumption, FS_Subset
<1>2. Ascending(S) \in Seq(S) /\ Len(Ascending(S)) = Cardinality(S)
  BY <1>1, AscendingSeq
<1>3. Cardinality(S) \in Nat /\ (S # {} => Cardinality(S) # 0)
  BY <1>1, FS_CardinalityType, FS_EmptySet
<1> QED
  BY <1>2, <1>3

LEMMA FirstOfSeq ==
    ASSUME NEW queue \in Seq(Events), Len(queue) > 0
    PROVE  FirstOf(queue) \in Seq(Events) /\ FirstOf(queue) # <<>>
<1> DEFINE n == IF Len(queue) < Batch THEN Len(queue) ELSE Batch
<1>1. n \in 1..Len(queue)
  BY SizesAssumption
<1>2. FirstOf(queue) = SubSeq(queue, 1, n)
  BY DEF FirstOf
<1> HIDE DEF n
<1>3. FirstOf(queue) \in Seq(Events) /\ Len(FirstOf(queue)) = n
  BY <1>1, <1>2
<1> QED
  BY <1>1, <1>3

(* What is replayed: the entries newer than the number, in the order in    *)
(* which the history has them.                                             *)
NewerOnes(c, r, last, newer, kept) ==
    /\ kept \in [DOMAIN newer -> DOMAIN history[r]]
    /\ \A k \in DOMAIN kept : newer[k] = history[r][kept[k]] /\ newer[k].id > last
    /\ \A p \in DOMAIN history[r] :
         history[r][p].id > last /\ Matches(c, history[r][p].event)
           => \E k \in DOMAIN kept : kept[k] = p
    /\ \A j, k \in DOMAIN kept : j < k => kept[j] < kept[k]

LEMMA NewerOrder ==
    ASSUME NEW c \in Clients, NEW r \in Replicas, NEW last, history[r] \in Seq(Notice)
    PROVE  /\ Newer(c, r, last) \in Seq(Notice)
           /\ \E kept : NewerOnes(c, r, last, Newer(c, r, last), kept)
<1> DEFINE S == {i \in DOMAIN history[r] :
                   history[r][i].id > last /\ Matches(c, history[r][i].event)}
           kept == Ascending(S)
<1>1. DOMAIN history[r] = 1..Len(history[r]) /\ Len(history[r]) \in Nat
  OBVIOUS
<1>2. IsFiniteSet(DOMAIN history[r])
  <2> DEFINE n == Len(history[r])
  <2>1. n \in Nat /\ DOMAIN history[r] = 1..n
    BY <1>1
  <2> HIDE DEF n
  <2> QED
    BY <2>1, FS_Interval
<1>3. S \in SUBSET DOMAIN history[r] /\ S \in SUBSET Nat
  BY <1>1
<1>4. \A p \in DOMAIN history[r] :
        history[r][p].id > last /\ Matches(c, history[r][p].event) => p \in S
  OBVIOUS
<1>5. Newer(c, r, last) = [k \in DOMAIN kept |-> history[r][kept[k]]]
  BY DEF Newer
<1> HIDE DEF S
<1>6. IsFiniteSet(S)
  BY <1>2, <1>3, FS_Subset
<1>7. /\ Cardinality(S) \in Nat
      /\ kept \in [1..Cardinality(S) -> S]
      /\ \A i \in S : \E k \in 1..Cardinality(S) : kept[k] = i
      /\ \A p, q \in 1..Cardinality(S) : p < q => kept[p] < kept[q]
  BY <1>3, <1>6, AscendingOrder
<1> HIDE DEF kept
<1>8. DOMAIN kept = 1..Cardinality(S) /\ kept \in [DOMAIN kept -> DOMAIN history[r]]
  BY <1>7, <1>3
<1>9. \A k \in DOMAIN kept : history[r][kept[k]] \in Notice
  BY <1>8
<1>10. Newer(c, r, last) \in [1..Cardinality(S) -> Notice]
  BY <1>5, <1>8, <1>9
<1>11. Newer(c, r, last) \in Seq(Notice)
  BY <1>10, <1>7
<1>12. DOMAIN Newer(c, r, last) = DOMAIN kept
  BY <1>5
<1>13. \A k \in DOMAIN kept : /\ Newer(c, r, last)[k] = history[r][kept[k]]
                              /\ history[r][kept[k]].id > last
  BY <1>5, <1>7 DEF S
<1>14. \A p \in DOMAIN history[r] :
         history[r][p].id > last /\ Matches(c, history[r][p].event)
           => \E k \in DOMAIN kept : kept[k] = p
  BY <1>4, <1>7, <1>8
<1>15. \A j, k \in DOMAIN kept : j < k => kept[j] < kept[k]
  BY <1>7, <1>8
<1> QED
  BY <1>8, <1>11, <1>12, <1>13, <1>14, <1>15 DEF NewerOnes
------------------------------------------------------------------------------
(* Types.                                                                  *)

LEMMA WorkerPlace == \A w \in Workers : w[1] \in Replicas
BY DEF Workers

LEMMA CurrentType ==
    ASSUME TypeOK, WorkersOK, NEW w \in Workers, Busy(w)
    PROVE  Current(w) \in Notice /\ Head(worker[w].hand) \in Events
<1>1. worker[w].hand \in Seq(Events) /\ worker[w].hand # <<>> /\ worker[w].id \in Nat
  BY DEF TypeOK, WorkersOK, WorkerRecord
<1>2. Head(worker[w].hand) \in Events
  BY <1>1
<1> QED
  BY <1>1, <1>2 DEF Current, Notice

LEMMA NewestIs ==
    ASSUME NEW T, NEW h \in Seq(T), NEW n \in Nat, Len(h) <= n + 1
    PROVE  /\ Newest(n, h) \in Seq(T)
           /\ Len(h) <= n => Newest(n, h) = h
           /\ Len(h) = n + 1 => /\ Len(Newest(n, h)) = n
                                /\ \A k \in 1..n : Newest(n, h)[k] = h[k + 1]
<1>1. Len(h) \in Nat
  OBVIOUS
<1>2. CASE Len(h) <= n
  BY <1>1, <1>2 DEF Newest
<1>3. CASE Len(h) = n + 1
  <2>1. Newest(n, h) = SubSeq(h, 2, n + 1)
    BY <1>3 DEF Newest
  <2>2. SubSeq(h, 2, n + 1) \in Seq(T) /\ Len(SubSeq(h, 2, n + 1)) = n
    BY <1>3
  <2>3. \A k \in 1..n : SubSeq(h, 2, n + 1)[k] = h[k + 1]
    BY <1>3
  <2> QED
    BY <1>3, <2>1, <2>2, <2>3
<1> QED
  BY <1>1, <1>2, <1>3

LEMMA InitType == Init => TypeOK
<1> SUFFICES ASSUME Init PROVE TypeOK
  OBVIOUS
<1>1. worker \in [Workers -> WorkerRecord]
  <2>1. Idle \in WorkerRecord
    BY DEF Idle, WorkerRecord
  <2> QED
    BY <2>1 DEF Init
<1>2. client \in [Clients -> ClientRecord]
  BY DEF Init, ClientRecord, Places, Hubs
<1>3. numbered \in [Replicas -> Seq(Events)] /\ history \in [Replicas -> Seq(Notice)]
      /\ boots \in [Replicas -> Nat]
  BY DEF Init
<1> QED
  BY <1>1, <1>2, <1>3 DEF TypeOK

LEMMA FinishType ==
    ASSUME TypeOK, NEW w \in Workers, worker[w].hand # <<>>, NEW s, Finish(w, s)
    PROVE  /\ worker' \in [Workers -> WorkerRecord]
           /\ \A v \in Workers \ {w} : worker'[v] = worker[v]
           /\ worker'[w].stage \in {"idle", "handle"}
           /\ worker'[w].stage = "handle" => worker'[w].hand # <<>>
<1> DEFINE h == worker[w].hand
           rec == [stage |-> IF Len(h) = 1 THEN "idle" ELSE "handle", hand |-> Tail(h), id |-> 0]
<1>1. worker' = [worker EXCEPT ![w] = rec]
  BY DEF Finish
<1>2. h \in Seq(Events) /\ h # <<>>
  BY DEF TypeOK, WorkerRecord
<1>3. Tail(h) \in Seq(Events) /\ (Len(h) # 1 => Tail(h) # <<>>)
  <2> HIDE DEF h
  <2> DEFINE rest == Tail(h)
  <2>1. rest \in Seq(Events) /\ Len(rest) = Len(h) - 1 /\ Len(h) \in Nat
    BY <1>2, HeadTailProperties
  <2>2. Len(<<>>) = 0
    OBVIOUS
  <2> HIDE DEF rest
  <2>3. rest \in Seq(Events) /\ (Len(h) # 1 => rest # <<>>)
    BY <2>1, <2>2
  <2> QED
    BY <2>3 DEF rest
<1>4. rec \in WorkerRecord /\ (rec.stage = "handle" => rec.hand # <<>>)
      /\ rec.stage \in {"idle", "handle"}
  <2> HIDE DEF h
  <2> QED
    BY <1>3 DEF WorkerRecord
<1> HIDE DEF rec
<1> QED
  BY <1>1, <1>4 DEF TypeOK

LEMMA ReplayOrder ==
    ASSUME TypeOK, NEW c \in Clients, NEW r \in Replicas, NEW last
    PROVE  Replay(c, r, last) \in Seq(Notice)
<1>1. Newer(c, r, last) \in Seq(Notice)
  BY NewerOrder DEF TypeOK
<1> QED
  BY <1>1 DEF Replay

(* What Connect makes of a client, by its two cases.                       *)
LEMMA ConnectEffect ==
    ASSUME TypeOK, NEW c \in Clients, NEW r \in Replicas, NEW remember \in BOOLEAN,
           Connect(c, r, remember)
    PROVE  /\ \A d \in Clients \ {c} : client'[d] = client[d]
           /\ client'[c] \in ClientRecord
           /\ client'[c].to = r
           /\ \/ /\ client'[c].cursor = 0 /\ client'[c].got = <<>> /\ client'[c].ch = <<>>
                 /\ client'[c].home = <<r, boots[r]>> /\ client'[c].since = Len(numbered[r])
              \/ /\ client[c].cursor > 0
                 /\ client'[c].cursor = client[c].cursor /\ client'[c].got = client[c].got
                 /\ client'[c].home = client[c].home /\ client'[c].since = client[c].since
                 /\ client'[c].excuse = {} =>
                      /\ client[c].excuse = {} /\ AtHome(c, r)
                      /\ ~OutOfReach(r, client[c].cursor)
                      /\ client'[c].ch = Newer(c, r, client[c].cursor)
           /\ client'[c].cursor = 0 => client'[c].resumed = FALSE
           /\ client'[c].cursor # 0 =>
                /\ client'[c].resumed = TRUE
                /\ Plain(c)' => Plain(c) /\ AtHome(c, r)
                /\ \E n \in 0..Len(Newer(c, r, client[c].cursor)) :
                     client'[c].ch = SubSeq(Newer(c, r, client[c].cursor), 1, n)
<1> DEFINE cl == client[c]
           last == IF remember THEN cl.cursor ELSE 0
           replay == Replay(c, r, last)
           n == IF Len(replay) < BufferSize THEN Len(replay) ELSE BufferSize
           fits == SubSeq(replay, 1, n)
           count == cl.connects + 1
           here == [cl EXCEPT !.to = r, !.ch = fits, !.connects = count]
           hub == <<r, boots[r]>>
           numbers == Len(numbered[r])
           nothing == <<>>
           new == [here EXCEPT !.cursor = 0, !.got = nothing, !.home = hub,
                               !.since = numbers, !.resumed = FALSE, !.excuse = {}]
           excuse == cl.excuse \cup (IF AtHome(c, r) THEN {} ELSE {"moved"})
                       \cup (IF fits = replay THEN {} ELSE {"overflow"})
                       \cup (IF OutOfReach(r, last) THEN {"trimmed"} ELSE {})
           again == [here EXCEPT !.resumed = TRUE, !.excuse = excuse]
<1>1. cl \in ClientRecord /\ boots[r] \in Nat /\ Len(numbered[r]) \in Nat
  BY DEF TypeOK
<1>2. replay \in Seq(Notice)
  BY ReplayOrder
<1>3. client' = [client EXCEPT ![c] = IF last = 0 THEN new ELSE again]
  BY DEF Connect
<1>4. fits \in Seq(Notice) /\ (replay = <<>> => fits = <<>>) /\ n \in 0..Len(replay)
  <2> HIDE DEF replay
  <2>1. n \in 0..Len(replay)
    BY <1>2, SizesAssumption
  <2> HIDE DEF n
  <2> QED
    BY <1>2, <2>1
<1>5. excuse \in SUBSET Incidents
  <2>1. cl.excuse \in SUBSET Incidents
    BY <1>1 DEF ClientRecord
  <2> HIDE DEF fits, replay, last, cl
  <2> QED
    BY <2>1 DEF Incidents
<1>6. r \in Places
  BY DEF Places
<1>9. <<r, boots[r]>> \in Places \X Nat
  BY <1>1, <1>6
<1>11. numbers \in Nat /\ hub \in Hubs
  BY <1>1, <1>9 DEF Hubs
<1>12. count \in Nat /\ fits \in Seq(Notice) /\ nothing \in Seq(Notice)
  BY <1>1, <1>4 DEF ClientRecord
<1>10. here \in ClientRecord
  <2> HIDE DEF cl, fits, count
  <2> QED
    BY <1>1, <1>12, <1>6 DEF ClientRecord
<1>7. CASE last = 0
  <2>1. fits = <<>>
    BY <1>4, <1>7 DEF Replay
  <2>2. client'[c] = new
    BY <1>3, <1>7 DEF TypeOK
  <2> HIDE DEF fits, last
  <2>3. new \in ClientRecord
    <3> HIDE DEF here, cl, hub, numbers, nothing
    <3> QED
      BY <1>11, <1>12, <1>10 DEF ClientRecord
  <2>4. new.to = r /\ new.cursor = 0 /\ new.got = <<>> /\ new.ch = <<>>
        /\ new.home = <<r, boots[r]>> /\ new.since = Len(numbered[r]) /\ new.resumed = FALSE
    BY <1>1, <2>1 DEF ClientRecord
  <2> HIDE DEF new
  <2> QED
    BY <1>3, <2>2, <2>3, <2>4 DEF TypeOK
<1>8. CASE last # 0
  <2>1. last = cl.cursor /\ cl.cursor \in Nat
    BY <1>1, <1>8 DEF ClientRecord
  <2>2. client'[c] = again
    BY <1>3, <1>8 DEF TypeOK
  <2>3. replay = Newer(c, r, cl.cursor)
    BY <1>8, <2>1 DEF Replay
  <2>4. excuse = {} => /\ cl.excuse = {} /\ AtHome(c, r) /\ fits = replay
                       /\ ~OutOfReach(r, cl.cursor)
    <3> HIDE DEF fits, replay, cl
    <3> QED
      BY <2>1
  <2>8. "overlap" \notin excuse /\ "moved" \notin excuse =>
          "overlap" \notin cl.excuse /\ "moved" \notin cl.excuse /\ AtHome(c, r)
    <3> HIDE DEF fits, replay, cl
    <3> QED
      OBVIOUS
  <2>9. \E k \in 0..Len(Newer(c, r, cl.cursor)) : fits = SubSeq(Newer(c, r, cl.cursor), 1, k)
    <3>1. n \in 0..Len(replay) /\ fits = SubSeq(replay, 1, n)
      BY <1>4
    <3> HIDE DEF replay, n, fits
    <3> QED
      BY <2>3, <3>1
  <2> HIDE DEF fits, last, excuse
  <2>5. again \in ClientRecord
    <3> HIDE DEF here
    <3> QED
      BY <1>5, <1>10 DEF ClientRecord, excuse
  <2>6. again.to = r /\ again.cursor = cl.cursor /\ again.got = cl.got /\ again.ch = fits
        /\ again.home = cl.home /\ again.since = cl.since /\ again.excuse = excuse
        /\ again.resumed = TRUE
    BY <1>1 DEF ClientRecord
  <2>7. cl.cursor > 0
    BY <1>8, <2>1
  <2> HIDE DEF again, replay
  <2>10. Plain(c)' => Plain(c) /\ AtHome(c, r)
    BY <2>2, <2>6, <2>8 DEF Plain
  <2>11. \E k \in 0..Len(Newer(c, r, cl.cursor)) :
           client'[c].ch = SubSeq(Newer(c, r, cl.cursor), 1, k)
    BY <2>2, <2>6, <2>9
  <2>12. \A d \in Clients \ {c} : client'[d] = client[d]
    BY <1>3
  <2>13. /\ client'[c] \in ClientRecord /\ client'[c].to = r /\ client[c].cursor > 0
         /\ client'[c].cursor = client[c].cursor /\ client'[c].got = client[c].got
         /\ client'[c].home = client[c].home /\ client'[c].since = client[c].since
         /\ client'[c].resumed = TRUE
    BY <2>2, <2>5, <2>6, <2>7
  <2>14. client'[c].excuse = {} => /\ client[c].excuse = {} /\ AtHome(c, r)
                                  /\ ~OutOfReach(r, client[c].cursor)
                                  /\ client'[c].ch = Newer(c, r, client[c].cursor)
    BY <2>2, <2>3, <2>4, <2>6
  <2>15. client'[c].cursor # 0
    BY <1>1, <2>13 DEF ClientRecord
  <2> QED
    BY <2>10, <2>11, <2>12, <2>13, <2>14, <2>15
<1> QED
  BY <1>7, <1>8
(* What the other steps make of a client.                                  *)
LEMMA ExcusedEffect ==
    ASSUME NEW c \in Clients, client[c] \in ClientRecord, NEW S \in SUBSET Incidents
    PROVE  /\ Excused(c, S) \in ClientRecord
           /\ Excused(c, S).to = client[c].to /\ Excused(c, S).home = client[c].home
           /\ Excused(c, S).ch = client[c].ch
           /\ Excused(c, S).excuse = client[c].excuse \cup S
<1> DEFINE cl == client[c]
           more == cl.excuse \cup S
<1>1. more \in SUBSET Incidents
  BY DEF ClientRecord
<1>2. Excused(c, S) = [cl EXCEPT !.excuse = more]
  BY DEF Excused
<1>3. cl \in ClientRecord
  OBVIOUS
<1>4. Excused(c, S) \in ClientRecord
  <2> HIDE DEF cl, more
  <2> QED
    BY <1>1, <1>2, <1>3 DEF ClientRecord
<1>5. Excused(c, S).to = client[c].to /\ Excused(c, S).home = client[c].home
      /\ Excused(c, S).ch = client[c].ch /\ Excused(c, S).excuse = more
  <2> HIDE DEF more
  <2> QED
    BY <1>2, <1>3 DEF ClientRecord
<1> QED
  BY <1>4, <1>5

LEMMA AppendHistoryEffect ==
    ASSUME TypeOK, NEW w \in Workers, AppendHistory(w), NEW c \in Clients
    PROVE  /\ client'[c] \in ClientRecord
           /\ client'[c].to = client[c].to /\ client'[c].home = client[c].home
           /\ client'[c].excuse = {} => /\ client'[c] = client[c]
                                        /\ AtHome(c, w[1]) => ~Overtakes(w)
           /\ Plain(c)' => /\ client'[c] = client[c]
                           /\ AtHome(c, w[1]) => ~Overtakes(w)
<1>1. client[c] \in ClientRecord
  BY DEF TypeOK
<1>2. client'[c] = IF Overtakes(w) /\ AtHome(c, w[1]) THEN Excused(c, {"overlap"}) ELSE client[c]
  BY DEF AppendHistory
<1>3. {"overlap"} \in SUBSET Incidents
  BY DEF Incidents
<1> DEFINE x == Excused(c, {"overlap"})
<1>4. x \in ClientRecord /\ x.to = client[c].to /\ x.home = client[c].home
      /\ "overlap" \in x.excuse
  BY <1>1, <1>3, ExcusedEffect
<1> HIDE DEF x
<1> QED
  BY <1>1, <1>2, <1>4 DEF x, Plain

LEMMA PushEffect ==
    ASSUME NEW cl \in ClientRecord, NEW n \in Notice
    PROVE  /\ Push(cl, n) \in ClientRecord
           /\ Push(cl, n).to = cl.to /\ Push(cl, n).home = cl.home
           /\ cl.excuse \subseteq Push(cl, n).excuse
           /\ Push(cl, n).excuse = {} => Push(cl, n) = [cl EXCEPT !.ch = Append(cl.ch, n)]
<1> DEFINE more == cl.excuse \cup {"overflow"}
           longer == Append(cl.ch, n)
<1>1. more \in SUBSET Incidents /\ more # {} /\ cl.excuse \subseteq more
  BY DEF ClientRecord, Incidents
<1>2. longer \in Seq(Notice)
  BY DEF ClientRecord
<1>3. Push(cl, n) = [cl EXCEPT !.ch = longer] \/ Push(cl, n) = [cl EXCEPT !.excuse = more]
  BY DEF Push
<1> HIDE DEF more, longer
<1>4. CASE Push(cl, n) = [cl EXCEPT !.ch = longer]
  BY <1>2, <1>4 DEF ClientRecord, longer
<1>5. CASE Push(cl, n) = [cl EXCEPT !.excuse = more]
  <2>1. [cl EXCEPT !.excuse = more] \in ClientRecord
    BY <1>1 DEF ClientRecord
  <2>2. /\ [cl EXCEPT !.excuse = more].to = cl.to /\ [cl EXCEPT !.excuse = more].home = cl.home
        /\ [cl EXCEPT !.excuse = more].excuse = more
    BY <1>1 DEF ClientRecord
  <2> QED
    BY <1>1, <1>5, <2>1, <2>2
<1> QED
  BY <1>3, <1>4, <1>5

LEMMA SendEffect ==
    ASSUME TypeOK, NEW w \in Workers, Current(w) \in Notice, Send(w), NEW c \in Clients
    PROVE  /\ client'[c] \in ClientRecord
           /\ client'[c].to = client[c].to /\ client'[c].home = client[c].home
           /\ client'[c].excuse = {} =>
                /\ client[c].excuse = {}
                /\ AtHome(c, w[1]) => ~Overtakes(w)
                /\ client'[c] = IF client[c].to = w[1] /\ Matches(c, Head(worker[w].hand))
                                THEN [client[c] EXCEPT !.ch = Append(client[c].ch, Current(w))]
                                ELSE client[c]
<1> DEFINE late == IF Overtakes(w) /\ AtHome(c, w[1]) THEN Excused(c, {"overlap"}) ELSE client[c]
           sent == client[c].to = w[1] /\ Matches(c, Head(worker[w].hand))
           n == Current(w)
<1>1. client[c] \in ClientRecord
  BY DEF TypeOK
<1>2. client'[c] = IF sent THEN Push(late, n) ELSE late
  BY DEF Send
<1>3. {"overlap"} \in SUBSET Incidents
  BY DEF Incidents
<1> DEFINE x == Excused(c, {"overlap"})
<1>4. /\ x \in ClientRecord /\ x.to = client[c].to /\ x.home = client[c].home /\ x.excuse # {}
  BY <1>1, <1>3, ExcusedEffect
<1>5. late \in ClientRecord /\ late.to = client[c].to /\ late.home = client[c].home
      /\ (late.excuse = {} => late = client[c] /\ (AtHome(c, w[1]) => ~Overtakes(w)))
  <2> HIDE DEF x
  <2> QED
    BY <1>1, <1>4 DEF x
<1> HIDE DEF late, sent, n, x
<1>6. n \in Notice
  BY DEF n
<1>7. /\ Push(late, n) \in ClientRecord
      /\ Push(late, n).to = late.to /\ Push(late, n).home = late.home
      /\ late.excuse \subseteq Push(late, n).excuse
      /\ Push(late, n).excuse = {} => Push(late, n) = [late EXCEPT !.ch = Append(late.ch, n)]
  BY <1>5, <1>6, PushEffect
<1>8. CASE sent
  <2>1. client'[c] = Push(late, n)
    BY <1>2, <1>8
  <2>2. client'[c].excuse = {} => late.excuse = {}
    BY <1>7, <2>1
  <2> QED
    BY <1>5, <1>7, <1>8, <2>1, <2>2 DEF sent, n
<1>9. CASE ~sent
  BY <1>2, <1>5, <1>9 DEF sent
<1> QED
  BY <1>8, <1>9

LEMMA PushKeeps ==
    ASSUME NEW cl \in ClientRecord, NEW n \in Notice
    PROVE  /\ Push(cl, n).got = cl.got /\ Push(cl, n).cursor = cl.cursor
           /\ Push(cl, n).resumed = cl.resumed
           /\ Push(cl, n).ch = cl.ch \/ Push(cl, n).ch = Append(cl.ch, n)
<1> DEFINE more == cl.excuse \cup {"overflow"}
           longer == Append(cl.ch, n)
<1>1. Push(cl, n) = [cl EXCEPT !.ch = longer] \/ Push(cl, n) = [cl EXCEPT !.excuse = more]
  BY DEF Push
<1> HIDE DEF more, longer
<1> QED
  BY <1>1 DEF ClientRecord, longer

LEMMA SendPlain ==
    ASSUME TypeOK, NEW w \in Workers, Current(w) \in Notice, Send(w), NEW c \in Clients,
           Plain(c)'
    PROVE  /\ Plain(c)
           /\ AtHome(c, w[1]) => ~Overtakes(w)
           /\ client'[c].got = client[c].got /\ client'[c].cursor = client[c].cursor
           /\ client'[c].resumed = client[c].resumed
           /\ \/ client'[c].ch = client[c].ch
              \/ /\ client[c].to = w[1]
                 /\ client'[c].ch = Append(client[c].ch, Current(w))
<1> DEFINE overlap == Overtakes(w) /\ AtHome(c, w[1])
           x == Excused(c, {"overlap"})
           late == IF overlap THEN x ELSE client[c]
           sent == client[c].to = w[1] /\ Matches(c, Head(worker[w].hand))
           n == Current(w)
<1>1. client[c] \in ClientRecord /\ n \in Notice
  BY DEF TypeOK
<1>2. client'[c] = IF sent THEN Push(late, n) ELSE late
  BY DEF Send
<1>3. x \in ClientRecord /\ "overlap" \in x.excuse
  <2>1. {"overlap"} \in SUBSET Incidents
    BY DEF Incidents
  <2> QED
    BY <1>1, <2>1, ExcusedEffect
<1>4. Plain(c)' => "overlap" \notin client'[c].excuse /\ "moved" \notin client'[c].excuse
  BY DEF Plain
<1> HIDE DEF x, n, overlap, sent
<1>5. late \in ClientRecord
  BY <1>1, <1>3
<1>6. /\ late.excuse \subseteq Push(late, n).excuse
      /\ Push(late, n).got = late.got /\ Push(late, n).cursor = late.cursor
      /\ Push(late, n).resumed = late.resumed
      /\ Push(late, n).ch = late.ch \/ Push(late, n).ch = Append(late.ch, n)
  <2> HIDE DEF late
  <2> QED
    BY <1>1, <1>5, PushEffect, PushKeeps
<1>7. "overlap" \notin late.excuse /\ "moved" \notin late.excuse
  BY <1>2, <1>4, <1>6
<1>8. ~overlap /\ late = client[c]
  BY <1>3, <1>7
<1>9. Plain(c)
  BY <1>7, <1>8 DEF Plain
<1> HIDE DEF late
<1> QED
  BY <1>2, <1>6, <1>8, <1>9 DEF overlap, sent, n

LEMMA WriteEffect ==
    ASSUME TypeOK, NEW c \in Clients, Write(c)
    PROVE  /\ \A d \in Clients \ {c} : client'[d] = client[d]
           /\ client'[c] \in ClientRecord
           /\ client[c].to # NoReplica /\ client[c].ch \in Seq(Notice) /\ client[c].ch # <<>>
           /\ client[c].got \in Seq(Notice)
           /\ client'[c].ch = Tail(client[c].ch)
           /\ client'[c].got = Append(client[c].got, Head(client[c].ch))
           /\ client'[c].cursor = Head(client[c].ch).id
           /\ client'[c].to = client[c].to /\ client'[c].home = client[c].home
           /\ client'[c].since = client[c].since /\ client'[c].excuse = client[c].excuse
           /\ client'[c].resumed = client[c].resumed
<1> DEFINE cl == client[c]
           rest == Tail(cl.ch)
           longer == Append(cl.got, Head(cl.ch))
           number == Head(cl.ch).id
           new == [cl EXCEPT !.ch = rest, !.got = longer, !.cursor = number]
<1>1. cl \in ClientRecord
  BY DEF TypeOK
<1>2. client' = [client EXCEPT ![c] = new]
  BY DEF Write
<1>3. cl.to # NoReplica /\ cl.ch # <<>> /\ cl.ch \in Seq(Notice) /\ cl.got \in Seq(Notice)
  BY <1>1 DEF Write, ClientRecord
<1>4. rest \in Seq(Notice) /\ Head(cl.ch) \in Notice
  <2> HIDE DEF cl
  <2> QED
    BY <1>3, HeadTailProperties
<1>5. longer \in Seq(Notice) /\ number \in Nat
  BY <1>3, <1>4 DEF Notice
<1>6. new \in ClientRecord
  <2> HIDE DEF cl, rest, longer, number
  <2> QED
    BY <1>1, <1>4, <1>5 DEF ClientRecord
<1>7. /\ new.ch = rest /\ new.got = longer /\ new.cursor = number /\ new.to = cl.to
      /\ new.home = cl.home /\ new.since = cl.since /\ new.excuse = cl.excuse
      /\ new.resumed = cl.resumed
  <2> HIDE DEF cl, rest, longer, number
  <2> QED
    BY <1>1 DEF ClientRecord
<1>8. client'[c] = new /\ \A d \in Clients \ {c} : client'[d] = client[d]
  <2> HIDE DEF new
  <2> QED
    BY <1>2 DEF TypeOK
<1> HIDE DEF new
<1> QED
  BY <1>3, <1>6, <1>7, <1>8

LEMMA GoneEffect ==
    ASSUME NEW cl \in ClientRecord
    PROVE  /\ Gone(cl) \in ClientRecord
           /\ Gone(cl).to = NoReplica /\ Gone(cl).ch = <<>>
           /\ Gone(cl).home = cl.home /\ Gone(cl).since = cl.since
           /\ Gone(cl).cursor = cl.cursor /\ Gone(cl).got = cl.got /\ Gone(cl).excuse = cl.excuse
           /\ Gone(cl).resumed = cl.resumed
<1> DEFINE nothing == <<>>
<1>1. nothing \in Seq(Notice) /\ NoReplica \in Places
  BY DEF Places
<1>2. Gone(cl) = [cl EXCEPT !.to = NoReplica, !.ch = nothing]
  BY DEF Gone
<1> HIDE DEF nothing
<1>3. Gone(cl) \in ClientRecord
  BY <1>1, <1>2 DEF ClientRecord
<1>4. /\ Gone(cl).to = NoReplica /\ Gone(cl).ch = nothing
      /\ Gone(cl).home = cl.home /\ Gone(cl).since = cl.since
      /\ Gone(cl).cursor = cl.cursor /\ Gone(cl).got = cl.got /\ Gone(cl).excuse = cl.excuse
      /\ Gone(cl).resumed = cl.resumed
  BY <1>2 DEF ClientRecord
<1> QED
  BY <1>3, <1>4 DEF nothing

(* The effect of each step on the workers.                                 *)
LEMMA WorkersTyped ==
    ASSUME TypeOK, WorkersOK, NEW w \in Workers, Step(w) \/ FetchFails(w)
    PROVE  /\ worker' \in [Workers -> WorkerRecord]
           /\ \A v \in Workers \ {w} : worker'[v] = worker[v]
           /\ worker'[w].stage = "handle" => worker'[w].hand # <<>>
<1> DEFINE rec == worker[w]
<1>1. rec \in WorkerRecord
  BY DEF TypeOK
<1>2. CASE Fetch(w)
  <2> DEFINE again == {e \in Events : stream[e] = "again" /\ DurableOf[e] = w[2]}
             waiting == {e \in Events : stream[e] = "waiting" /\ DurableOf[e] = w[2]}
             queue(early) == Ascending(early) \o Ascending(again \ early) \o Ascending(waiting)
  <2>1. again \in SUBSET Events /\ waiting \in SUBSET Events
    OBVIOUS
  <2>2. /\ again \cup waiting # {}
        /\ \E early \in SUBSET again :
             worker' = [worker EXCEPT ![w].stage = "handle", ![w].hand = FirstOf(queue(early))]
    BY <1>2 DEF Fetch
  <2> HIDE DEF again, waiting, queue
  <2>3. PICK early \in SUBSET again :
             worker' = [worker EXCEPT ![w].stage = "handle", ![w].hand = FirstOf(queue(early))]
    BY <2>2
  <2>4. queue(early) \in Seq(Events) /\ Len(queue(early)) > 0
    <3> DEFINE a == Ascending(early)
               b == Ascending(again \ early)
               c == Ascending(waiting)
    <3>1. early \in SUBSET Events /\ again \ early \in SUBSET Events
      BY <2>1
    <3>2. a \in Seq(Events) /\ b \in Seq(Events) /\ c \in Seq(Events)
      BY <2>1, <3>1, AscendingEvents
    <3>3. early # {} \/ again \ early # {} \/ waiting # {}
      BY <2>2
    <3>4. Len(a) > 0 \/ Len(b) > 0 \/ Len(c) > 0
      BY <2>1, <3>1, <3>3, AscendingEvents
    <3>5. queue(early) = a \o b \o c
      BY DEF queue
    <3> HIDE DEF a, b, c
    <3> QED
      BY <3>2, <3>4, <3>5
  <2> DEFINE taken == FirstOf(queue(early))
  <2>5. taken \in Seq(Events) /\ taken # <<>>
    BY <2>4, FirstOfSeq
  <2>6. worker' = [worker EXCEPT ![w].stage = "handle", ![w].hand = taken]
    BY <2>3
  <2> HIDE DEF taken
  <2> QED
    BY <1>1, <2>5, <2>6 DEF TypeOK, WorkerRecord
<1>3. CASE FetchFails(w)
  BY <1>1, <1>3 DEF FetchFails, TypeOK, WorkerRecord
<1>4. CASE Nak(w)
  <2>1. worker[w].hand # <<>> /\ Finish(w, "again")
    BY <1>4 DEF Nak, WorkersOK
  <2> QED
    BY <2>1, FinishType
<1>5. CASE Ack(w)
  <2>1. worker[w].hand # <<>> /\ Finish(w, "acked")
    BY <1>5 DEF Ack, WorkersOK, Busy
  <2> QED
    BY <2>1, FinishType
<1>6. CASE NextID(w)
  <2> DEFINE n == Len(numbered[w[1]]) + 1
  <2>1. n \in Nat
    BY WorkerPlace DEF TypeOK
  <2>2. worker' = [worker EXCEPT ![w].stage = "append", ![w].id = n]
    BY <1>6 DEF NextID
  <2> HIDE DEF n
  <2> QED
    BY <1>1, <2>1, <2>2 DEF TypeOK, WorkerRecord
<1>7. CASE AppendHistory(w)
  BY <1>1, <1>7 DEF AppendHistory, TypeOK, WorkerRecord
<1>8. CASE Send(w)
  BY <1>1, <1>8 DEF Send, TypeOK, WorkerRecord
<1> QED
  BY <1>2, <1>3, <1>4, <1>5, <1>6, <1>7, <1>8 DEF Step
------------------------------------------------------------------------------
(* Numbers in flight.                                                      *)

LEMMA InFlightKept ==
    ASSUME NEW w \in Workers, \A v \in Workers \ {w} : worker'[v] = worker[v],
           NEW stages, NEW r,
           \/ worker[w].stage \notin stages /\ worker'[w].stage \notin stages
           \/ /\ worker[w].stage \in stages /\ worker'[w].stage \in stages
              /\ worker'[w].id = worker[w].id
           \/ w[1] # r
    PROVE  InFlight(r, stages)' = InFlight(r, stages)
BY DEF InFlight

LEMMA InFlightGains ==
    ASSUME NEW w \in Workers, \A v \in Workers \ {w} : worker'[v] = worker[v],
           NEW stages, worker[w].stage \notin stages, worker'[w].stage \in stages
    PROVE  InFlight(w[1], stages)' = InFlight(w[1], stages) \cup {worker'[w].id}
BY DEF InFlight

LEMMA InFlightLoses ==
    ASSUME NEW w \in Workers, \A v \in Workers \ {w} : worker'[v] = worker[v],
           NEW stages, worker[w].stage \in stages, worker'[w].stage \notin stages,
           \A v \in Workers : v # w /\ v[1] = w[1] /\ worker[v].stage \in stages
                                => worker[v].id # worker[w].id
    PROVE  InFlight(w[1], stages)' = InFlight(w[1], stages) \ {worker[w].id}
BY DEF InFlight

LEMMA InFlightNumbered ==
    ASSUME TypeOK, WorkersOK, NEW r \in Replicas
    PROVE  /\ InFlight(r, {"append"}) \subseteq Unsent(r)
           /\ Unsent(r) \subseteq 1..Len(numbered[r])
           /\ Appended(r) \subseteq 1..Len(numbered[r])
           /\ Len(numbered[r]) \in Nat
<1>1. Len(numbered[r]) \in Nat
  BY DEF TypeOK
<1>2. InFlight(r, {"append"}) \subseteq Unsent(r)
  BY DEF InFlight, Unsent
<1>3. Unsent(r) \subseteq 1..Len(numbered[r])
  BY DEF InFlight, Unsent, WorkersOK, Busy
<1> QED
  BY <1>1, <1>2, <1>3 DEF Appended

(* A worker about to append holds a number that is not appended; one about *)
(* to send holds one that is; no other worker holds it.                    *)
LEMMA OwnNumber ==
    ASSUME TypeOK, WorkersOK, NEW w \in Workers, Busy(w)
    PROVE  /\ worker[w].id \in 1..Len(numbered[w[1]])
           /\ numbered[w[1]][worker[w].id] = Head(worker[w].hand)
           /\ \A v \in Workers : v # w /\ v[1] = w[1] /\ Busy(v) => worker[v].id # worker[w].id
           /\ worker[w].stage = "append" =>
                worker[w].id \notin Appended(w[1]) /\ worker[w].id \in Unsent(w[1])
           /\ worker[w].stage = "send" =>
                worker[w].id \in Appended(w[1]) /\ worker[w].id \in Unsent(w[1])
<1>1. \A v \in Workers : v # w /\ v[1] = w[1] /\ Busy(v) => worker[v].id # worker[w].id
  BY DEF WorkersOK
<1>2. /\ worker[w].id \in 1..Len(numbered[w[1]])
      /\ numbered[w[1]][worker[w].id] = Head(worker[w].hand)
  BY DEF WorkersOK
<1>3. worker[w].stage \in {"append", "send"} => worker[w].id \in Unsent(w[1])
  BY DEF Unsent, InFlight
<1>4. worker[w].stage = "append" => worker[w].id \in InFlight(w[1], {"append"})
  BY DEF InFlight
<1>5. worker[w].stage = "send" => worker[w].id \notin InFlight(w[1], {"append"})
  BY <1>1 DEF InFlight, Busy
<1> QED
  BY <1>1, <1>2, <1>3, <1>4, <1>5 DEF Appended

(* Steps that leave a replica's numbers, history and broadcasts alone.     *)
SameHub(r) ==
    /\ numbered'[r] = numbered[r] /\ history'[r] = history[r]
    /\ InFlight(r, {"append"})' = InFlight(r, {"append"})
    /\ InFlight(r, {"append", "send"})' = InFlight(r, {"append", "send"})

LEMMA SameHubNumbers ==
    ASSUME NEW r \in Replicas, SameHub(r)
    PROVE  Appended(r)' = Appended(r) /\ Unsent(r)' = Unsent(r)
BY DEF SameHub, Appended, Unsent

LEMMA HistoryFrame ==
    ASSUME NEW r \in Replicas, SameHub(r), HistoryOK(r)
    PROVE  HistoryOK(r)'
BY SameHubNumbers DEF SameHub, HistoryOK

LEMMA AtHomeFrame ==
    ASSUME NEW r \in Replicas, NEW c \in Clients, SameHub(r), client'[c] = client[c],
           AtHomeInv(c, r)
    PROVE  AtHomeInv(c, r)'
<1>1. Appended(r)' = Appended(r) /\ Unsent(r)' = Unsent(r)
  BY SameHubNumbers
<1>2. Owed(c, r)' = Owed(c, r)
  BY <1>1 DEF Owed, SameHub
<1>3. NoneOvertaken(c, r)'
  BY <1>1 DEF AtHomeInv, NoneOvertaken
<1>4. HistorySorted(c, r)' /\ HistoryReaches(c, r)'
  BY <1>1 DEF AtHomeInv, HistorySorted, HistoryReaches, SameHub, Ids
<1>5. CompleteToCursor(c, r)'
  BY <1>2 DEF AtHomeInv, CompleteToCursor, Ids
<1>6. client'[c].to = r => CompleteChannel(c, r)' /\ Complete(c, r)'
  BY <1>1, <1>2 DEF AtHomeInv, CompleteChannel, Complete, Ids
<1>7. /\ client'[c].since <= Len(numbered'[r])
      /\ client'[c].cursor \in Appended(r)' \cup {0}
      /\ Ids(client'[c].ch) \subseteq Appended(r)'
  BY <1>1 DEF AtHomeInv, SameHub, Ids
<1> QED
  BY <1>3, <1>4, <1>5, <1>6, <1>7 DEF AtHomeInv, Ids
------------------------------------------------------------------------------
(* A worker that fetches, gives back, acknowledges or stops.               *)

LEMMA WorkersFrame ==
    ASSUME TypeOK, WorkersOK, NEW w \in Workers, worker' \in [Workers -> WorkerRecord],
           \A v \in Workers \ {w} : worker'[v] = worker[v],
           worker'[w].stage = "handle" => worker'[w].hand # <<>>,
           \/ worker'[w].stage \in {"idle", "handle", "stopped"}
           \/ /\ Busy(w) /\ worker'[w].stage \in {"send", "ack"}
              /\ worker'[w].id = worker[w].id /\ worker'[w].hand = worker[w].hand,
           numbered' = numbered
    PROVE  WorkersOK'
<1>1. \A v \in Workers : Busy(v)' =>
         /\ Busy(v) /\ worker'[v].id = worker[v].id /\ worker'[v].hand = worker[v].hand
  BY DEF Busy
<1>2. \A v \in Workers : worker'[v].stage = "handle" \/ Busy(v)' => worker'[v].hand # <<>>
  <2> SUFFICES ASSUME NEW v \in Workers, worker'[v].stage = "handle" \/ Busy(v)'
               PROVE  worker'[v].hand # <<>>
    OBVIOUS
  <2>1. CASE v = w
    BY <2>1, <1>1 DEF WorkersOK, Busy
  <2>2. CASE v # w
    BY <2>2, <1>1 DEF WorkersOK
  <2> QED
    BY <2>1, <2>2
<1>3. \A v \in Workers : Busy(v)' =>
         /\ worker'[v].id \in 1..Len(numbered[v[1]])
         /\ numbered[v[1]][worker'[v].id] = Head(worker'[v].hand)
  BY <1>1 DEF WorkersOK
<1>4. \A u, v \in Workers : Busy(u)' /\ Busy(v)' /\ u[1] = v[1] /\ u # v
         => worker'[u].id # worker'[v].id
  BY <1>1 DEF WorkersOK
<1> QED
  BY <1>2, <1>3, <1>4 DEF WorkersOK

LEMMA QuietEffect ==
    ASSUME IInv, NEW w \in Workers, Fetch(w) \/ FetchFails(w) \/ Nak(w) \/ Ack(w)
    PROVE  /\ UNCHANGED <<numbered, history, boots, client>>
           /\ worker' \in [Workers -> WorkerRecord]
           /\ \A v \in Workers \ {w} : worker'[v] = worker[v]
           /\ worker'[w].stage = "handle" => worker'[w].hand # <<>>
           /\ worker'[w].stage \in {"idle", "handle", "stopped"}
           /\ \A r \in Replicas : SameHub(r)
<1>1. TypeOK /\ WorkersOK
  BY DEF IInv
<1>2. UNCHANGED <<numbered, history, boots, client>>
  BY DEF Fetch, FetchFails, Nak, Ack
<1>3. /\ worker' \in [Workers -> WorkerRecord]
      /\ \A v \in Workers \ {w} : worker'[v] = worker[v]
      /\ worker'[w].stage = "handle" => worker'[w].hand # <<>>
  BY <1>1, WorkersTyped DEF Step
<1>4. worker[w].stage \notin {"append", "send"} /\ worker'[w].stage \in {"idle", "handle", "stopped"}
  <2>1. CASE Fetch(w)
    <3>1. worker[w] = Idle
      BY <2>1 DEF Fetch
    <3>2. \E hand : worker' = [worker EXCEPT ![w].stage = "handle", ![w].hand = hand]
      BY <2>1 DEF Fetch
    <3> QED
      BY <1>1, <3>1, <3>2 DEF Idle, TypeOK, WorkerRecord
  <2>2. CASE FetchFails(w)
    BY <2>2, <1>1 DEF FetchFails, Idle, TypeOK, WorkerRecord
  <2>3. CASE Nak(w)
    <3>1. worker[w].hand # <<>> /\ Finish(w, "again")
      BY <2>3, <1>1 DEF Nak, WorkersOK
    <3> QED
      BY <1>1, <2>3, <3>1, FinishType DEF Nak
  <2>4. CASE Ack(w)
    <3>1. worker[w].hand # <<>> /\ Finish(w, "acked")
      BY <2>4, <1>1 DEF Ack, WorkersOK, Busy
    <3> QED
      BY <1>1, <2>4, <3>1, FinishType DEF Ack
  <2> QED
    BY <2>1, <2>2, <2>3, <2>4
<1>5. \A r \in Replicas : SameHub(r)
  BY <1>2, <1>3, <1>4, InFlightKept DEF SameHub
<1> QED
  BY <1>2, <1>3, <1>4, <1>5

LEMMA QuietStep ==
    ASSUME IInv, NEW w \in Workers, Fetch(w) \/ FetchFails(w) \/ Nak(w) \/ Ack(w)
    PROVE  IInv'
<1>1. TypeOK /\ WorkersOK
  BY DEF IInv
<1>2. /\ UNCHANGED <<numbered, history, boots, client>>
      /\ worker' \in [Workers -> WorkerRecord]
      /\ \A v \in Workers \ {w} : worker'[v] = worker[v]
      /\ worker'[w].stage = "handle" => worker'[w].hand # <<>>
      /\ worker'[w].stage \in {"idle", "handle", "stopped"}
      /\ \A r \in Replicas : SameHub(r)
  BY QuietEffect
<1>5. TypeOK'
  BY <1>1, <1>2 DEF TypeOK
<1>6. WorkersOK'
  BY <1>1, <1>2, WorkersFrame
<1>7. \A r \in Replicas : SameHub(r)
  BY <1>2
<1>8. \A r \in Replicas : HistoryOK(r)'
  BY <1>7, HistoryFrame DEF IInv
<1>9. \A c \in Clients : HomesOK(c)'
  BY <1>2 DEF IInv, HomesOK, AtHome
<1>10. \A c \in Clients, r \in Replicas :
         AtHome(c, r)' /\ client'[c].excuse = {} => AtHomeInv(c, r)'
  BY <1>2, <1>7, AtHomeFrame DEF IInv, AtHome
<1> QED
  BY <1>5, <1>6, <1>8, <1>9, <1>10 DEF IInv

------------------------------------------------------------------------------
(* A number is given out: it is the largest, and not yet in the history.   *)

NextIDIs(w, r, n) ==
    /\ r = w[1] /\ r \in Replicas /\ n = Len(numbered[r]) + 1 /\ n \in Nat
    /\ numbered' = [numbered EXCEPT ![r] = Append(@, Head(worker[w].hand))]
    /\ worker' \in [Workers -> WorkerRecord]
    /\ \A v \in Workers \ {w} : worker'[v] = worker[v]
    /\ worker'[w].stage = "append" /\ worker'[w].id = n /\ worker'[w].hand = worker[w].hand
    /\ worker[w].stage = "handle" /\ worker[w].hand # <<>> /\ Head(worker[w].hand) \in Events
    /\ UNCHANGED <<history, boots, client>>
    /\ Len(numbered'[r]) = n /\ numbered'[r][n] = Head(worker[w].hand)
    /\ \A i \in 1..Len(numbered[r]) : numbered'[r][i] = numbered[r][i]
    /\ \A q \in Replicas \ {r} : numbered'[q] = numbered[q]

LEMMA NextIDEffect ==
    ASSUME IInv, NEW w \in Workers, NextID(w)
    PROVE  NextIDIs(w, w[1], Len(numbered[w[1]]) + 1)
<1> DEFINE r == w[1]
           n == Len(numbered[r]) + 1
           e == Head(worker[w].hand)
<1>1. TypeOK /\ WorkersOK
  BY DEF IInv
<1>2. r \in Replicas /\ numbered[r] \in Seq(Events) /\ n \in Nat
  BY <1>1, WorkerPlace DEF TypeOK
<1>3. worker[w].stage = "handle" /\ worker[w].hand # <<>> /\ worker[w].hand \in Seq(Events)
  BY <1>1 DEF NextID, WorkersOK, TypeOK, WorkerRecord
<1>4. e \in Events
  BY <1>3
<1>5. /\ worker' \in [Workers -> WorkerRecord]
      /\ \A v \in Workers \ {w} : worker'[v] = worker[v]
  BY <1>1, WorkersTyped DEF Step
<1>6. worker'[w].stage = "append" /\ worker'[w].id = n /\ worker'[w].hand = worker[w].hand
  <2>1. worker' = [worker EXCEPT ![w].stage = "append", ![w].id = n]
    BY DEF NextID
  <2>2. worker \in [Workers -> WorkerRecord]
    BY <1>1 DEF TypeOK
  <2> HIDE DEF n
  <2> QED
    BY <2>1, <2>2 DEF WorkerRecord
<1>7. numbered' = [numbered EXCEPT ![r] = Append(@, e)] /\ UNCHANGED <<history, boots, client>>
  BY DEF NextID
<1>8. numbered'[r] = Append(numbered[r], e) /\ \A q \in Replicas \ {r} : numbered'[q] = numbered[q]
  BY <1>1, <1>2, <1>7 DEF TypeOK
<1> DEFINE s == numbered[r]
<1>9. /\ Len(Append(s, e)) = n /\ Append(s, e)[n] = e
      /\ \A i \in 1..Len(s) : Append(s, e)[i] = s[i]
  <2>1. s \in Seq(Events)
    BY <1>2
  <2> HIDE DEF s, e
  <2> QED
    BY <2>1, <1>4 DEF s
<1> QED
  BY <1>2, <1>3, <1>4, <1>5, <1>6, <1>7, <1>8, <1>9 DEF NextIDIs

LEMMA NextIDHub ==
    ASSUME IInv, NEW w \in Workers, NEW r, NEW n, NextIDIs(w, r, n)
    PROVE  /\ Appended(r)' = Appended(r)
           /\ Unsent(r)' = Unsent(r) \cup {n}
           /\ \A q \in Replicas \ {r} : SameHub(q)
<1>1. TypeOK /\ WorkersOK
  BY DEF IInv
<1>2. /\ InFlight(r, {"append"})' = InFlight(r, {"append"}) \cup {n}
      /\ InFlight(r, {"append", "send"})' = InFlight(r, {"append", "send"}) \cup {n}
  BY InFlightGains DEF NextIDIs
<1>3. \A q \in Replicas \ {r} : SameHub(q)
  BY InFlightKept DEF NextIDIs, SameHub
<1>4. 1..n = (1..Len(numbered[r])) \cup {n} /\ n \notin 1..Len(numbered[r])
  <2> DEFINE m == Len(numbered[r])
  <2>1. m \in Nat /\ n = m + 1
    BY <1>1 DEF NextIDIs, TypeOK
  <2> HIDE DEF m
  <2>2. 1..n = (1..m) \cup {n} /\ n \notin 1..m
    BY <2>1
  <2> QED
    BY <2>2 DEF m
<1>5. Appended(r)' = (1..n) \ (InFlight(r, {"append"}) \cup {n})
  BY <1>2 DEF Appended, NextIDIs
<1> QED
  BY <1>2, <1>3, <1>4, <1>5 DEF Appended, Unsent

LEMMA NextIDAtHome ==
    ASSUME IInv, NEW w \in Workers, NEW r, NEW n, NextIDIs(w, r, n), NEW c \in Clients,
           AtHomeInv(c, r)
    PROVE  AtHomeInv(c, r)'
<1>1. TypeOK /\ WorkersOK /\ r \in Replicas
  BY DEF IInv, NextIDIs
<1>2. Appended(r)' = Appended(r) /\ Unsent(r)' = Unsent(r) \cup {n}
  BY NextIDHub
<1>3. client'[c] = client[c] /\ history'[r] = history[r]
  BY DEF NextIDIs
<1>4. Appended(r) \subseteq 1..Len(numbered[r]) /\ Len(numbered[r]) \in Nat
  BY <1>1, InFlightNumbered
<1>5. \A i \in Appended(r) : numbered'[r][i] = numbered[r][i] /\ i < n /\ i \in Nat
  BY <1>4 DEF NextIDIs
<1>6. Owed(c, r)' = Owed(c, r)
  BY <1>2, <1>3, <1>5 DEF Owed
<1>7. NoneOvertaken(c, r)'
  BY <1>2, <1>3, <1>5 DEF AtHomeInv, NoneOvertaken
<1>8. HistorySorted(c, r)' /\ HistoryReaches(c, r)'
  BY <1>2, <1>3 DEF AtHomeInv, HistorySorted, HistoryReaches, Ids
<1>9. CompleteToCursor(c, r)'
  BY <1>3, <1>6 DEF AtHomeInv, CompleteToCursor, Ids
<1>10. client'[c].to = r => CompleteChannel(c, r)' /\ Complete(c, r)'
  BY <1>2, <1>3, <1>6 DEF AtHomeInv, CompleteChannel, Complete, Ids
<1>11. client'[c].since <= Len(numbered'[r])
  <2>1. client[c].since \in Nat
    BY <1>1 DEF TypeOK, ClientRecord
  <2> QED
    BY <2>1, <1>3, <1>4 DEF AtHomeInv, NextIDIs
<1>12. /\ client'[c].cursor \in Appended(r)' \cup {0}
       /\ Ids(client'[c].ch) \subseteq Appended(r)'
  BY <1>2, <1>3 DEF AtHomeInv, Ids
<1> QED
  BY <1>7, <1>8, <1>9, <1>10, <1>11, <1>12 DEF AtHomeInv, Ids

LEMMA NextIDStep ==
    ASSUME IInv, NEW w \in Workers, NextID(w)
    PROVE  IInv'
<1>1. PICK r, n : NextIDIs(w, r, n)
  BY NextIDEffect
<1>2. TypeOK /\ WorkersOK /\ r \in Replicas
  BY <1>1 DEF IInv, NextIDIs
<1>3. TypeOK'
  <2>1. numbered' \in [Replicas -> Seq(Events)]
    BY <1>1, <1>2 DEF NextIDIs, TypeOK
  <2> QED
    BY <1>1, <1>2, <2>1 DEF NextIDIs, TypeOK
<1>4. WorkersOK'
  <2>1. \A v \in Workers : worker'[v].stage = "handle" \/ Busy(v)' => worker'[v].hand # <<>>
    BY <1>1, <1>2 DEF WorkersOK, NextIDIs, Busy
  <2>2. \A v \in Workers \ {w} : Busy(v)' /\ v[1] = r =>
          /\ worker'[v].id \in 1..Len(numbered[r]) /\ worker'[v].id # n /\ worker'[v].id < n
          /\ numbered'[r][worker'[v].id] = Head(worker'[v].hand)
    <3> SUFFICES ASSUME NEW v \in Workers \ {w}, Busy(v)', v[1] = r
                 PROVE  /\ worker'[v].id \in 1..Len(numbered[r])
                        /\ worker'[v].id # n /\ worker'[v].id < n
                        /\ numbered'[r][worker'[v].id] = Head(worker'[v].hand)
      OBVIOUS
    <3>1. worker'[v] = worker[v] /\ Busy(v)
      BY <1>1 DEF NextIDIs, Busy
    <3>2. worker[v].id \in 1..Len(numbered[r]) /\ numbered[r][worker[v].id] = Head(worker[v].hand)
      BY <1>2, <3>1 DEF WorkersOK
    <3>3. n = Len(numbered[r]) + 1 /\ Len(numbered[r]) \in Nat
      BY <1>1, <1>2 DEF NextIDIs, TypeOK
    <3> QED
      BY <1>1, <3>1, <3>2, <3>3 DEF NextIDIs
  <2>3. \A v \in Workers : Busy(v)' =>
          /\ worker'[v].id \in 1..Len(numbered'[v[1]])
          /\ numbered'[v[1]][worker'[v].id] = Head(worker'[v].hand)
    <3> SUFFICES ASSUME NEW v \in Workers, Busy(v)'
                 PROVE  /\ worker'[v].id \in 1..Len(numbered'[v[1]])
                        /\ numbered'[v[1]][worker'[v].id] = Head(worker'[v].hand)
      OBVIOUS
    <3>1. CASE v = w
      <4>1. n \in 1..n
        BY <1>1, <1>2 DEF NextIDIs, TypeOK
      <4> QED
        BY <4>1, <3>1, <1>1 DEF NextIDIs
    <3>2. CASE v # w /\ v[1] = r
      BY <3>2, <2>2, <1>1 DEF NextIDIs
    <3>3. CASE v # w /\ v[1] # r
      <4>1. worker'[v] = worker[v] /\ Busy(v) /\ v[1] \in Replicas
        BY <1>1, <3>3, WorkerPlace DEF NextIDIs, Busy
      <4>2. numbered'[v[1]] = numbered[v[1]]
        BY <1>1, <3>3, <4>1 DEF NextIDIs
      <4> QED
        BY <1>2, <4>1, <4>2 DEF WorkersOK
    <3> QED
      BY <3>1, <3>2, <3>3
  <2>4. \A u, v \in Workers : Busy(u)' /\ Busy(v)' /\ u[1] = v[1] /\ u # v
          => worker'[u].id # worker'[v].id
    <3> SUFFICES ASSUME NEW u \in Workers, NEW v \in Workers, Busy(u)', Busy(v)',
                        u[1] = v[1], u # v
                 PROVE  worker'[u].id # worker'[v].id
      OBVIOUS
    <3>1. CASE u = w \/ v = w
      BY <1>1, <2>2, <3>1 DEF NextIDIs
    <3>2. CASE u # w /\ v # w
      BY <1>1, <1>2, <3>2 DEF NextIDIs, WorkersOK, Busy
    <3> QED
      BY <3>1, <3>2
  <2> QED
    BY <2>1, <2>3, <2>4 DEF WorkersOK
<1>5. \A q \in Replicas : HistoryOK(q)'
  <2>1. HistoryOK(r)'
    <3>1. history'[r] = history[r]
      BY <1>1 DEF NextIDIs
    <3>4. Appended(r)' = Appended(r)
      BY <1>1, NextIDHub
    <3>2. Appended(r) \subseteq 1..Len(numbered[r])
      BY <1>2, InFlightNumbered
    <3>3. \A i \in Appended(r) : numbered'[r][i] = numbered[r][i]
      BY <1>1, <3>2 DEF NextIDIs
    <3> QED
      BY <1>2, <3>1, <3>3, <3>4 DEF HistoryOK, IInv
  <2>2. ASSUME NEW q \in Replicas \ {r} PROVE HistoryOK(q)'
    BY <1>1, NextIDHub, HistoryFrame DEF IInv
  <2> QED
    BY <2>1, <2>2
<1>6. \A c \in Clients : HomesOK(c)'
  BY <1>1 DEF IInv, HomesOK, AtHome, NextIDIs
<1>7. ASSUME NEW c \in Clients, NEW q \in Replicas, AtHome(c, q)', client'[c].excuse = {}
      PROVE  AtHomeInv(c, q)'
  <2>1. client'[c] = client[c] /\ AtHomeInv(c, q)
    BY <1>1, <1>7 DEF NextIDIs, IInv, AtHome
  <2>2. CASE q = r
    BY <1>1, <2>1, <2>2, NextIDAtHome
  <2>3. CASE q # r
    BY <1>1, <2>1, <2>3, NextIDHub, AtHomeFrame
  <2> QED
    BY <2>2, <2>3
<1> QED
  BY <1>3, <1>4, <1>5, <1>6, <1>7 DEF IInv
------------------------------------------------------------------------------
(* A notification enters the history; the oldest leaves when it is full.   *)

AddedTo(h, notice, longer, d) ==
    /\ d \in {0, 1} /\ (d = 1 <=> Len(h) = HistorySize)
    /\ longer \in Seq(Notice) /\ Len(longer) = Len(h) + 1 - d
    /\ \A k \in 1..Len(longer) : \/ k + d \in 1..Len(h) /\ longer[k] = h[k + d]
                                 \/ k + d = Len(h) + 1 /\ longer[k] = notice
    /\ \A p \in 1..Len(h) : p - d \in 1..Len(longer) => longer[p - d] = h[p]
    /\ HistorySize > 0 => longer[Len(longer)] = notice /\ Len(longer) > 0

LEMMA HistoryAdds ==
    ASSUME NEW h \in Seq(Notice), Len(h) <= HistorySize, NEW notice \in Notice
    PROVE  \E d \in {0, 1} : AddedTo(h, notice, Newest(HistorySize, Append(h, notice)), d)
<1> DEFINE s == Append(h, notice)
           longer == Newest(HistorySize, s)
<1>1. /\ s \in Seq(Notice) /\ Len(s) = Len(h) + 1 /\ Len(h) \in Nat /\ s[Len(h) + 1] = notice
      /\ \A k \in 1..Len(h) : s[k] = h[k]
  OBVIOUS
<1>2. HistorySize \in Nat
  BY SizesAssumption
<1> HIDE DEF s
<1>3. /\ longer \in Seq(Notice)
      /\ Len(s) <= HistorySize => longer = s
      /\ Len(s) = HistorySize + 1 => /\ Len(longer) = HistorySize
                                     /\ \A k \in 1..HistorySize : longer[k] = s[k + 1]
  BY <1>1, <1>2, NewestIs
<1> HIDE DEF longer
<1>4. CASE Len(h) = HistorySize
  <2>1. Len(longer) = Len(h) /\ \A k \in 1..Len(h) : longer[k] = s[k + 1]
    BY <1>1, <1>3, <1>4
  <2>2. \A k \in 1..Len(longer) : \/ k + 1 \in 1..Len(h) /\ longer[k] = h[k + 1]
                                  \/ k + 1 = Len(h) + 1 /\ longer[k] = notice
    <3> SUFFICES ASSUME NEW k \in 1..Len(longer)
                 PROVE  \/ k + 1 \in 1..Len(h) /\ longer[k] = h[k + 1]
                        \/ k + 1 = Len(h) + 1 /\ longer[k] = notice
      OBVIOUS
    <3>1. longer[k] = s[k + 1] /\ (k + 1 \in 1..Len(h) \/ k + 1 = Len(h) + 1)
      BY <1>1, <2>1
    <3> QED
      BY <1>1, <3>1
  <2>3. \A p \in 1..Len(h) : p - 1 \in 1..Len(longer) => longer[p - 1] = h[p]
    <3> SUFFICES ASSUME NEW p \in 1..Len(h), p - 1 \in 1..Len(longer)
                 PROVE  longer[p - 1] = h[p]
      OBVIOUS
    <3>1. longer[p - 1] = s[(p - 1) + 1] /\ (p - 1) + 1 = p
      BY <1>1, <2>1
    <3> QED
      BY <1>1, <3>1
  <2>4. HistorySize > 0 => longer[Len(longer)] = notice /\ Len(longer) > 0
    <3>1. HistorySize > 0 => Len(h) \in 1..Len(h)
      BY <1>1, <1>4
    <3>2. HistorySize > 0 => longer[Len(h)] = s[Len(h) + 1]
      BY <2>1, <3>1
    <3> QED
      BY <1>1, <1>4, <2>1, <3>2
  <2>5. AddedTo(h, notice, longer, 1)
    BY <1>1, <1>3, <1>4, <2>1, <2>2, <2>3, <2>4 DEF AddedTo
  <2> QED
    BY <2>5 DEF longer, s
<1>5. CASE Len(h) # HistorySize
  <2>1. longer = s
    BY <1>1, <1>2, <1>3, <1>5
  <2>2. \A k \in 1..Len(s) : \/ k + 0 \in 1..Len(h) /\ s[k] = h[k + 0]
                             \/ k + 0 = Len(h) + 1 /\ s[k] = notice
    BY <1>1
  <2>3. \A p \in 1..Len(h) : p - 0 \in 1..Len(s) => s[p - 0] = h[p]
    BY <1>1
  <2>4. AddedTo(h, notice, s, 0)
    BY <1>1, <1>5, <2>2, <2>3 DEF AddedTo
  <2> QED
    BY <2>1, <2>4 DEF longer, s
<1> QED
  BY <1>4, <1>5

AppendIs(w, r, i, d) ==
    /\ r = w[1] /\ r \in Replicas
    /\ worker[w].stage = "append" /\ i = worker[w].id
    /\ i \in 1..Len(numbered[r]) /\ i \notin Appended(r) /\ i \in Unsent(r)
    /\ Current(w) = [id |-> i, event |-> numbered[r][i]]
    /\ AddedTo(history[r], Current(w), history'[r], d)
    /\ \A q \in Replicas \ {r} : history'[q] = history[q]
    /\ UNCHANGED <<numbered, boots>>
    /\ Appended(r)' = Appended(r) \cup {i} /\ Unsent(r)' = Unsent(r)
    /\ \A q \in Replicas \ {r} : SameHub(q)

LEMMA AppendHistoryIs ==
    ASSUME IInv, NEW w \in Workers, AppendHistory(w)
    PROVE  /\ \E d \in {0, 1} : AppendIs(w, w[1], worker[w].id, d)
           /\ history' \in [Replicas -> Seq(Notice)]
           /\ TypeOK' /\ WorkersOK'
<1> DEFINE r == w[1]
           i == worker[w].id
           longer == Newest(HistorySize, Append(history[r], Current(w)))
<1>1. TypeOK /\ WorkersOK /\ r \in Replicas /\ HistoryOK(r)
  BY WorkerPlace DEF IInv
<1>2. worker[w].stage = "append" /\ Busy(w)
  BY DEF AppendHistory, Busy
<1>3. /\ i \in 1..Len(numbered[r]) /\ numbered[r][i] = Head(worker[w].hand)
      /\ \A v \in Workers : v # w /\ v[1] = r /\ Busy(v) => worker[v].id # i
      /\ i \notin Appended(r) /\ i \in Unsent(r)
  BY <1>1, <1>2, OwnNumber
<1>4. Current(w) \in Notice /\ Current(w) = [id |-> i, event |-> numbered[r][i]]
  BY <1>1, <1>2, <1>3, CurrentType DEF Current
<1>5. history[r] \in Seq(Notice) /\ Len(history[r]) <= HistorySize
  BY <1>1 DEF TypeOK, HistoryOK
<1>6. \E d \in {0, 1} : AddedTo(history[r], Current(w), longer, d)
  BY <1>4, <1>5, HistoryAdds
<1>7. longer \in Seq(Notice)
  BY <1>6 DEF AddedTo
<1>8. history' = [history EXCEPT ![r] = longer] /\ UNCHANGED <<numbered, boots>>
  BY <1>1 DEF AppendHistory, TypeOK
<1> HIDE DEF longer
<1>9. history'[r] = longer /\ (\A q \in Replicas \ {r} : history'[q] = history[q])
      /\ history' \in [Replicas -> Seq(Notice)]
  BY <1>1, <1>7, <1>8 DEF TypeOK
<1>10. /\ worker' \in [Workers -> WorkerRecord]
       /\ \A v \in Workers \ {w} : worker'[v] = worker[v]
  BY <1>1, WorkersTyped DEF Step
<1>11. /\ worker'[w].stage = "send" /\ worker'[w].id = worker[w].id
       /\ worker'[w].hand = worker[w].hand
  BY <1>1 DEF AppendHistory, TypeOK, WorkerRecord
<1>12. InFlight(r, {"append", "send"})' = InFlight(r, {"append", "send"})
  <2>1. worker[w].stage \in {"append", "send"} /\ worker'[w].stage \in {"append", "send"}
    BY <1>2, <1>11
  <2> QED
    BY <1>10, <1>11, <2>1, InFlightKept
<1>13. InFlight(r, {"append"})' = InFlight(r, {"append"}) \ {i}
  <2>1. worker[w].stage \in {"append"} /\ worker'[w].stage \notin {"append"}
    BY <1>2, <1>11
  <2>2. \A v \in Workers : v # w /\ v[1] = w[1] /\ worker[v].stage \in {"append"}
                             => worker[v].id # worker[w].id
    BY <1>3 DEF Busy
  <2> QED
    BY <1>10, <2>1, <2>2, InFlightLoses
<1>14. Appended(r)' = Appended(r) \cup {i}
  BY <1>3, <1>8, <1>13 DEF Appended
<1>15. \A q \in Replicas \ {r} : SameHub(q)
  BY <1>8, <1>9, <1>10, InFlightKept DEF SameHub
<1>16. TypeOK'
  <2>1. client' \in [Clients -> ClientRecord]
    <3>1. \A c \in Clients : client'[c] \in ClientRecord
      BY <1>1, AppendHistoryEffect
    <3>2. client' = [c \in Clients |-> client'[c]]
      BY DEF AppendHistory
    <3> QED
      BY <3>1, <3>2
  <2> QED
    BY <1>1, <1>8, <1>9, <1>10, <2>1 DEF TypeOK
<1>17. WorkersOK'
  BY <1>1, <1>2, <1>8, <1>10, <1>11, WorkersFrame
<1>18. Unsent(r)' = Unsent(r)
  BY <1>12 DEF Unsent
<1>19. PICK d \in {0, 1} : AddedTo(history[r], Current(w), history'[r], d)
  BY <1>6, <1>9
<1>20. AppendIs(w, r, i, d)
  BY <1>1, <1>2, <1>3, <1>4, <1>8, <1>9, <1>14, <1>15, <1>18, <1>19 DEF AppendIs
<1> QED
  BY <1>9, <1>16, <1>17, <1>20
LEMMA AppendKeepsHistoryOK ==
    ASSUME IInv, NEW w \in Workers, NEW r, NEW i, NEW d, AppendIs(w, r, i, d)
    PROVE  HistoryOK(r)'
<1> DEFINE h == history[r]
           g == history'[r]
           notice == Current(w)
<1>1. /\ TypeOK /\ r \in Replicas /\ HistoryOK(r) /\ AddedTo(h, notice, g, d)
      /\ numbered' = numbered /\ Appended(r)' = Appended(r) \cup {i} /\ i \notin Appended(r)
      /\ notice.id = i /\ notice.event = numbered[r][i]
  BY DEF IInv, AppendIs
<1>2. h \in Seq(Notice) /\ Len(h) \in Nat /\ Len(h) <= HistorySize /\ HistorySize \in Nat
  BY <1>1, SizesAssumption DEF TypeOK, HistoryOK
<1>3. /\ g \in Seq(Notice) /\ Len(g) = Len(h) + 1 - d /\ d \in {0, 1}
      /\ (d = 1 <=> Len(h) = HistorySize)
      /\ \A k \in 1..Len(g) : \/ k + d \in 1..Len(h) /\ g[k] = h[k + d]
                              \/ k + d = Len(h) + 1 /\ g[k] = notice
  BY <1>1 DEF AddedTo
<1>4. /\ \A p \in 1..Len(h) : h[p].id \in Appended(r) /\ h[p].event = numbered[r][h[p].id]
      /\ \A p, q \in 1..Len(h) : h[p].id = h[q].id => p = q
  BY <1>1, <1>2 DEF HistoryOK
<1> HIDE DEF h, g, notice
<1>5. Len(g) <= HistorySize
  BY <1>2, <1>3
<1>6. \A k \in 1..Len(g) : g[k].id \in Appended(r) \cup {i} /\ g[k].event = numbered[r][g[k].id]
  <2> SUFFICES ASSUME NEW k \in 1..Len(g)
               PROVE  g[k].id \in Appended(r) \cup {i} /\ g[k].event = numbered[r][g[k].id]
    OBVIOUS
  <2>1. CASE k + d \in 1..Len(h) /\ g[k] = h[k + d]
    BY <1>4, <2>1
  <2>2. CASE g[k] = notice
    BY <1>1, <2>2
  <2> QED
    BY <1>3, <2>1, <2>2
<1>7. \A j, k \in 1..Len(g) : g[j].id = g[k].id => j = k
  <2> SUFFICES ASSUME NEW j \in 1..Len(g), NEW k \in 1..Len(g), g[j].id = g[k].id
               PROVE  j = k
    OBVIOUS
  <2>1. j + d = k + d
    <3>1. CASE j + d = Len(h) + 1
      BY <1>1, <1>2, <1>3, <1>4, <3>1
    <3>2. CASE k + d = Len(h) + 1
      BY <1>1, <1>2, <1>3, <1>4, <3>2
    <3>3. CASE j + d # Len(h) + 1 /\ k + d # Len(h) + 1
      <4>1. g[j] = h[j + d] /\ g[k] = h[k + d] /\ j + d \in 1..Len(h) /\ k + d \in 1..Len(h)
        BY <1>3, <3>3
      <4> QED
        BY <1>4, <4>1
    <3> QED
      BY <3>1, <3>2, <3>3
  <2> QED
    BY <2>1, <1>3
<1>8. DOMAIN g = 1..Len(g)
  BY <1>3
<1> QED
  BY <1>1, <1>5, <1>6, <1>7, <1>8 DEF HistoryOK, g

(* The client was at home without an excuse, and no smaller number is in   *)
(* flight: the new entry is the newest of those the client has a right to. *)
LEMMA AppendKeepsOrder ==
    ASSUME IInv, NEW w \in Workers, NEW r, NEW i, NEW d, AppendIs(w, r, i, d),
           NEW c \in Clients, client'[c] = client[c], AtHomeInv(c, r), ~Overtakes(w)
    PROVE  /\ NoneOvertaken(c, r)'
           /\ \A j \in Appended(r) : j > client[c].since => j < i
           /\ HistorySorted(c, r)'
           /\ HistoryReaches(c, r)'
<1> DEFINE h == history[r]
           g == history'[r]
           notice == Current(w)
           since == client[c].since
<1>1. /\ TypeOK /\ WorkersOK /\ r \in Replicas /\ HistoryOK(r) /\ AddedTo(h, notice, g, d)
      /\ Appended(r)' = Appended(r) \cup {i} /\ i \notin Appended(r) /\ i \in Unsent(r)
      /\ Unsent(r)' = Unsent(r) /\ notice.id = i /\ i \in Nat /\ r = w[1] /\ i = worker[w].id
  BY DEF IInv, AppendIs
<1>2. Appended(r) \subseteq Nat /\ Unsent(r) \subseteq Nat
  <2>1. Appended(r) \subseteq 1..Len(numbered[r]) /\ Unsent(r) \subseteq 1..Len(numbered[r])
    BY <1>1, InFlightNumbered
  <2> QED
    BY <2>1
<1>3. \A j \in Appended(r) : j > since => j < i
  <2> SUFFICES ASSUME NEW j \in Appended(r), j > since PROVE j < i
    OBVIOUS
  <2>1. i \in Unsent(r) \ {j}
    BY <1>1
  <2> QED
    BY <2>1 DEF AtHomeInv, NoneOvertaken
<1>4. \A j \in Unsent(r) \ {i} : j > i
  <2>1. \A j \in Unsent(r) : ~(j < i)
    BY <1>1 DEF Overtakes, Unsent
  <2> QED
    BY <1>1, <1>2, <2>1
<1>5. NoneOvertaken(c, r)'
  <2> SUFFICES ASSUME NEW a \in Appended(r) \cup {i}, NEW j \in Unsent(r) \ {a}, a > since
               PROVE  j > a
    BY <1>1 DEF NoneOvertaken
  <2>1. CASE a = i
    BY <1>4, <2>1
  <2>2. CASE a \in Appended(r)
    BY <2>2 DEF AtHomeInv, NoneOvertaken
  <2> QED
    BY <2>1, <2>2
<1>6. h \in Seq(Notice) /\ Len(h) \in Nat /\ Len(h) <= HistorySize /\ HistorySize \in Nat
  BY <1>1, SizesAssumption DEF TypeOK, HistoryOK
<1>7. /\ g \in Seq(Notice) /\ Len(g) = Len(h) + 1 - d /\ d \in {0, 1}
      /\ (d = 1 <=> Len(h) = HistorySize)
      /\ \A k \in 1..Len(g) : \/ k + d \in 1..Len(h) /\ g[k] = h[k + d]
                              \/ k + d = Len(h) + 1 /\ g[k] = notice
      /\ \A p \in 1..Len(h) : p - d \in 1..Len(g) => g[p - d] = h[p]
      /\ HistorySize > 0 => g[Len(g)] = notice /\ Len(g) > 0
  BY <1>1 DEF AddedTo
<1>8. /\ \A p \in 1..Len(h) : h[p].id \in Appended(r)
      /\ \A p, q \in 1..Len(h) : p < q /\ h[p].id > since => h[p].id < h[q].id
      /\ \A j \in Appended(r) : j > since /\ (\A p \in 1..Len(h) : h[p].id # j) =>
           Len(h) = HistorySize /\ \A p \in 1..Len(h) : j < h[p].id
  <2>1. DOMAIN h = 1..Len(h)
    BY <1>6
  <2>2. \A p, q \in 1..Len(h) : p < q /\ h[p].id > since => h[p].id < h[q].id
    BY <2>1 DEF AtHomeInv, HistorySorted
  <2>3. \A p \in 1..Len(h) : h[p].id \in Appended(r)
    BY <1>1, <2>1 DEF HistoryOK
  <2>4. \A j : j \in Ids(h) <=> \E p \in 1..Len(h) : h[p].id = j
    BY <2>1 DEF Ids
  <2>5. \A j \in Appended(r) \ Ids(h) : j > since =>
          Len(h) = HistorySize /\ \A k \in Ids(h) : j < k
    BY DEF AtHomeInv, HistoryReaches
  <2> HIDE DEF h, since
  <2> QED
    BY <2>2, <2>3, <2>4, <2>5
<1>9. DOMAIN g = 1..Len(g)
  BY <1>7
<1>10. client'[c].since = since
  OBVIOUS
<1> HIDE DEF h, g, notice
<1>11. \A j, k \in 1..Len(g) : j < k /\ g[j].id > since => g[j].id < g[k].id
  <2> SUFFICES ASSUME NEW j \in 1..Len(g), NEW k \in 1..Len(g), j < k, g[j].id > since
               PROVE  g[j].id < g[k].id
    OBVIOUS
  <2>1. j + d < k + d /\ k + d <= Len(h) + 1
    BY <1>6, <1>7
  <2>2. j + d \in 1..Len(h) /\ g[j] = h[j + d]
    <3>1. j + d # Len(h) + 1
      BY <1>6, <1>7, <2>1
    <3> QED
      BY <1>7, <3>1
  <2>3. CASE k + d = Len(h) + 1
    <3>1. k + d \notin 1..Len(h)
      BY <2>3, <1>6
    <3>2. g[k].id = i
      BY <1>1, <1>7, <3>1
    <3> QED
      BY <1>3, <1>8, <2>2, <3>2
  <2>4. CASE k + d # Len(h) + 1
    <3>1. k + d \in 1..Len(h) /\ g[k] = h[k + d]
      BY <1>7, <2>4
    <3> QED
      BY <1>8, <2>1, <2>2, <3>1
  <2> QED
    BY <2>3, <2>4
<1>12. HistorySorted(c, r)'
  BY <1>9, <1>10, <1>11 DEF HistorySorted, g
<1>13. ASSUME NEW j \in Appended(r) \cup {i}, j > since, \A k \in 1..Len(g) : g[k].id # j
       PROVE  Len(g) = HistorySize /\ \A k \in 1..Len(g) : j < g[k].id
  <2>1. CASE HistorySize = 0
    <3>1. Len(h) = 0 /\ Len(g) = 0
      BY <1>6, <1>7, <2>1
    <3> QED
      BY <2>1, <3>1
  <2>2. CASE HistorySize > 0
    <3>1. j # i
      <4>1. Len(g) \in 1..Len(g) /\ g[Len(g)].id = i
        BY <1>1, <1>7, <2>2
      <4> QED
        BY <4>1, <1>13
    <3>2. j \in Appended(r) /\ j < i
      BY <3>1, <1>3, <1>13
    <3>3. CASE \A p \in 1..Len(h) : h[p].id # j
      <4>1. Len(h) = HistorySize /\ \A p \in 1..Len(h) : j < h[p].id
        BY <1>8, <1>13, <3>2, <3>3
      <4>2. Len(g) = HistorySize
        BY <4>1, <1>6, <1>7
      <4>3. \A k \in 1..Len(g) : j < g[k].id
        BY <4>1, <3>2, <1>7, <1>1
      <4> QED
        BY <4>2, <4>3
    <3>4. CASE \E p \in 1..Len(h) : h[p].id = j
      <4>1. PICK p \in 1..Len(h) : h[p].id = j
        BY <3>4
      <4>2. p - d \notin 1..Len(g)
        BY <4>1, <1>7, <1>13
      <4>3. d = 1 /\ p = 1
        BY <4>2, <1>6, <1>7
      <4>4. Len(g) = HistorySize
        BY <4>3, <1>6, <1>7
      <4>5. \A k \in 1..Len(g) : j < g[k].id
        <5> SUFFICES ASSUME NEW k \in 1..Len(g) PROVE j < g[k].id
          OBVIOUS
        <5>1. CASE k + d = Len(h) + 1
          <6>1. k + d \notin 1..Len(h)
            BY <5>1, <1>6
          <6> QED
            BY <6>1, <3>2, <1>7, <1>1
        <5>2. CASE k + d # Len(h) + 1
          <6>1. k + d \in 1..Len(h) /\ g[k] = h[k + d]
            BY <5>2, <1>7
          <6>2. p < k + d
            BY <4>3, <1>7
          <6> QED
            BY <4>1, <6>1, <6>2, <1>8, <1>13
        <5> QED
          BY <5>1, <5>2
      <4> QED
        BY <4>4, <4>5
    <3> QED
      BY <3>3, <3>4
  <2> QED
    BY <2>1, <2>2, <1>6
<1>14. HistoryReaches(c, r)'
  <2>1. \A j : j \in Ids(g) <=> \E k \in 1..Len(g) : g[k].id = j
    BY <1>9 DEF Ids
  <2>2. \A j \in (Appended(r) \cup {i}) \ Ids(g) : j > since =>
          Len(g) = HistorySize /\ \A k \in Ids(g) : j < k
    BY <1>13, <2>1
  <2>3. Ids(g) = Ids(history[r])'
    BY DEF Ids, g
  <2> QED
    BY <1>1, <1>10, <2>2, <2>3 DEF HistoryReaches, g
<1> QED
  BY <1>3, <1>5, <1>12, <1>14
LEMMA AppendAtHome ==
    ASSUME IInv, NEW w \in Workers, NEW r, NEW i, NEW d, AppendIs(w, r, i, d),
           NEW c \in Clients, client'[c] = client[c], AtHomeInv(c, r), ~Overtakes(w)
    PROVE  AtHomeInv(c, r)'
<1>1. /\ Appended(r)' = Appended(r) \cup {i} /\ Unsent(r)' = Unsent(r) /\ i \in Unsent(r)
      /\ numbered' = numbered /\ client'[c] = client[c] /\ TypeOK /\ WorkersOK
      /\ r \in Replicas /\ i \in Nat
  BY DEF AppendIs, IInv
<1>2. /\ NoneOvertaken(c, r)' /\ HistorySorted(c, r)' /\ HistoryReaches(c, r)'
      /\ \A j \in Appended(r) : j > client[c].since => j < i
  BY AppendKeepsOrder
<1>3. Appended(r) \subseteq Nat /\ client[c].since \in Nat
  <2>1. Appended(r) \subseteq 1..Len(numbered[r])
    BY <1>1, InFlightNumbered
  <2> QED
    BY <1>1, <2>1 DEF TypeOK, ClientRecord
<1>4. \A j \in Owed(c, r)' : j = i \/ j \in Owed(c, r)
  BY <1>1 DEF Owed
<1>5. \A j \in Owed(c, r)' : j > client[c].since
  BY <1>1 DEF Owed
<1>6. CompleteToCursor(c, r)'
  <2> SUFFICES ASSUME NEW j \in Owed(c, r)', j <= client[c].cursor
               PROVE  j \in Ids(client[c].got)
    BY <1>1 DEF CompleteToCursor, Ids
  <2>1. j # i
    <3> SUFFICES ASSUME j = i PROVE FALSE
      OBVIOUS
    <3>1. i > client[c].since
      BY <1>5
    <3>2. client[c].cursor \in Appended(r)
      <4>1. i # 0
        BY <3>1, <1>1, <1>3
      <4>2. client[c].cursor # 0
        BY <4>1, <1>1
      <4> QED
        BY <4>2 DEF AtHomeInv
    <3>3. client[c].cursor > client[c].since
      BY <3>1, <3>2, <1>1, <1>3
    <3> QED
      BY <3>2, <3>3, <1>1, <1>2, <1>3
  <2> QED
    BY <2>1, <1>4 DEF AtHomeInv, CompleteToCursor
<1>7. client'[c].to = r => CompleteChannel(c, r)'
  <2> SUFFICES ASSUME client[c].to = r, NEW p \in DOMAIN client[c].ch,
                      NEW j \in Owed(c, r)', j <= client[c].ch[p].id
               PROVE  j \in Ids(client[c].got) \cup {client[c].ch[q].id : q \in 1..p}
    BY <1>1 DEF CompleteChannel, Ids
  <2>1. j # i
    <3> SUFFICES ASSUME j = i PROVE FALSE
      OBVIOUS
    <3>1. i > client[c].since
      BY <1>5
    <3>2. client[c].ch[p].id \in Appended(r)
      BY DEF AtHomeInv, Ids
    <3> DEFINE k == client[c].ch[p].id
    <3>3. k \in Appended(r) /\ i <= k
      BY <3>2
    <3> HIDE DEF k
    <3>4. k > client[c].since
      BY <3>1, <3>3, <1>1, <1>3
    <3> QED
      BY <3>3, <3>4, <1>1, <1>2, <1>3
  <2> QED
    BY <2>1, <1>4 DEF AtHomeInv, CompleteChannel
<1>8. client'[c].to = r => Complete(c, r)'
  <2>1. \A j \in Owed(c, r)' \ Unsent(r)' : j \in Owed(c, r) \ Unsent(r)
    BY <1>1, <1>4
  <2> QED
    BY <1>1, <2>1 DEF AtHomeInv, Complete, Ids
<1>9. /\ client'[c].since <= Len(numbered'[r])
      /\ client'[c].cursor \in Appended(r)' \cup {0}
      /\ Ids(client'[c].ch) \subseteq Appended(r)'
  BY <1>1 DEF AtHomeInv, Ids
<1> QED
  BY <1>2, <1>6, <1>7, <1>8, <1>9 DEF AtHomeInv, Ids

LEMMA AppendHistoryStep ==
    ASSUME IInv, NEW w \in Workers, AppendHistory(w)
    PROVE  IInv'
<1>1. TypeOK /\ WorkersOK /\ TypeOK' /\ WorkersOK'
  BY AppendHistoryIs DEF IInv
<1>2. PICK r, i, d : AppendIs(w, r, i, d)
  BY AppendHistoryIs
<1>3. r = w[1] /\ r \in Replicas /\ boots' = boots /\ \A q \in Replicas \ {r} : SameHub(q)
  BY <1>2 DEF AppendIs
<1>4. \A q \in Replicas : HistoryOK(q)'
  BY <1>2, <1>3, AppendKeepsHistoryOK, HistoryFrame DEF IInv
<1>5. \A c \in Clients :
        /\ client'[c].to = client[c].to /\ client'[c].home = client[c].home
        /\ client'[c].excuse = {} => client'[c] = client[c] /\ (AtHome(c, r) => ~Overtakes(w))
  BY <1>1, <1>3, AppendHistoryEffect
<1>6. \A c \in Clients : HomesOK(c)'
  BY <1>3, <1>5 DEF IInv, HomesOK, AtHome
<1>7. ASSUME NEW c \in Clients, NEW q \in Replicas, AtHome(c, q)', client'[c].excuse = {}
      PROVE  AtHomeInv(c, q)'
  <2>1. client'[c] = client[c] /\ AtHome(c, q) /\ (AtHome(c, r) => ~Overtakes(w))
    BY <1>3, <1>5, <1>7 DEF AtHome
  <2>2. AtHomeInv(c, q)
    BY <1>7, <2>1 DEF IInv
  <2>3. CASE q = r
    BY <1>2, <2>1, <2>2, <2>3, AppendAtHome
  <2>4. CASE q # r
    BY <1>3, <2>1, <2>2, <2>4, AtHomeFrame
  <2> QED
    BY <2>3, <2>4
<1> QED
  BY <1>1, <1>4, <1>6, <1>7 DEF IInv
------------------------------------------------------------------------------
(* A notification is sent: nothing smaller is in flight, so what is on the *)
(* channel up to it is complete.                                           *)

SendIs(w, r, i) ==
    /\ r = w[1] /\ r \in Replicas
    /\ worker[w].stage = "send" /\ i = worker[w].id
    /\ i \in Appended(r) /\ i \in Nat
    /\ Current(w) = [id |-> i, event |-> numbered[r][i]] /\ Current(w) \in Notice
    /\ Head(worker[w].hand) = numbered[r][i]
    /\ UNCHANGED <<numbered, history, boots>>
    /\ Appended(r)' = Appended(r) /\ Unsent(r)' = Unsent(r) \ {i}
    /\ \A q \in Replicas \ {r} : SameHub(q)

LEMMA SendIsSo ==
    ASSUME IInv, NEW w \in Workers, Send(w)
    PROVE  SendIs(w, w[1], worker[w].id) /\ TypeOK' /\ WorkersOK'
<1> DEFINE r == w[1]
           i == worker[w].id
<1>1. TypeOK /\ WorkersOK /\ r \in Replicas
  BY WorkerPlace DEF IInv
<1>2. worker[w].stage = "send" /\ Busy(w) /\ UNCHANGED <<numbered, history, boots>>
  BY DEF Send, Busy
<1>3. /\ i \in 1..Len(numbered[r]) /\ numbered[r][i] = Head(worker[w].hand)
      /\ \A v \in Workers : v # w /\ v[1] = r /\ Busy(v) => worker[v].id # i
      /\ i \in Appended(r)
  BY <1>1, <1>2, OwnNumber
<1>4. Current(w) \in Notice /\ Current(w) = [id |-> i, event |-> numbered[r][i]]
  BY <1>1, <1>2, <1>3, CurrentType DEF Current
<1>5. /\ worker' \in [Workers -> WorkerRecord]
      /\ \A v \in Workers \ {w} : worker'[v] = worker[v]
  BY <1>1, WorkersTyped DEF Step
<1>6. /\ worker'[w].stage = "ack" /\ worker'[w].id = worker[w].id
      /\ worker'[w].hand = worker[w].hand
  BY <1>1 DEF Send, TypeOK, WorkerRecord
<1>7. InFlight(r, {"append"})' = InFlight(r, {"append"})
  BY <1>2, <1>5, <1>6, InFlightKept
<1>8. InFlight(r, {"append", "send"})' = InFlight(r, {"append", "send"}) \ {i}
  <2>1. worker[w].stage \in {"append", "send"} /\ worker'[w].stage \notin {"append", "send"}
    BY <1>2, <1>6
  <2>2. \A v \in Workers : v # w /\ v[1] = w[1] /\ worker[v].stage \in {"append", "send"}
                             => worker[v].id # worker[w].id
    BY <1>3 DEF Busy
  <2> QED
    BY <1>5, <2>1, <2>2, InFlightLoses
<1>9. Appended(r)' = Appended(r) /\ Unsent(r)' = Unsent(r) \ {i}
  BY <1>2, <1>7, <1>8 DEF Appended, Unsent
<1>10. \A q \in Replicas \ {r} : SameHub(q)
  BY <1>2, <1>5, InFlightKept DEF SameHub
<1>11. TypeOK'
  <2>1. \A c \in Clients : client'[c] \in ClientRecord
    BY <1>1, <1>4, SendEffect
  <2>2. client' = [c \in Clients |-> client'[c]]
    BY DEF Send
  <2>3. client' \in [Clients -> ClientRecord]
    BY <2>1, <2>2
  <2> QED
    BY <1>1, <1>2, <1>5, <2>3 DEF TypeOK
<1>12. WorkersOK'
  BY <1>1, <1>2, <1>5, <1>6, WorkersFrame
<1>13. i \in Nat
  BY <1>1 DEF TypeOK, WorkerRecord
<1> QED
  BY <1>1, <1>2, <1>3, <1>4, <1>9, <1>10, <1>11, <1>12, <1>13 DEF SendIs

LEMMA SendAtHome ==
    ASSUME IInv, NEW w \in Workers, NEW r, NEW i, SendIs(w, r, i),
           NEW c \in Clients, AtHomeInv(c, r), ~Overtakes(w),
           client'[c] = IF client[c].to = r /\ Matches(c, Head(worker[w].hand))
                        THEN [client[c] EXCEPT !.ch = Append(client[c].ch, Current(w))]
                        ELSE client[c]
    PROVE  AtHomeInv(c, r)'
<1> DEFINE cl == client[c]
           ch == cl.ch
           notice == Current(w)
           longer == Append(ch, notice)
           sent == cl.to = r /\ Matches(c, Head(worker[w].hand))
<1>1. /\ Appended(r)' = Appended(r) /\ Unsent(r)' = Unsent(r) \ {i}
      /\ numbered' = numbered /\ history' = history
      /\ TypeOK /\ WorkersOK /\ r \in Replicas /\ i \in Nat /\ i \in Appended(r)
      /\ r = w[1] /\ i = worker[w].id /\ notice.id = i /\ notice \in Notice
      /\ Head(worker[w].hand) = numbered[r][i]
  BY DEF SendIs, IInv
<1>2. cl \in ClientRecord /\ ch \in Seq(Notice)
  BY <1>1 DEF TypeOK, ClientRecord
<1>3. /\ client'[c].since = cl.since /\ client'[c].cursor = cl.cursor /\ client'[c].got = cl.got
      /\ client'[c].to = cl.to
      /\ client'[c].ch = IF sent THEN longer ELSE ch
  <2> HIDE DEF longer
  <2>1. client'[c] = IF sent THEN [cl EXCEPT !.ch = longer] ELSE cl
    BY DEF longer
  <2> HIDE DEF cl, sent
  <2> QED
    BY <1>2, <2>1 DEF ClientRecord
<1>4. /\ longer \in Seq(Notice) /\ Len(longer) = Len(ch) + 1 /\ Len(ch) \in Nat
      /\ longer[Len(ch) + 1] = notice /\ \A p \in 1..Len(ch) : longer[p] = ch[p]
  <2> HIDE DEF ch, notice
  <2> QED
    BY <1>1, <1>2
<1>5. Owed(c, r)' = Owed(c, r)
  BY <1>1, <1>3 DEF Owed
<1>6. Appended(r) \subseteq Nat /\ Unsent(r) \subseteq Nat
  <2>1. Appended(r) \subseteq 1..Len(numbered[r]) /\ Unsent(r) \subseteq 1..Len(numbered[r])
    BY <1>1, InFlightNumbered
  <2> QED
    BY <2>1
<1>7. \A j \in Unsent(r) : j >= i
  <2>1. \A j \in Unsent(r) : ~(j < i)
    BY <1>1 DEF Overtakes, Unsent
  <2> QED
    BY <1>1, <1>6, <2>1
<1>8. NoneOvertaken(c, r)'
  BY <1>1, <1>3 DEF AtHomeInv, NoneOvertaken
<1>9. HistorySorted(c, r)' /\ HistoryReaches(c, r)'
  BY <1>1, <1>3 DEF AtHomeInv, HistorySorted, HistoryReaches, Ids
<1>10. CompleteToCursor(c, r)'
  BY <1>3, <1>5 DEF AtHomeInv, CompleteToCursor, Ids
<1>11. DOMAIN ch = 1..Len(ch) /\ DOMAIN longer = 1..(Len(ch) + 1)
  BY <1>2, <1>4
<1>12. \A j \in Owed(c, r) : cl.to = r /\ j < i => j \in Ids(cl.got) \cup Ids(ch)
  <2>1. \A j \in Owed(c, r) : j < i => j \notin Unsent(r)
    BY <1>1, <1>6, <1>7
  <2> QED
    BY <2>1 DEF AtHomeInv, Complete
<1>13. \A j \in Ids(ch) : \E q \in 1..Len(ch) : ch[q].id = j
  BY <1>11 DEF Ids
<1>14. client'[c].to = r => CompleteChannel(c, r)'
  <2> SUFFICES ASSUME cl.to = r, NEW p \in DOMAIN client'[c].ch,
                      NEW j \in Owed(c, r), j <= client'[c].ch[p].id
               PROVE  \/ j \in Ids(cl.got)
                      \/ \E q \in 1..p : client'[c].ch[q].id = j
    BY <1>3, <1>5 DEF CompleteChannel, Ids
  <2>1. ASSUME p \in 1..Len(ch), client'[c].ch = longer \/ client'[c].ch = ch
        PROVE  j \in Ids(cl.got) \/ \E q \in 1..p : client'[c].ch[q].id = j
    <3>1. client'[c].ch[p] = ch[p]
      BY <2>1, <1>4
    <3>2. j \in Ids(cl.got) \cup {ch[q].id : q \in 1..p}
      BY <3>1, <2>1, <1>11 DEF AtHomeInv, CompleteChannel
    <3>3. \A q \in 1..p : q \in 1..Len(ch) /\ client'[c].ch[q] = ch[q]
      BY <2>1, <1>4
    <3> QED
      BY <3>2, <3>3
  <2>2. CASE ~sent
    BY <1>3, <1>11, <2>1, <2>2
  <2>3. CASE sent /\ p = Len(ch) + 1
    <3>1. client'[c].ch = longer /\ client'[c].ch[p].id = i
      BY <1>1, <1>3, <1>4, <2>3
    <3>2. CASE j = i
      <4>1. p \in 1..p
        BY <1>4, <2>3
      <4> QED
        BY <3>1, <3>2, <4>1
    <3>3. CASE j # i
      <4>1. j \in Nat
        BY <1>6 DEF Owed
      <4>2. j < i
        BY <3>1, <3>3, <4>1, <1>1
      <4>3. j \in Ids(cl.got) \/ \E q \in 1..Len(ch) : ch[q].id = j
        BY <1>12, <1>13, <4>2
      <4>4. \A q \in 1..Len(ch) : q \in 1..p /\ longer[q] = ch[q]
        BY <1>4, <2>3
      <4> QED
        BY <3>1, <4>3, <4>4
    <3> QED
      BY <3>2, <3>3
  <2>4. CASE sent /\ p # Len(ch) + 1
    <3>1. client'[c].ch = longer
      BY <1>3, <2>4
    <3>2. p \in 1..Len(ch)
      BY <3>1, <1>11, <1>4, <2>4
    <3> QED
      BY <2>1, <3>1, <3>2
  <2> QED
    BY <2>2, <2>3, <2>4
<1>15. \A j \in Ids(ch) : j \in Ids(client'[c].ch)
  <2>1. Ids(ch) \subseteq Ids(longer)
    BY <1>4, <1>11 DEF Ids
  <2> QED
    BY <1>3, <2>1
<1>16. sent => i \in Ids(client'[c].ch)
  <2>1. Len(ch) + 1 \in DOMAIN longer
    BY <1>4, <1>11
  <2>2. i \in Ids(longer)
    BY <1>1, <1>4, <2>1 DEF Ids
  <2> QED
    BY <1>3, <2>2
<1>17. client'[c].to = r => Complete(c, r)'
  <2> SUFFICES ASSUME cl.to = r, NEW j \in Owed(c, r), j \notin Unsent(r) \ {i}
               PROVE  j \in Ids(cl.got) \cup Ids(client'[c].ch)
    BY <1>1, <1>3, <1>5 DEF Complete, Ids
  <2>1. CASE j = i
    <3>1. sent
      BY <1>1, <2>1 DEF Owed
    <3> QED
      BY <2>1, <3>1, <1>16
  <2>2. CASE j # i
    <3>1. j \in Ids(cl.got) \cup Ids(ch)
      BY <2>2 DEF AtHomeInv, Complete
    <3> QED
      BY <3>1, <1>15
  <2> QED
    BY <2>1, <2>2
<1>18. Ids(client'[c].ch) \subseteq Appended(r)
  <2>1. \A p \in 1..Len(ch) : ch[p].id \in Appended(r)
    BY <1>11 DEF AtHomeInv, Ids
  <2>2. Ids(longer) \subseteq Appended(r)
    <3>1. \A p \in 1..(Len(ch) + 1) : p \in 1..Len(ch) \/ p = Len(ch) + 1
      BY <1>4
    <3>2. \A p \in 1..(Len(ch) + 1) : longer[p].id \in Appended(r)
      BY <1>1, <1>4, <2>1, <3>1
    <3> QED
      BY <3>2, <1>11 DEF Ids
  <2>3. Ids(ch) \subseteq Appended(r)
    BY DEF AtHomeInv
  <2> QED
    BY <1>3, <2>2, <2>3
<1>19. /\ client'[c].since <= Len(numbered'[r])
       /\ client'[c].cursor \in Appended(r)' \cup {0}
  BY <1>1, <1>3 DEF AtHomeInv
<1>20. Ids(client[c].ch)' = Ids(client'[c].ch)
  BY DEF Ids
<1> HIDE DEF cl, ch, notice, longer, sent
<1> QED
  BY <1>1, <1>8, <1>9, <1>10, <1>14, <1>17, <1>18, <1>19, <1>20 DEF AtHomeInv

LEMMA SendStep ==
    ASSUME IInv, NEW w \in Workers, Send(w)
    PROVE  IInv'
<1>1. TypeOK /\ WorkersOK /\ TypeOK' /\ WorkersOK'
  BY SendIsSo DEF IInv
<1>2. PICK r, i : SendIs(w, r, i)
  BY SendIsSo
<1>3. /\ r = w[1] /\ r \in Replicas /\ boots' = boots /\ Current(w) \in Notice
      /\ \A q \in Replicas \ {r} : SameHub(q)
  BY <1>2 DEF SendIs
<1>4. \A q \in Replicas : HistoryOK(q)'
  <2>1. HistoryOK(r)'
    BY <1>2, <1>3 DEF IInv, HistoryOK, SendIs
  <2> QED
    BY <1>3, <2>1, HistoryFrame DEF IInv
<1>5. \A c \in Clients :
        /\ client'[c].to = client[c].to /\ client'[c].home = client[c].home
        /\ client'[c].excuse = {} =>
             /\ client[c].excuse = {}
             /\ AtHome(c, r) => ~Overtakes(w)
             /\ client'[c] = IF client[c].to = r /\ Matches(c, Head(worker[w].hand))
                             THEN [client[c] EXCEPT !.ch = Append(client[c].ch, Current(w))]
                             ELSE client[c]
  BY <1>1, <1>3, SendEffect
<1>6. \A c \in Clients : HomesOK(c)'
  BY <1>3, <1>5 DEF IInv, HomesOK, AtHome
<1>7. ASSUME NEW c \in Clients, NEW q \in Replicas, AtHome(c, q)', client'[c].excuse = {}
      PROVE  AtHomeInv(c, q)'
  <2>1. client[c].excuse = {} /\ AtHome(c, q)
    BY <1>3, <1>5, <1>7 DEF AtHome
  <2>2. AtHomeInv(c, q) /\ HomesOK(c)
    BY <2>1 DEF IInv
  <2>3. CASE q = r
    <3>1. ~Overtakes(w)
      BY <1>5, <1>7, <2>1, <2>3
    <3>2. client'[c] = IF client[c].to = r /\ Matches(c, Head(worker[w].hand))
                       THEN [client[c] EXCEPT !.ch = Append(client[c].ch, Current(w))]
                       ELSE client[c]
      BY <1>5, <1>7
    <3> QED
      BY <1>2, <2>2, <2>3, <3>1, <3>2, SendAtHome
  <2>4. CASE q # r
    <3>1. client[c].to # r
      BY <1>3, <2>1, <2>2, <2>4, NoReplicaAssumption DEF HomesOK, AtHome
    <3>2. client'[c] = client[c]
      BY <1>5, <1>7, <3>1
    <3> QED
      BY <1>3, <2>2, <2>4, <3>2, AtHomeFrame
  <2> QED
    BY <2>3, <2>4
<1> QED
  BY <1>1, <1>4, <1>6, <1>7 DEF IInv
------------------------------------------------------------------------------
(* Steps of a client: the hubs stay as they are.                           *)

LEMMA ClientFrame ==
    ASSUME IInv, UNCHANGED <<worker, numbered, history, boots>>, NEW c \in Clients,
           \A d \in Clients \ {c} : client'[d] = client[d], client'[c] \in ClientRecord,
           client' = [d \in Clients |-> client'[d]],
           HomesOK(c)',
           \A r \in Replicas : AtHome(c, r)' /\ client'[c].excuse = {} => AtHomeInv(c, r)'
    PROVE  IInv'
<1>1. TypeOK'
  <2>1. \A d \in Clients : client'[d] \in ClientRecord
    BY DEF IInv, TypeOK
  <2>2. client' \in [Clients -> ClientRecord]
    BY <2>1
  <2> QED
    BY <2>2 DEF IInv, TypeOK
<1>2. WorkersOK'
  BY DEF IInv, WorkersOK, Busy
<1>3. \A r \in Replicas : SameHub(r)
  BY DEF SameHub, InFlight
<1>4. \A r \in Replicas : HistoryOK(r)'
  BY <1>3, HistoryFrame DEF IInv
<1>5. \A d \in Clients : HomesOK(d)'
  BY DEF IInv, HomesOK, AtHome
<1>6. ASSUME NEW d \in Clients, NEW r \in Replicas, AtHome(d, r)', client'[d].excuse = {}
      PROVE  AtHomeInv(d, r)'
  <2>1. CASE d = c
    BY <1>6, <2>1
  <2>2. CASE d # c
    <3>1. client'[d] = client[d]
      BY <2>2
    <3>2. AtHomeInv(d, r)
      BY <1>6, <3>1 DEF IInv, AtHome
    <3> QED
      BY <1>3, <3>1, <3>2, AtHomeFrame
  <2> QED
    BY <2>1, <2>2
<1> QED
  BY <1>1, <1>2, <1>4, <1>5, <1>6 DEF IInv

LEMMA WriteStep ==
    ASSUME IInv, NEW c \in Clients, Write(c)
    PROVE  IInv'
<1> DEFINE cl == client[c]
           ch == cl.ch
           got == cl.got
           head == Head(ch)
           rest == Tail(ch)
           longer == Append(got, head)
<1>1. TypeOK /\ WorkersOK /\ HomesOK(c)
  BY DEF IInv
<1>2. /\ \A d \in Clients \ {c} : client'[d] = client[d]
      /\ client'[c] \in ClientRecord
      /\ cl.to # NoReplica /\ ch \in Seq(Notice) /\ ch # <<>> /\ got \in Seq(Notice)
      /\ client'[c].ch = rest /\ client'[c].got = longer /\ client'[c].cursor = head.id
      /\ client'[c].to = cl.to /\ client'[c].home = cl.home
      /\ client'[c].since = cl.since /\ client'[c].excuse = cl.excuse
  BY <1>1, WriteEffect
<1>3. UNCHANGED <<worker, numbered, history, boots>>
      /\ client' = [d \in Clients |-> client'[d]]
  BY <1>1 DEF Write, TypeOK
<1>4. /\ rest \in Seq(Notice) /\ Len(ch) \in Nat /\ Len(ch) > 0 /\ Len(rest) = Len(ch) - 1
      /\ head = ch[1] /\ head \in Notice
      /\ \A p \in 1..(Len(ch) - 1) : rest[p] = ch[p + 1]
  <2> HIDE DEF ch
  <2> QED
    BY <1>2, HeadTailProperties
<1>5. /\ longer \in Seq(Notice) /\ Len(longer) = Len(got) + 1 /\ Len(got) \in Nat
      /\ longer[Len(got) + 1] = head /\ \A p \in 1..Len(got) : longer[p] = got[p]
  <2> HIDE DEF got, head
  <2> QED
    BY <1>2, <1>4
<1> HIDE DEF head, rest, longer
<1>6. /\ DOMAIN ch = 1..Len(ch) /\ DOMAIN rest = 1..(Len(ch) - 1)
      /\ DOMAIN got = 1..Len(got) /\ DOMAIN longer = 1..(Len(got) + 1)
  BY <1>2, <1>4, <1>5
<1>7. Ids(longer) = Ids(got) \cup {head.id}
  <2>1. \A p \in DOMAIN longer : p \in DOMAIN got \/ p = Len(got) + 1
    BY <1>5, <1>6
  <2>2. Ids(longer) \subseteq Ids(got) \cup {head.id}
    BY <2>1, <1>5, <1>6 DEF Ids
  <2>3. \A p \in DOMAIN got : p \in DOMAIN longer /\ longer[p] = got[p]
    BY <1>5, <1>6
  <2>4. Len(got) + 1 \in DOMAIN longer
    BY <1>5, <1>6
  <2>5. Ids(got) \cup {head.id} \subseteq Ids(longer)
    BY <2>3, <2>4, <1>5 DEF Ids
  <2> QED
    BY <2>2, <2>5
<1>8. Ids(ch) = Ids(rest) \cup {head.id}
  <2>1. \A p \in DOMAIN ch : p = 1 \/ (p - 1 \in DOMAIN rest /\ rest[p - 1] = ch[p])
    <3> SUFFICES ASSUME NEW p \in DOMAIN ch, p # 1
                 PROVE  p - 1 \in DOMAIN rest /\ rest[p - 1] = ch[p]
      OBVIOUS
    <3>1. p - 1 \in 1..(Len(ch) - 1) /\ (p - 1) + 1 = p
      BY <1>4, <1>6
    <3> QED
      BY <3>1, <1>4, <1>6
  <2>2. Ids(ch) \subseteq Ids(rest) \cup {head.id}
    BY <2>1, <1>4 DEF Ids
  <2>3. \A p \in DOMAIN rest : p + 1 \in DOMAIN ch /\ rest[p] = ch[p + 1]
    BY <1>4, <1>6
  <2>4. 1 \in DOMAIN ch
    BY <1>4, <1>6
  <2>5. Ids(rest) \cup {head.id} \subseteq Ids(ch)
    BY <2>3, <2>4, <1>4 DEF Ids
  <2> QED
    BY <2>2, <2>5
<1>9. HomesOK(c)'
  BY <1>1, <1>2, <1>3 DEF HomesOK, AtHome
<1>10. ASSUME NEW r \in Replicas, AtHome(c, r)', client'[c].excuse = {}
       PROVE  AtHomeInv(c, r)'
  <2>1. AtHome(c, r) /\ cl.excuse = {} /\ AtHomeInv(c, r)
    BY <1>2, <1>3, <1>10 DEF AtHome, IInv
  <2>2. cl.to = r
    BY <1>1, <1>2, <2>1 DEF HomesOK, AtHome
  <2>3. SameHub(r) /\ Appended(r)' = Appended(r) /\ Unsent(r)' = Unsent(r)
    BY <1>3 DEF SameHub, InFlight, Appended, Unsent
  <2>4. Owed(c, r)' = Owed(c, r)
    BY <1>2, <1>3, <2>3 DEF Owed
  <2>5. NoneOvertaken(c, r)'
    BY <1>2, <2>1, <2>3 DEF AtHomeInv, NoneOvertaken
  <2>6. HistorySorted(c, r)' /\ HistoryReaches(c, r)'
    BY <1>2, <1>3, <2>1, <2>3 DEF AtHomeInv, HistorySorted, HistoryReaches, Ids
  <2>7. Ids(client[c].got)' = Ids(longer) /\ Ids(client[c].ch)' = Ids(rest)
    BY <1>2 DEF Ids
  <2>8. CompleteToCursor(c, r)'
    <3> SUFFICES ASSUME NEW i \in Owed(c, r), i <= head.id
                 PROVE  i \in Ids(longer)
      BY <1>2, <2>4, <2>7 DEF CompleteToCursor
    <3>1. 1 \in DOMAIN ch /\ i <= ch[1].id
      BY <1>4, <1>6
    <3>2. i \in Ids(got) \cup {ch[q].id : q \in 1..1}
      BY <2>1, <2>2, <3>1 DEF AtHomeInv, CompleteChannel
    <3>3. \A q \in 1..1 : ch[q].id = head.id
      BY <1>4
    <3> QED
      BY <1>7, <3>2, <3>3
  <2>9. CompleteChannel(c, r)'
    <3> SUFFICES ASSUME NEW p \in DOMAIN rest, NEW i \in Owed(c, r), i <= rest[p].id
                 PROVE  i \in Ids(longer) \cup {rest[q].id : q \in 1..p}
      BY <1>2, <2>4, <2>7 DEF CompleteChannel
    <3>1. p + 1 \in DOMAIN ch /\ rest[p] = ch[p + 1] /\ p \in Nat
      BY <1>4, <1>6
    <3>2. i \in Ids(got) \cup {ch[q].id : q \in 1..(p + 1)}
      BY <2>1, <2>2, <3>1 DEF AtHomeInv, CompleteChannel
    <3>3. ASSUME NEW q \in 1..(p + 1) PROVE ch[q].id \in Ids(longer) \cup {rest[k].id : k \in 1..p}
      <4>1. CASE q = 1
        BY <1>4, <1>7, <4>1
      <4>2. CASE q # 1
        <5>1. q - 1 \in 1..p /\ q - 1 \in 1..(Len(ch) - 1) /\ (q - 1) + 1 = q
          BY <3>1, <4>2, <1>4, <1>6
        <5>2. rest[q - 1] = ch[q]
          BY <5>1, <1>4
        <5> QED
          BY <5>1, <5>2
      <4> QED
        BY <4>1, <4>2
    <3> QED
      BY <1>7, <3>2, <3>3
  <2>10. Complete(c, r)'
    <3>1. \A i \in Owed(c, r) \ Unsent(r) : i \in Ids(got) \cup Ids(ch)
      BY <2>1, <2>2 DEF AtHomeInv, Complete
    <3> QED
      BY <1>7, <1>8, <2>3, <2>4, <2>7, <3>1 DEF Complete
  <2>11. Ids(rest) \subseteq Appended(r) /\ head.id \in Appended(r)
    BY <1>8, <2>1 DEF AtHomeInv
  <2>12. client'[c].since <= Len(numbered'[r])
    BY <1>2, <1>3, <2>1 DEF AtHomeInv
  <2> QED
    BY <1>2, <2>3, <2>5, <2>6, <2>7, <2>8, <2>9, <2>10, <2>11, <2>12 DEF AtHomeInv
<1> QED
  BY <1>2, <1>3, <1>9, <1>10, ClientFrame

LEMMA DisconnectStep ==
    ASSUME IInv, NEW c \in Clients, Disconnect(c)
    PROVE  IInv'
<1> DEFINE cl == client[c]
           new == Gone(cl)
<1>1. TypeOK /\ HomesOK(c) /\ cl \in ClientRecord
  BY DEF IInv, TypeOK
<1>2. /\ new \in ClientRecord /\ new.to = NoReplica /\ new.ch = <<>>
      /\ new.home = cl.home /\ new.since = cl.since
      /\ new.cursor = cl.cursor /\ new.got = cl.got /\ new.excuse = cl.excuse
  BY <1>1, GoneEffect
<1> HIDE DEF new
<1>3. client'[c] = new /\ \A d \in Clients \ {c} : client'[d] = client[d]
  BY <1>1 DEF Disconnect, TypeOK, new
<1>4. UNCHANGED <<worker, numbered, history, boots>>
      /\ client' = [d \in Clients |-> client'[d]]
  BY <1>1 DEF Disconnect, TypeOK
<1>5. HomesOK(c)'
  BY <1>1, <1>2, <1>3, <1>4 DEF HomesOK
<1>6. ASSUME NEW r \in Replicas, AtHome(c, r)', client'[c].excuse = {}
      PROVE  AtHomeInv(c, r)'
  <2>1. AtHomeInv(c, r)
    BY <1>2, <1>3, <1>4, <1>6 DEF AtHome, IInv
  <2>2. Appended(r)' = Appended(r) /\ Unsent(r)' = Unsent(r)
    BY <1>4 DEF InFlight, Appended, Unsent
  <2>3. Owed(c, r)' = Owed(c, r)
    BY <1>2, <1>3, <1>4, <2>2 DEF Owed
  <2>4. NoneOvertaken(c, r)'
    BY <1>2, <1>3, <2>1, <2>2 DEF AtHomeInv, NoneOvertaken
  <2>5. HistorySorted(c, r)' /\ HistoryReaches(c, r)'
    BY <1>2, <1>3, <1>4, <2>1, <2>2 DEF AtHomeInv, HistorySorted, HistoryReaches, Ids
  <2>6. CompleteToCursor(c, r)'
    BY <1>2, <1>3, <2>1, <2>3 DEF AtHomeInv, CompleteToCursor, Ids
  <2>7. client'[c].to # r
    BY <1>2, <1>3, NoReplicaAssumption
  <2>8. Ids(client[c].ch)' = {}
    BY <1>2, <1>3 DEF Ids
  <2>9. client'[c].since <= Len(numbered'[r]) /\ client'[c].cursor \in Appended(r)' \cup {0}
    BY <1>2, <1>3, <1>4, <2>1, <2>2 DEF AtHomeInv
  <2> QED
    BY <2>4, <2>5, <2>6, <2>7, <2>8, <2>9 DEF AtHomeInv
<1> QED
  BY <1>2, <1>3, <1>4, <1>5, <1>6, ClientFrame
(* The history holds whatever was appended after the client's number, if   *)
(* that is no more than it can hold: what it lacks is older than all it    *)
(* has, and it would be full.                                              *)
LEMMA InReach ==
    ASSUME IInv, NEW c \in Clients, NEW r \in Replicas, AtHomeInv(c, r),
           NEW last \in Nat, ~OutOfReach(r, last),
           NEW i \in Appended(r), i > last, i > client[c].since
    PROVE  i \in Ids(history[r])
<1> SUFFICES ASSUME i \notin Ids(history[r]) PROVE FALSE
  OBVIOUS
<1> DEFINE h == history[r]
           K == Ids(h)
           Missed == ((last + 1)..Len(numbered[r])) \ InFlight(r, {"append"})
<1>1. TypeOK /\ WorkersOK /\ HistoryOK(r) /\ h \in Seq(Notice) /\ Len(h) \in Nat
      /\ HistorySize \in Nat
  BY SizesAssumption DEF IInv, TypeOK
<1>2. Len(h) = HistorySize /\ \A k \in K : i < k
  BY DEF AtHomeInv, HistoryReaches
<1>3. Appended(r) \subseteq 1..Len(numbered[r]) /\ Len(numbered[r]) \in Nat
  BY <1>1, InFlightNumbered
<1>4. K \subseteq Appended(r)
  BY <1>1 DEF HistoryOK, Ids
<1>5. K \cup {i} \subseteq Missed
  <2> SUFFICES ASSUME NEW k \in K \cup {i} PROVE k \in Missed
    OBVIOUS
  <2>1. k \in Appended(r) /\ k > last
    <3>1. CASE k = i
      BY <3>1
    <3>2. CASE k \in K
      <4>1. i < k /\ k \in Nat /\ i \in Nat
        BY <1>2, <1>3, <1>4, <3>2
      <4> QED
        BY <1>4, <3>2, <4>1
    <3> QED
      BY <3>1, <3>2
  <2>2. k \in 1..Len(numbered[r]) /\ k \notin InFlight(r, {"append"})
    BY <1>3, <2>1 DEF Appended
  <2>3. k \in (last + 1)..Len(numbered[r])
    BY <1>3, <2>1, <2>2
  <2> QED
    BY <2>2, <2>3
<1>6. IsFiniteSet(Missed) /\ Cardinality(Missed) \in Nat /\ Cardinality(Missed) <= HistorySize
  <2> DEFINE n == Len(numbered[r])
             m == last + 1
  <2>1. m \in Int /\ n \in Int
    BY <1>3
  <2>2. IsFiniteSet(m..n)
    <3> HIDE DEF m, n
    <3> QED
      BY <2>1, FS_Interval
  <2>3. Missed \in SUBSET (m..n)
    OBVIOUS
  <2>4. ~(Cardinality(Missed) > HistorySize)
    BY DEF OutOfReach
  <2> HIDE DEF Missed, m, n
  <2>5. IsFiniteSet(Missed)
    BY <2>2, <2>3, FS_Subset
  <2>6. Cardinality(Missed) \in Nat
    BY <2>5, FS_CardinalityType
  <2> QED
    BY <2>4, <2>5, <2>6, <1>1
<1>7. IsFiniteSet(K) /\ Cardinality(K) = HistorySize
  <2> DEFINE f == [p \in 1..Len(h) |-> h[p].id]
  <2>1. DOMAIN h = 1..Len(h)
    BY <1>1
  <2>2. f \in [1..Len(h) -> K] /\ \A p, q \in 1..Len(h) : f[p] = f[q] => p = q
    BY <1>1, <2>1 DEF HistoryOK, Ids
  <2>3. \A k \in K : \E p \in 1..Len(h) : f[p] = k
    BY <2>1 DEF Ids
  <2> DEFINE D == 1..Len(h)
  <2> HIDE DEF f, K
  <2>4. f \in Bijection(D, K)
    BY <2>2, <2>3 DEF Bijection, Injection, Surjection, IsInjective
  <2>5. ExistsBijection(D, K)
    BY <2>4 DEF ExistsBijection
  <2>6. IsFiniteSet(D) /\ Cardinality(D) = Len(h)
    <3> DEFINE n == Len(h)
    <3>1. n \in Nat
      BY <1>1
    <3> HIDE DEF n
    <3>2. IsFiniteSet(1..n) /\ Cardinality(1..n) = n
      BY <3>1, FS_Interval
    <3> QED
      BY <3>2 DEF n
  <2> HIDE DEF D
  <2> QED
    BY <1>2, <2>5, <2>6, FS_Bijection
<1> DEFINE more == K \cup {i}
<1>8. Cardinality(more) = HistorySize + 1
  <2>1. i \notin K
    OBVIOUS
  <2> HIDE DEF K
  <2> QED
    BY <1>7, <2>1, FS_AddElement
<1>9. Cardinality(more) <= Cardinality(Missed)
  <2>1. more \in SUBSET Missed
    BY <1>5
  <2> HIDE DEF more, Missed
  <2> QED
    BY <1>6, <2>1, FS_Subset
<1> HIDE DEF Missed, more
<1> QED
  BY <1>1, <1>6, <1>8, <1>9

(* A client comes back within reach: the replay has all it is owed beyond  *)
(* its number, in order.                                                   *)
LEMMA ReplayComplete ==
    ASSUME IInv, NEW c \in Clients, NEW r \in Replicas, AtHomeInv(c, r),
           ~OutOfReach(r, client[c].cursor), NEW ch, ch = Newer(c, r, client[c].cursor)
    PROVE  /\ Ids(ch) \subseteq Appended(r)
           /\ \A i \in Owed(c, r) : i \in Ids(client[c].got) \cup Ids(ch)
           /\ \A p \in DOMAIN ch : \A i \in Owed(c, r) : i <= ch[p].id =>
                i \in Ids(client[c].got) \cup {ch[q].id : q \in 1..p}
<1> DEFINE h == history[r]
           last == client[c].cursor
           got == client[c].got
<1>1. TypeOK /\ WorkersOK /\ HistoryOK(r) /\ h \in Seq(Notice) /\ last \in Nat
      /\ client[c].since \in Nat
  BY DEF IInv, TypeOK, ClientRecord
<1>2. PICK kept \in [DOMAIN ch -> DOMAIN h] :
        /\ \A k \in DOMAIN kept : ch[k] = h[kept[k]]
        /\ \A p \in DOMAIN h : h[p].id > last /\ Matches(c, h[p].event)
             => \E k \in DOMAIN kept : kept[k] = p
        /\ \A j, k \in DOMAIN kept : j < k => kept[j] < kept[k]
  <2>1. PICK kept : NewerOnes(c, r, last, ch, kept)
    BY <1>1, NewerOrder
  <2> QED
    BY <2>1 DEF NewerOnes
<1>3. ch \in Seq(Notice)
  BY <1>1, NewerOrder
<1>4. DOMAIN kept = DOMAIN ch /\ DOMAIN ch = 1..Len(ch) /\ Len(ch) \in Nat
      /\ DOMAIN h = 1..Len(h)
  BY <1>1, <1>2, <1>3
<1>5. \A p \in DOMAIN h : h[p].id \in Appended(r) /\ h[p].event = numbered[r][h[p].id]
  BY <1>1 DEF HistoryOK
<1>6. Appended(r) \subseteq Nat
  <2>1. Appended(r) \subseteq 1..Len(numbered[r])
    BY <1>1, InFlightNumbered
  <2> QED
    BY <2>1
<1>7. \A p, q \in DOMAIN h : p < q /\ h[p].id > client[c].since => h[p].id < h[q].id
  BY DEF AtHomeInv, HistorySorted
<1>8. \A i \in Owed(c, r) : i \in Appended(r) /\ i > client[c].since
                            /\ Matches(c, numbered[r][i])
  BY DEF Owed
<1>9. \A i \in Owed(c, r) : i <= last => i \in Ids(got)
  BY DEF AtHomeInv, CompleteToCursor
<1>10. ASSUME NEW i \in Owed(c, r), i > last
       PROVE  \E k \in DOMAIN ch : ch[k].id = i
  <2>1. i \in Ids(h)
    BY <1>1, <1>8, <1>10, InReach
  <2>2. PICK p \in DOMAIN h : h[p].id = i
    BY <2>1 DEF Ids
  <2>3. Matches(c, h[p].event)
    BY <1>5, <1>8, <2>2
  <2>4. PICK k \in DOMAIN kept : kept[k] = p
    BY <1>2, <1>10, <2>2, <2>3
  <2> QED
    BY <1>2, <1>4, <2>2, <2>4
<1>11. \A i \in Owed(c, r) : i \in Nat /\ (i <= last \/ i > last)
  BY <1>1, <1>6, <1>8
<1> HIDE DEF h, last, got
<1>12. Ids(ch) \subseteq Appended(r)
  BY <1>2, <1>4, <1>5 DEF Ids
<1>13. \A i \in Owed(c, r) : i \in Ids(got) \cup Ids(ch)
  BY <1>9, <1>10, <1>11 DEF Ids
<1>14. ASSUME NEW p \in DOMAIN ch, NEW i \in Owed(c, r), i <= ch[p].id
       PROVE  i \in Ids(got) \cup {ch[q].id : q \in 1..p}
  <2>1. CASE i <= last
    BY <1>9, <2>1
  <2>2. CASE i > last
    <3>1. PICK k \in DOMAIN ch : ch[k].id = i
      BY <1>10, <2>2
    <3>2. k <= p
      <4> SUFFICES ASSUME k > p PROVE FALSE
        BY <1>4
      <4>1. kept[p] < kept[k] /\ kept[p] \in DOMAIN h /\ kept[k] \in DOMAIN h
        BY <1>2, <1>4
      <4>2. ch[p] = h[kept[p]] /\ ch[k] = h[kept[k]]
        BY <1>2, <1>4
      <4>3. ch[p].id > client[c].since /\ ch[p].id \in Nat
        <5>1. ch[p].id \in Nat
          BY <1>5, <1>6, <4>1, <4>2
        <5> QED
          BY <5>1, <1>1, <1>8, <1>11, <1>14
      <4>4. ch[p].id < ch[k].id
        BY <1>7, <4>1, <4>2, <4>3
      <4> QED
        BY <3>1, <4>3, <4>4, <1>11, <1>14
    <3>3. k \in 1..p
      BY <1>4, <3>2
    <3> QED
      BY <3>1, <3>3
  <2> QED
    BY <1>11, <2>1, <2>2
<1> QED
  BY <1>12, <1>13, <1>14 DEF got

LEMMA ConnectStep ==
    ASSUME IInv, NEW c \in Clients, NEW r \in Replicas, NEW remember \in BOOLEAN,
           Connect(c, r, remember)
    PROVE  IInv'
<1> DEFINE cl == client[c]
<1>1. TypeOK /\ WorkersOK /\ HomesOK(c) /\ cl \in ClientRecord
  BY DEF IInv, TypeOK
<1>2. UNCHANGED <<worker, numbered, history, boots>>
      /\ client' = [d \in Clients |-> client'[d]]
  BY <1>1 DEF Connect, TypeOK
<1>3. /\ \A d \in Clients \ {c} : client'[d] = client[d]
      /\ client'[c] \in ClientRecord
      /\ client'[c].to = r
      /\ \/ /\ client'[c].cursor = 0 /\ client'[c].got = <<>> /\ client'[c].ch = <<>>
            /\ client'[c].home = <<r, boots[r]>> /\ client'[c].since = Len(numbered[r])
         \/ /\ client[c].cursor > 0
            /\ client'[c].cursor = client[c].cursor /\ client'[c].got = client[c].got
            /\ client'[c].home = client[c].home /\ client'[c].since = client[c].since
            /\ client'[c].excuse = {} =>
                 /\ client[c].excuse = {} /\ AtHome(c, r)
                 /\ ~OutOfReach(r, client[c].cursor)
                 /\ client'[c].ch = Newer(c, r, client[c].cursor)
  <2> HIDE DEF cl
  <2>1. TypeOK
    BY <1>1
  <2>2. /\ \A d \in Clients \ {c} : client'[d] = client[d]
        /\ client'[c] \in ClientRecord
        /\ client'[c].to = r
    BY <2>1, ConnectEffect
  <2>3. \/ /\ client'[c].cursor = 0 /\ client'[c].got = <<>> /\ client'[c].ch = <<>>
           /\ client'[c].home = <<r, boots[r]>> /\ client'[c].since = Len(numbered[r])
        \/ /\ client[c].cursor > 0
           /\ client'[c].cursor = client[c].cursor /\ client'[c].got = client[c].got
           /\ client'[c].home = client[c].home /\ client'[c].since = client[c].since
           /\ client'[c].excuse = {} =>
                /\ client[c].excuse = {} /\ AtHome(c, r)
                /\ ~OutOfReach(r, client[c].cursor)
                /\ client'[c].ch = Newer(c, r, client[c].cursor)
    BY <2>1, ConnectEffect, Zenon
  <2> QED
    BY <2>2, <2>3
<1>4. boots[r] \in Nat /\ Len(numbered[r]) \in Nat
  BY <1>1 DEF TypeOK
<1>5. \A q \in Replicas : /\ Appended(q)' = Appended(q) /\ Unsent(q)' = Unsent(q)
                          /\ Appended(q) \subseteq 1..Len(numbered[q])
  BY <1>1, <1>2, InFlightNumbered DEF InFlight, Appended, Unsent
<1>6. CASE /\ client'[c].cursor = 0 /\ client'[c].got = <<>> /\ client'[c].ch = <<>>
           /\ client'[c].home = <<r, boots[r]>> /\ client'[c].since = Len(numbered[r])
  <2>1. HomesOK(c)'
    BY <1>2, <1>3, <1>4, <1>6 DEF HomesOK, AtHome
  <2>2. ASSUME NEW q \in Replicas, AtHome(c, q)', client'[c].excuse = {}
        PROVE  AtHomeInv(c, q)'
    <3>1. q = r
      BY <1>6, <2>2 DEF AtHome
    <3>2. \A i \in Appended(r)' : ~(i > client'[c].since)
      BY <1>4, <1>5, <1>6
    <3>3. Owed(c, r)' = {}
      BY <3>2 DEF Owed
    <3>4. NoneOvertaken(c, r)'
      BY <3>2 DEF NoneOvertaken
    <3>5. HistorySorted(c, r)'
      <4>1. \A p \in DOMAIN history[r] : history[r][p].id \in Appended(r)
        BY DEF IInv, HistoryOK
      <4> QED
        BY <1>2, <1>5, <3>2, <4>1 DEF HistorySorted
    <3>6. HistoryReaches(c, r)'
      BY <3>2 DEF HistoryReaches
    <3>7. CompleteToCursor(c, r)' /\ CompleteChannel(c, r)' /\ Complete(c, r)'
      BY <3>3 DEF CompleteToCursor, CompleteChannel, Complete
    <3>8. Ids(client[c].ch)' = {}
      BY <1>6 DEF Ids
    <3>9. client'[c].since <= Len(numbered'[r]) /\ client'[c].cursor \in Appended(r)' \cup {0}
      BY <1>2, <1>4, <1>6
    <3> QED
      BY <3>1, <3>4, <3>5, <3>6, <3>7, <3>8, <3>9 DEF AtHomeInv
  <2> QED
    BY <1>2, <1>3, <2>1, <2>2, ClientFrame
<1>7. CASE /\ client[c].cursor > 0
           /\ client'[c].cursor = client[c].cursor /\ client'[c].got = client[c].got
           /\ client'[c].home = client[c].home /\ client'[c].since = client[c].since
           /\ client'[c].excuse = {} =>
                /\ client[c].excuse = {} /\ AtHome(c, r)
                /\ ~OutOfReach(r, client[c].cursor)
                /\ client'[c].ch = Newer(c, r, client[c].cursor)
  <2>1. HomesOK(c)'
    BY <1>1, <1>2, <1>3, <1>7 DEF HomesOK, AtHome
  <2>2. ASSUME NEW q \in Replicas, AtHome(c, q)', client'[c].excuse = {}
        PROVE  AtHomeInv(c, q)'
    <3>1. /\ q = r /\ client[c].excuse = {} /\ AtHome(c, r) /\ ~OutOfReach(r, client[c].cursor)
          /\ client'[c].ch = Newer(c, r, client[c].cursor)
      BY <1>2, <1>7, <2>2 DEF AtHome
    <3>2. AtHomeInv(c, r)
      BY <3>1 DEF IInv
    <3> DEFINE ch == client'[c].ch
    <3>3. /\ Ids(ch) \subseteq Appended(r)
          /\ \A i \in Owed(c, r) : i \in Ids(client[c].got) \cup Ids(ch)
          /\ \A p \in DOMAIN ch : \A i \in Owed(c, r) : i <= ch[p].id =>
               i \in Ids(client[c].got) \cup {ch[k].id : k \in 1..p}
      <4>1. ch = Newer(c, r, client[c].cursor)
        BY <3>1
      <4> HIDE DEF ch
      <4> QED
        BY <3>1, <3>2, <4>1, ReplayComplete
    <3>4. Owed(c, r)' = Owed(c, r)
      BY <1>2, <1>5, <1>7 DEF Owed
    <3>5. NoneOvertaken(c, r)'
      BY <1>5, <1>7, <3>2 DEF AtHomeInv, NoneOvertaken
    <3>6. HistorySorted(c, r)' /\ HistoryReaches(c, r)'
      BY <1>2, <1>5, <1>7, <3>2 DEF AtHomeInv, HistorySorted, HistoryReaches, Ids
    <3>7. CompleteToCursor(c, r)'
      BY <1>7, <3>2, <3>4 DEF AtHomeInv, CompleteToCursor, Ids
    <3>8. Ids(client[c].ch)' = Ids(ch) /\ Ids(client[c].got)' = Ids(client[c].got)
      BY <1>7 DEF Ids
    <3>9. CompleteChannel(c, r)'
      BY <3>3, <3>4, <3>8 DEF CompleteChannel
    <3>10. Complete(c, r)'
      BY <3>3, <3>4, <3>8 DEF Complete
    <3>11. client'[c].since <= Len(numbered'[r]) /\ client'[c].cursor \in Appended(r)' \cup {0}
      BY <1>2, <1>5, <1>7, <3>2 DEF AtHomeInv
    <3> QED
      BY <1>5, <3>1, <3>3, <3>5, <3>6, <3>7, <3>8, <3>9, <3>10, <3>11 DEF AtHomeInv
  <2> QED
    BY <1>2, <1>3, <2>1, <2>2, ClientFrame
<1> QED
  BY <1>3, <1>6, <1>7
------------------------------------------------------------------------------
(* A replica restarts: nobody is at home at the new hub, and whoever was   *)
(* connected to the old one is not connected.                              *)

LEMMA RestartStep ==
    ASSUME IInv, NEW r \in Replicas, Restart(r)
    PROVE  IInv'
<1>1. TypeOK /\ WorkersOK /\ boots \in [Replicas -> Nat]
  BY DEF IInv, TypeOK
<1>2. /\ boots' = [boots EXCEPT ![r] = @ + 1]
      /\ numbered' = [numbered EXCEPT ![r] = <<>>]
      /\ history' = [history EXCEPT ![r] = <<>>]
      /\ worker' = [w \in Workers |-> IF w[1] = r THEN Idle ELSE worker[w]]
      /\ client' = [c \in Clients |-> IF client[c].to = r THEN Gone(client[c]) ELSE client[c]]
  BY DEF Restart
<1>3. Idle \in WorkerRecord /\ Idle.stage = "idle"
  BY DEF Idle, WorkerRecord
<1>4. \A c \in Clients :
        /\ client'[c] \in ClientRecord
        /\ client[c].to = r => client'[c].to = NoReplica
        /\ client[c].to # r => client'[c] = client[c]
        /\ client'[c].home = client[c].home /\ client'[c].excuse = client[c].excuse
  <2> SUFFICES ASSUME NEW c \in Clients
               PROVE  /\ client'[c] \in ClientRecord
                      /\ client[c].to = r => client'[c].to = NoReplica
                      /\ client[c].to # r => client'[c] = client[c]
                      /\ client'[c].home = client[c].home
                      /\ client'[c].excuse = client[c].excuse
    OBVIOUS
  <2> DEFINE cl == client[c]
             gone == Gone(cl)
  <2>1. cl \in ClientRecord
    BY <1>1 DEF TypeOK
  <2>2. gone \in ClientRecord /\ gone.to = NoReplica /\ gone.home = cl.home
        /\ gone.excuse = cl.excuse
    BY <2>1, GoneEffect
  <2>3. client'[c] = IF cl.to = r THEN gone ELSE cl
    BY <1>2
  <2> HIDE DEF gone
  <2> QED
    BY <2>1, <2>2, <2>3
<1>5. TypeOK'
  <2>1. client' \in [Clients -> ClientRecord]
    BY <1>2, <1>4
  <2>2. worker' \in [Workers -> WorkerRecord]
    BY <1>1, <1>2, <1>3 DEF TypeOK
  <2>3. boots' \in [Replicas -> Nat]
    BY <1>1, <1>2
  <2>4. numbered' \in [Replicas -> Seq(Events)] /\ history' \in [Replicas -> Seq(Notice)]
    BY <1>1, <1>2 DEF TypeOK
  <2> QED
    BY <2>1, <2>2, <2>3, <2>4 DEF TypeOK
<1>6. \A q \in Replicas \ {r} : /\ numbered'[q] = numbered[q] /\ history'[q] = history[q]
                                /\ boots'[q] = boots[q]
  BY <1>1, <1>2 DEF TypeOK
<1>7. numbered'[r] = <<>> /\ history'[r] = <<>> /\ boots'[r] = boots[r] + 1
  BY <1>1, <1>2 DEF TypeOK
<1>8. \A w \in Workers : /\ w[1] = r => worker'[w].stage = "idle"
                         /\ w[1] # r => worker'[w] = worker[w]
  BY <1>2, <1>3
<1>9. WorkersOK'
  <2>1. \A w \in Workers : Busy(w)' => Busy(w) /\ w[1] \in Replicas \ {r} /\ worker'[w] = worker[w]
    BY <1>8, WorkerPlace DEF Busy
  <2>2. \A w \in Workers : worker'[w].stage = "handle" \/ Busy(w)' => worker'[w].hand # <<>>
    BY <1>1, <1>8, <2>1 DEF WorkersOK
  <2>3. \A w \in Workers : Busy(w)' =>
          /\ worker'[w].id \in 1..Len(numbered'[w[1]])
          /\ numbered'[w[1]][worker'[w].id] = Head(worker'[w].hand)
    BY <1>1, <1>6, <2>1 DEF WorkersOK
  <2>4. \A v, w \in Workers : Busy(v)' /\ Busy(w)' /\ v[1] = w[1] /\ v # w
          => worker'[v].id # worker'[w].id
    BY <1>1, <2>1 DEF WorkersOK
  <2> QED
    BY <2>2, <2>3, <2>4 DEF WorkersOK
<1>10. \A q \in Replicas \ {r} : SameHub(q)
  BY <1>6, <1>8 DEF SameHub, InFlight
<1>11. \A q \in Replicas : HistoryOK(q)'
  <2>1. HistoryOK(r)'
    BY <1>7, SizesAssumption DEF HistoryOK
  <2> QED
    BY <1>10, <2>1, HistoryFrame DEF IInv
<1>12. ASSUME NEW c \in Clients PROVE ~AtHome(c, r)'
  <2>1. client[c].home[1] = r => client[c].home[2] <= boots[r]
    BY DEF IInv, HomesOK
  <2>2. AtHome(c, r)' => client[c].home[1] = r /\ client[c].home[2] = boots[r] + 1
    BY <1>4, <1>7 DEF AtHome
  <2>3. boots[r] \in Nat
    BY <1>1
  <2> QED
    BY <2>1, <2>2, <2>3
<1>13. ASSUME NEW c \in Clients PROVE HomesOK(c)'
  <2>1. HomesOK(c) /\ client[c] \in ClientRecord
    BY <1>1 DEF IInv, TypeOK
  <2>2. client'[c].home[1] \in Replicas => client'[c].home[2] <= boots'[client'[c].home[1]]
    <3>1. client[c].home[2] \in Nat
      BY <2>1 DEF ClientRecord, Hubs
    <3>2. client[c].home[1] \in Replicas =>
            boots'[client[c].home[1]] >= boots[client[c].home[1]]
      BY <1>1, <1>6, <1>7
    <3>3. client[c].home[1] \in Replicas =>
            boots'[client[c].home[1]] \in Nat /\ boots[client[c].home[1]] \in Nat
      BY <1>1, <1>5 DEF TypeOK
    <3> QED
      BY <1>4, <2>1, <3>1, <3>2, <3>3 DEF HomesOK
  <2>3. client'[c].to # NoReplica /\ client'[c].excuse = {} => AtHome(c, client[c].to)'
    <3> SUFFICES ASSUME client'[c].to # NoReplica, client'[c].excuse = {}
                 PROVE  AtHome(c, client[c].to)'
      OBVIOUS
    <3>1. client[c].to # r /\ client'[c] = client[c]
      BY <1>4
    <3>2. client[c].to \in Replicas \ {r} /\ client[c].home = <<client[c].to, boots[client[c].to]>>
      BY <2>1, <3>1 DEF HomesOK, AtHome, ClientRecord, Places
    <3> QED
      BY <1>6, <3>1, <3>2 DEF AtHome
  <2> QED
    BY <2>2, <2>3 DEF HomesOK
<1>14. ASSUME NEW c \in Clients, NEW q \in Replicas, AtHome(c, q)', client'[c].excuse = {}
       PROVE  AtHomeInv(c, q)'
  <2>1. q # r
    BY <1>12, <1>14
  <2>2. AtHome(c, q) /\ client[c].excuse = {}
    BY <1>4, <1>6, <1>14, <2>1 DEF AtHome
  <2>3. client[c].to # r
    BY <2>1, <2>2, NoReplicaAssumption DEF IInv, HomesOK, AtHome
  <2> QED
    BY <1>4, <1>10, <2>1, <2>2, <2>3, AtHomeFrame DEF IInv
<1> QED
  BY <1>5, <1>9, <1>11, <1>13, <1>14 DEF IInv

------------------------------------------------------------------------------
(* The theorems.                                                           *)

LEMMA InitIInv == Init => IInv
<1> SUFFICES ASSUME Init PROVE IInv
  OBVIOUS
<1>1. TypeOK
  BY InitType
<1>2. \A w \in Workers : worker[w].stage = "idle"
  BY DEF Init, Idle
<1>3. WorkersOK
  BY <1>2 DEF WorkersOK, Busy
<1>4. \A r \in Replicas : HistoryOK(r)
  BY SizesAssumption DEF Init, HistoryOK
<1>5. \A c \in Clients : client[c].to = NoReplica /\ client[c].home = <<NoReplica, 0>>
  BY DEF Init
<1>6. \A c \in Clients : HomesOK(c) /\ \A r \in Replicas : ~AtHome(c, r)
  BY <1>5, NoReplicaAssumption DEF HomesOK, AtHome
<1> QED
  BY <1>1, <1>3, <1>4, <1>6 DEF IInv

LEMMA NextIInv ==
    ASSUME IInv, [Next]_vars
    PROVE  IInv'
<1>1. ASSUME NEW w \in Workers, Step(w) \/ FetchFails(w) PROVE IInv'
  BY <1>1, QuietStep, NextIDStep, AppendHistoryStep, SendStep DEF Step
<1>2. ASSUME NEW c \in Clients, NEW r \in Replicas, NEW remember \in BOOLEAN,
             Connect(c, r, remember)
      PROVE  IInv'
  BY <1>2, ConnectStep
<1>3. ASSUME NEW c \in Clients, Write(c) \/ Disconnect(c) PROVE IInv'
  BY <1>3, WriteStep, DisconnectStep
<1>4. ASSUME NEW r \in Replicas, Restart(r) PROVE IInv'
  BY <1>4, RestartStep
<1>5. CASE UNCHANGED vars
  <2>1. UNCHANGED <<worker, numbered, history, boots, client>>
    BY <1>5 DEF vars
  <2>2. TypeOK' /\ WorkersOK'
    BY <2>1 DEF IInv, TypeOK, WorkersOK, Busy
  <2>3. \A r \in Replicas : SameHub(r)
    BY <2>1 DEF SameHub, InFlight
  <2>4. \A r \in Replicas : HistoryOK(r)'
    BY <2>3, HistoryFrame DEF IInv
  <2>5. \A c \in Clients : HomesOK(c)'
    BY <2>1 DEF IInv, HomesOK, AtHome
  <2>6. \A c \in Clients, r \in Replicas :
          AtHome(c, r)' /\ client'[c].excuse = {} => AtHomeInv(c, r)'
    BY <2>1, <2>3, AtHomeFrame DEF IInv, AtHome
  <2> QED
    BY <2>2, <2>4, <2>5, <2>6 DEF IInv
<1> QED
  BY <1>1, <1>2, <1>3, <1>4, <1>5 DEF Next

LEMMA NoGapFromIInv == IInv => NoGap
<1> SUFFICES ASSUME IInv, NEW c \in Clients, client[c].to # NoReplica, client[c].excuse = {},
                    NEW i \in (client[c].since + 1)..Len(numbered[client[c].to]),
                    Matches(c, numbered[client[c].to][i]),
                    i \notin InFlight(client[c].to, {"append", "send"})
             PROVE  i \in {n.id : n \in Elements(client[c].got) \cup Elements(client[c].ch)}
  BY DEF NoGap
<1> DEFINE r == client[c].to
<1>1. client[c] \in ClientRecord /\ TypeOK
  BY DEF IInv, TypeOK
<1>2. r \in Replicas /\ client[c].since \in Nat
  BY <1>1 DEF ClientRecord, Places
<1>3. AtHome(c, r)
  BY DEF IInv, HomesOK
<1>4. Complete(c, r)
  BY <1>2, <1>3 DEF IInv, AtHomeInv
<1>5. i \in 1..Len(numbered[r]) /\ i > client[c].since
  <2>1. Len(numbered[r]) \in Nat
    BY <1>1, <1>2 DEF TypeOK
  <2> QED
    BY <1>2, <2>1
<1>6. i \notin InFlight(r, {"append"})
  BY DEF InFlight
<1>7. i \in Owed(c, r) \ Unsent(r)
  BY <1>5, <1>6 DEF Owed, Appended, Unsent
<1>8. i \in Ids(client[c].got) \/ i \in Ids(client[c].ch)
  BY <1>4, <1>7 DEF Complete
<1> QED
  BY <1>8 DEF Ids, Elements

(* The inductive invariant: the history of a replica is, from the first    *)
(* number a client without an excuse has a right to, sorted and without a  *)
(* hole at its newer end (Hub.appendHistory), and what the client holds is *)
(* complete up to its Last-Event-ID and to each entry of its channel.      *)
THEOREM HubInvariant == Spec => []IInv
<1>1. Init => IInv
  BY InitIInv
<1>2. IInv /\ [Next]_vars => IInv'
  BY NextIInv
<1> QED
  BY <1>1, <1>2, PTL DEF Spec

(* A connected client without an excuse misses nothing (Broadcast,         *)
(* SubscribeWithReplay and the write loop of /sse together): for any       *)
(* number of replicas, consumers and connections, any channel and history  *)
(* size, and crashes at any point.                                         *)
THEOREM ClientMissesNothing == Spec => []NoGap
<1>1. IInv => NoGap
  BY NoGapFromIInv
<1> QED
  BY <1>1, HubInvariant, PTL

------------------------------------------------------------------------------
(* How often a client receives a number: the invariant.                    *)

(* What the client has, and what is on its channel after that.             *)
Line(c) == client[c].got \o client[c].ch

SortedAbove(h, x) ==
    \A p, q \in DOMAIN h : p < q /\ h[p].id > x /\ h[q].id > x => h[p].id < h[q].id

(* Above x the history is sorted, and no number is behind an appended one. *)
FineAbove(r, x) ==
    /\ SortedAbove(history[r], x)
    /\ \A i \in Appended(r) : \A j \in Unsent(r) \ {i} : i > x => j > i

(* Of two numbers in hand the larger is the replica's last, and above a    *)
(* number in hand the history is sorted.                                   *)
TwoInHand ==
    \A v, w \in Workers : Busy(v) /\ Busy(w) /\ v[1] = w[1] /\ worker[v].id < worker[w].id
        => worker[w].id = Len(numbered[w[1]])
SortedBehind == \A w \in Workers : Busy(w) => SortedAbove(history[w[1]], worker[w].id)

(* A line of notifications repeats a number at most once, and only next to *)
(* itself; without a replay not at all.                                    *)
Repeating(s, again) ==
    /\ \A p, q \in DOMAIN s : p < q => s[p].id <= s[q].id
    /\ ~again => \A p, q \in DOMAIN s : p < q => s[p].id < s[q].id
    /\ \A p, q, t \in DOMAIN s : p < q /\ q < t => s[p].id < s[t].id

(* What may still be sent comes after the line; a number that is replayed  *)
(* before it is sent is the last of it.                                    *)
Sound(r, s, again) ==
    /\ Ids(s) \subseteq 1..Len(numbered[r])
    /\ \A x \in Ids(s) : FineAbove(r, x)
    /\ \A j \in Unsent(r), p \in DOMAIN s :
         s[p].id < j \/ (s[p].id = j /\ again /\ p = Len(s))

PlainInv(c) ==
    /\ client[c].to = NoReplica => client[c].ch = <<>>
    /\ client[c].to # NoReplica => AtHome(c, client[c].to)
    /\ client[c].cursor =
         IF client[c].got = <<>> THEN 0 ELSE client[c].got[Len(client[c].got)].id
    /\ Repeating(Line(c), client[c].resumed)
    /\ \A r \in Replicas : AtHome(c, r) => Sound(r, Line(c), client[c].resumed)

RepeatsInv ==
    /\ TwoInHand
    /\ SortedBehind
    /\ \A c \in Clients : Plain(c) => PlainInv(c)

------------------------------------------------------------------------------
(* Lines of notifications.                                                 *)

LEMMA LineIs ==
    ASSUME NEW a \in Seq(Notice), NEW b \in Seq(Notice)
    PROVE  /\ a \o b \in Seq(Notice)
           /\ Len(a \o b) = Len(a) + Len(b) /\ Len(a) \in Nat /\ Len(b) \in Nat
           /\ \A p \in 1..Len(a) : (a \o b)[p] = a[p]
           /\ \A p \in (Len(a) + 1)..(Len(a) + Len(b)) : (a \o b)[p] = b[p - Len(a)]
<1>1. Len(a) \in Nat /\ Len(b) \in Nat
  OBVIOUS
<1>2. /\ a \o b \in Seq(Notice) /\ Len(a \o b) = Len(a) + Len(b)
      /\ \A i \in 1..(Len(a) + Len(b)) : (a \o b)[i] = IF i <= Len(a) THEN a[i] ELSE b[i - Len(a)]
  BY ConcatProperties
<1> DEFINE c == a \o b
           m == Len(a)
           n == Len(b)
<1>3. /\ c \in Seq(Notice) /\ Len(c) = m + n /\ m \in Nat /\ n \in Nat
      /\ \A i \in 1..(m + n) : c[i] = IF i <= m THEN a[i] ELSE b[i - m]
  BY <1>1, <1>2
<1> HIDE DEF c, m, n
<1>4. (\A p \in 1..m : c[p] = a[p]) /\ (\A p \in (m + 1)..(m + n) : c[p] = b[p - m])
  BY <1>3
<1> QED
  BY <1>3, <1>4 DEF c, m, n

(* The write loop moves the head of the channel to the client.             *)
LEMMA LineMoves ==
    ASSUME NEW a \in Seq(Notice), NEW b \in Seq(Notice), b # <<>>
    PROVE  /\ Append(a, Head(b)) \o Tail(b) = a \o b
           /\ Append(a, Head(b)) # <<>>
           /\ Append(a, Head(b))[Len(Append(a, Head(b)))] = Head(b)
<1> DEFINE m == Len(a)
           n == Len(b)
           s == Append(a, Head(b))
           t == Tail(b)
<1>1. m \in Nat /\ n \in Nat /\ n > 0 /\ Head(b) \in Notice /\ Head(b) = b[1]
  OBVIOUS
<1>2. /\ s \in Seq(Notice) /\ Len(s) = m + 1 /\ s[m + 1] = b[1]
      /\ \A p \in 1..m : s[p] = a[p]
  BY <1>1
<1>3. /\ t \in Seq(Notice) /\ Len(t) = n - 1
      /\ \A p \in 1..(n - 1) : t[p] = b[p + 1]
  BY <1>1, HeadTailProperties
<1> HIDE DEF s, t
<1>4. /\ s \o t \in Seq(Notice) /\ Len(s \o t) = Len(s) + Len(t)
      /\ \A p \in 1..Len(s) : (s \o t)[p] = s[p]
      /\ \A p \in (Len(s) + 1)..(Len(s) + Len(t)) : (s \o t)[p] = t[p - Len(s)]
  BY <1>2, <1>3, LineIs
<1>5. /\ a \o b \in Seq(Notice) /\ Len(a \o b) = m + n
      /\ \A p \in 1..m : (a \o b)[p] = a[p]
      /\ \A p \in (m + 1)..(m + n) : (a \o b)[p] = b[p - m]
  BY LineIs
<1> HIDE DEF m, n
<1>6. Len(s \o t) = m + n
  BY <1>1, <1>2, <1>3, <1>4
<1>7. ASSUME NEW p \in 1..(m + n) PROVE (s \o t)[p] = (a \o b)[p]
  <2>1. p \in Nat
    BY <1>1
  <2>2. CASE p <= m
    BY <1>1, <1>2, <1>4, <1>5, <1>7, <2>1, <2>2
  <2>3. CASE p = m + 1
    <3>1. (s \o t)[p] = b[1]
      BY <1>1, <1>2, <1>4, <2>3
    <3>2. (a \o b)[p] = b[p - m] /\ p - m = 1
      BY <1>1, <1>5, <2>3
    <3> QED
      BY <3>1, <3>2
  <2>4. CASE p > m + 1
    <3>1. (s \o t)[p] = t[p - (m + 1)]
      BY <1>1, <1>2, <1>3, <1>4, <1>7, <2>1, <2>4
    <3>2. p - (m + 1) \in 1..(n - 1) /\ (p - (m + 1)) + 1 = p - m
      BY <1>1, <2>1, <2>4, <1>7
    <3>3. t[p - (m + 1)] = b[p - m]
      BY <1>3, <3>2
    <3> QED
      BY <1>1, <1>5, <1>7, <2>1, <2>4, <3>1, <3>3
  <2> QED
    <3>1. p <= m \/ p = m + 1 \/ p > m + 1
      BY <1>1, <2>1
    <3> QED
      BY <2>2, <2>3, <2>4, <3>1
<1>8. s \o t = a \o b
  <2> DEFINE u == s \o t
             v == a \o b
  <2>1. u \in Seq(Notice) /\ v \in Seq(Notice) /\ Len(u) = Len(v)
        /\ \A p \in 1..Len(u) : u[p] = v[p]
    BY <1>4, <1>5, <1>6, <1>7
  <2> HIDE DEF u, v
  <2>2. u = v
    BY <2>1, SeqEqual
  <2> QED
    BY <2>2 DEF u, v
<1> QED
  <2>1. s # <<>> /\ s[Len(s)] = Head(b)
    BY <1>1, <1>2
  <2> QED
    BY <1>8, <2>1 DEF s, t

(* What the channel held is lost: the rest of the line is as good.         *)
LEMMA LineCut ==
    ASSUME TypeOK, NEW a \in Seq(Notice), NEW b \in Seq(Notice), NEW again \in BOOLEAN,
           Repeating(a \o b, again)
    PROVE  /\ Repeating(a, again)
           /\ \A r \in Replicas : Sound(r, a \o b, again) => Sound(r, a, again)
<1> DEFINE s == a \o b
           m == Len(a)
           n == Len(s)
<1>1. /\ s \in Seq(Notice) /\ n \in Nat /\ m \in Nat /\ m <= n
      /\ DOMAIN s = 1..n /\ DOMAIN a = 1..m
      /\ \A p \in 1..m : s[p] = a[p]
  BY LineIs
<1> HIDE DEF s, m, n
<1>2. 1..m \subseteq 1..n
  BY <1>1
<1>3. Repeating(s, again)
  BY DEF s
<1>4. Repeating(a, again)
  <2>1. \A p, q \in 1..m : p < q => a[p].id <= a[q].id
    BY <1>1, <1>2, <1>3 DEF Repeating
  <2>2. ~again => \A p, q \in 1..m : p < q => a[p].id < a[q].id
    BY <1>1, <1>2, <1>3 DEF Repeating
  <2>3. \A p, q, t \in 1..m : p < q /\ q < t => a[p].id < a[t].id
    <3> SUFFICES ASSUME NEW p \in 1..m, NEW q \in 1..m, NEW t \in 1..m, p < q, q < t
                 PROVE  a[p].id < a[t].id
      OBVIOUS
    <3>1. p \in 1..n /\ q \in 1..n /\ t \in 1..n /\ a[p] = s[p] /\ a[t] = s[t]
      BY <1>1, <1>2
    <3> QED
      BY <1>1, <1>3, <3>1 DEF Repeating
  <2> QED
    BY <1>1, <2>1, <2>2, <2>3 DEF Repeating
<1>5. ASSUME NEW r \in Replicas, Sound(r, s, again) PROVE Sound(r, a, again)
  <2>1. Ids(a) \subseteq Ids(s)
    BY <1>1, <1>2 DEF Ids
  <2>2. \A j \in Unsent(r), p \in 1..m : a[p].id < j \/ (a[p].id = j /\ again /\ p = m)
    <3> SUFFICES ASSUME NEW j \in Unsent(r), NEW p \in 1..m, ~(a[p].id < j)
                 PROVE  a[p].id = j /\ again /\ p = m
      OBVIOUS
    <3>1. s[p].id = j /\ again /\ p = n
      BY <1>1, <1>2, <1>5 DEF Sound, n
    <3>2. p = m
      BY <1>1, <3>1
    <3> QED
      BY <1>1, <3>1, <3>2
  <2> QED
    BY <1>1, <1>5, <2>1, <2>2 DEF Sound, m
<1> QED
  BY <1>4, <1>5 DEF s

LEMMA NothingYet ==
    ASSUME NEW again
    PROVE  Repeating(<<>> \o <<>>, again) /\ \A r \in Replicas : Sound(r, <<>> \o <<>>, again)
<1>1. <<>> \o <<>> = <<>> /\ DOMAIN <<>> = {}
  OBVIOUS
<1> QED
  BY <1>1 DEF Repeating, Sound, Ids
------------------------------------------------------------------------------
(* The hub's side of a line.                                               *)

LEMMA SoundFrame ==
    ASSUME NEW r \in Replicas, SameHub(r), NEW s, NEW again, Sound(r, s, again)
    PROVE  Sound(r, s, again)'
BY SameHubNumbers DEF SameHub, Sound, FineAbove

LEMMA SoundNextID ==
    ASSUME IInv, NEW w \in Workers, NEW r, NEW n, NextIDIs(w, r, n),
           NEW s \in Seq(Notice), NEW again, Sound(r, s, again)
    PROVE  Sound(r, s, again)'
<1>1. TypeOK /\ WorkersOK /\ r \in Replicas
  BY DEF IInv, NextIDIs
<1>2. Appended(r)' = Appended(r) /\ Unsent(r)' = Unsent(r) \cup {n} /\ history'[r] = history[r]
  <2>1. history' = history
    BY DEF NextIDIs
  <2> QED
    BY <2>1, NextIDHub
<1> DEFINE m == Len(numbered[r])
<1>3. m \in Nat /\ n = m + 1 /\ Len(numbered'[r]) = n /\ Appended(r) \subseteq 1..m
  BY <1>1, InFlightNumbered DEF NextIDIs
<1>4. Ids(s) \subseteq 1..m
  BY DEF Sound
<1> HIDE DEF m
<1>5. Ids(s) \subseteq 1..n /\ \A x \in Ids(s) : x < n
  BY <1>3, <1>4
<1>6. \A i \in Appended(r) : i < n
  BY <1>3
<1>7. \A x \in Ids(s) : FineAbove(r, x)'
  BY <1>2, <1>6 DEF Sound, FineAbove
<1>8. \A p \in DOMAIN s : s[p].id < n
  BY <1>5 DEF Ids
<1> QED
  BY <1>2, <1>3, <1>5, <1>7, <1>8 DEF Sound

LEMMA AddedSorted ==
    ASSUME NEW h \in Seq(Notice), NEW notice \in Notice, NEW g, NEW d, NEW x \in Nat,
           AddedTo(h, notice, g, d), SortedAbove(h, x),
           notice.id > x => \A p \in DOMAIN h : h[p].id > x => h[p].id < notice.id
    PROVE  SortedAbove(g, x)
<1>1. /\ g \in Seq(Notice) /\ Len(g) = Len(h) + 1 - d /\ d \in {0, 1} /\ Len(h) \in Nat
      /\ Len(g) \in Nat /\ DOMAIN g = 1..Len(g) /\ DOMAIN h = 1..Len(h)
      /\ \A k \in 1..Len(g) : \/ k + d \in 1..Len(h) /\ g[k] = h[k + d]
                              \/ k + d = Len(h) + 1 /\ g[k] = notice
  BY DEF AddedTo
<1> SUFFICES ASSUME NEW j \in 1..Len(g), NEW k \in 1..Len(g), j < k, g[j].id > x, g[k].id > x
             PROVE  g[j].id < g[k].id
  BY <1>1 DEF SortedAbove
<1>2. j + d < k + d /\ k + d <= Len(h) + 1
  BY <1>1
<1>3. j + d \in 1..Len(h) /\ g[j] = h[j + d]
  BY <1>1, <1>2
<1>4. CASE k + d \in 1..Len(h) /\ g[k] = h[k + d]
  BY <1>1, <1>2, <1>3, <1>4 DEF SortedAbove
<1>5. CASE g[k] = notice
  BY <1>1, <1>3, <1>5
<1> QED
  BY <1>1, <1>4, <1>5

LEMMA SoundAppend ==
    ASSUME IInv, NEW w \in Workers, NEW r, NEW i, NEW d, AppendIs(w, r, i, d), ~Overtakes(w),
           NEW s \in Seq(Notice), NEW again, Sound(r, s, again)
    PROVE  Sound(r, s, again)'
<1>1. /\ TypeOK /\ WorkersOK /\ r \in Replicas /\ HistoryOK(r)
      /\ AddedTo(history[r], Current(w), history'[r], d)
      /\ Appended(r)' = Appended(r) \cup {i} /\ i \notin Appended(r) /\ i \in Unsent(r)
      /\ Unsent(r)' = Unsent(r) /\ numbered' = numbered /\ r = w[1] /\ i = worker[w].id
      /\ Current(w).id = i /\ Busy(w)
  BY DEF IInv, AppendIs, Busy
<1>2. /\ Appended(r) \subseteq 1..Len(numbered[r]) /\ Unsent(r) \subseteq 1..Len(numbered[r])
      /\ history[r] \in Seq(Notice) /\ Current(w) \in Notice /\ Len(numbered[r]) \in Nat
  BY <1>1, InFlightNumbered, CurrentType DEF TypeOK
<1>3. Appended(r) \subseteq Nat /\ Unsent(r) \subseteq Nat /\ i \in Nat
  BY <1>1, <1>2
<1>4. \A j \in Unsent(r) \ {i} : j > i
  <2>1. \A j \in Unsent(r) : ~(j < i)
    BY <1>1 DEF Overtakes, Unsent
  <2> QED
    BY <1>3, <2>1
<1>5. ASSUME NEW x \in Ids(s) PROVE FineAbove(r, x)'
  <2>1. FineAbove(r, x) /\ x \in Nat
    BY <1>2, <1>5 DEF Sound
  <2>2. \A p \in DOMAIN history[r] : history[r][p].id > x => history[r][p].id < i
    <3> SUFFICES ASSUME NEW p \in DOMAIN history[r], history[r][p].id > x
                 PROVE  history[r][p].id < i
      OBVIOUS
    <3>1. history[r][p].id \in Appended(r)
      BY <1>1 DEF HistoryOK
    <3>2. i \in Unsent(r) \ {history[r][p].id}
      BY <1>1, <3>1
    <3> QED
      BY <1>3, <2>1, <3>1, <3>2 DEF FineAbove
  <2>3. SortedAbove(history'[r], x)
    BY <1>1, <1>2, <2>1, <2>2, AddedSorted DEF FineAbove
  <2>4. ASSUME NEW k \in Appended(r) \cup {i}, NEW j \in Unsent(r) \ {k}, k > x PROVE j > k
    BY <1>4, <2>1, <2>4 DEF FineAbove
  <2> QED
    BY <1>1, <2>3, <2>4 DEF FineAbove
<1> QED
  BY <1>1, <1>5 DEF Sound

(* A number is sent: no smaller one is in flight, and the larger one that  *)
(* may be is the last of all, so above the number nothing is out of order. *)
LEMMA SoundSend ==
    ASSUME IInv, TwoInHand, SortedBehind, NEW w \in Workers, NEW r, NEW i, SendIs(w, r, i),
           ~Overtakes(w), NEW s \in Seq(Notice), NEW again \in BOOLEAN,
           Repeating(s, again), Sound(r, s, again), NEW notice, notice = Current(w)
    PROVE  /\ Sound(r, s, again)'
           /\ Repeating(Append(s, notice), again)
           /\ Sound(r, Append(s, notice), again)'
<1> DEFINE longer == Append(s, notice)
           m == Len(s)
<1>1. /\ TypeOK /\ WorkersOK /\ r \in Replicas /\ Busy(w)
      /\ Appended(r)' = Appended(r) /\ i \in Appended(r)
      /\ Unsent(r)' = Unsent(r) \ {i} /\ UNCHANGED <<numbered, history>>
      /\ r = w[1] /\ i = worker[w].id /\ notice \in Notice /\ notice.id = i /\ i \in Nat
  BY DEF IInv, SendIs, Busy
<1>2. /\ Appended(r) \subseteq 1..Len(numbered[r]) /\ Unsent(r) \subseteq 1..Len(numbered[r])
      /\ Len(numbered[r]) \in Nat
  BY <1>1, InFlightNumbered
<1>3. i \in Unsent(r)
  BY <1>1, OwnNumber DEF SendIs
<1>4. \A j \in Unsent(r) \ {i} : j > i
  <2>1. \A j \in Unsent(r) : ~(j < i)
    BY <1>1 DEF Overtakes, Unsent
  <2> QED
    BY <1>1, <1>2, <2>1
<1>5. FineAbove(r, i)'
  <2>1. SortedAbove(history[r], i)
    BY <1>1 DEF SortedBehind
  <2>2. ASSUME NEW k \in Appended(r), NEW j \in Unsent(r) \ {i}, j # k, k > i PROVE j > k
    <3>1. PICK v \in Workers : v[1] = r /\ worker[v].stage \in {"append", "send"} /\ j = worker[v].id
      BY DEF Unsent, InFlight
    <3>2. worker[w].id < worker[v].id /\ Busy(v)
      BY <1>1, <1>4, <3>1 DEF Busy
    <3>3. j = Len(numbered[r])
      BY <1>1, <3>1, <3>2 DEF TwoInHand
    <3> QED
      BY <1>2, <2>2, <3>3
  <2> QED
    BY <1>1, <2>1, <2>2 DEF FineAbove
<1>6. Sound(r, s, again)'
  <2>1. \A x \in Ids(s) : FineAbove(r, x)'
    BY <1>1 DEF Sound, FineAbove
  <2> QED
    BY <1>1, <2>1 DEF Sound
<1>7. /\ m \in Nat /\ DOMAIN s = 1..m /\ DOMAIN longer = 1..(m + 1) /\ Len(longer) = m + 1
      /\ longer[m + 1] = notice /\ \A p \in 1..m : longer[p] = s[p]
  BY <1>1
<1>12. \A p \in 1..m : s[p].id \in Nat
  <2>1. \A p \in 1..m : s[p] \in Notice
    OBVIOUS
  <2> QED
    BY <2>1 DEF Notice
<1> HIDE DEF longer, m
<1>8. \A p \in 1..(m + 1) : p \in 1..m \/ p = m + 1
  BY <1>7
<1>9. \A p \in 1..m : /\ s[p].id <= i /\ s[p].id \in Nat
                      /\ ~again \/ p # m => s[p].id < i
  <2> SUFFICES ASSUME NEW p \in 1..m
               PROVE  s[p].id <= i /\ s[p].id \in Nat /\ (~again \/ p # m => s[p].id < i)
    OBVIOUS
  <2>1. s[p].id \in Nat
    BY <1>12
  <2>2. s[p].id < i \/ (s[p].id = i /\ again /\ p = m)
    BY <1>3, <1>7 DEF Sound, m
  <2> QED
    BY <1>1, <2>1, <2>2
<1>10. Repeating(longer, again)
  <2>1. ASSUME NEW p \in 1..(m + 1), NEW q \in 1..(m + 1), p < q
        PROVE  longer[p].id <= longer[q].id /\ (~again => longer[p].id < longer[q].id)
    <3>1. p \in 1..m
      BY <1>7, <2>1
    <3>2. CASE q \in 1..m
      BY <1>7, <2>1, <3>1, <3>2 DEF Repeating
    <3>3. CASE q = m + 1
      BY <1>1, <1>7, <1>9, <3>1, <3>3
    <3> QED
      BY <1>8, <3>2, <3>3
  <2>2. ASSUME NEW p \in 1..(m + 1), NEW q \in 1..(m + 1), NEW t \in 1..(m + 1), p < q, q < t
        PROVE  longer[p].id < longer[t].id
    <3>1. p \in 1..m /\ q \in 1..m /\ p # m
      BY <1>7, <2>2
    <3>2. CASE t \in 1..m
      BY <1>7, <2>2, <3>1, <3>2 DEF Repeating
    <3>3. CASE t = m + 1
      BY <1>1, <1>7, <1>9, <3>1, <3>3
    <3> QED
      BY <1>8, <3>2, <3>3
  <2> QED
    BY <1>7, <2>1, <2>2 DEF Repeating
<1>11. Sound(r, longer, again)'
  <2>1. Ids(longer) \subseteq Ids(s) \cup {i}
    BY <1>1, <1>7, <1>8 DEF Ids
  <2>2. Ids(longer) \subseteq 1..Len(numbered'[r])
    BY <1>1, <1>2, <2>1 DEF Sound
  <2>3. \A x \in Ids(longer) : FineAbove(r, x)'
    BY <1>5, <1>6, <2>1 DEF Sound
  <2>4. \A j \in Unsent(r) \ {i}, p \in 1..(m + 1) : longer[p].id < j
    <3> SUFFICES ASSUME NEW j \in Unsent(r) \ {i}, NEW p \in 1..(m + 1) PROVE longer[p].id < j
      OBVIOUS
    <3>1. j > i /\ j \in Nat
      BY <1>2, <1>4
    <3>2. longer[p].id <= i /\ longer[p].id \in Nat
      BY <1>1, <1>7, <1>8, <1>9
    <3> QED
      BY <1>1, <3>1, <3>2
  <2> QED
    BY <1>1, <1>7, <2>2, <2>3, <2>4 DEF Sound
<1> QED
  BY <1>6, <1>10, <1>11 DEF longer
------------------------------------------------------------------------------
(* The workers' side: numbers in hand, and the history behind them.        *)

LEMMA TwoWorkers ==
    \A u, v, w \in Workers : u[1] = v[1] /\ v[1] = w[1] => u = v \/ v = w \/ u = w
<1> SUFFICES ASSUME NEW u \in Workers, NEW v \in Workers, NEW w \in Workers,
                    u[1] = v[1], v[1] = w[1]
             PROVE  u = v \/ v = w \/ u = w
  OBVIOUS
<1>1. /\ u = <<u[1], u[2]>> /\ v = <<v[1], v[2]>> /\ w = <<w[1], w[2]>>
      /\ u[2] \in Durables /\ v[2] \in Durables /\ w[2] \in Durables
  BY DEF Workers
<1>2. u[2] = v[2] \/ v[2] = w[2] \/ u[2] = w[2]
  BY <1>1, ConsumersAssumption
<1> QED
  BY <1>1, <1>2

(* A step after which no worker holds a number it did not hold before.     *)
LEMMA HandsFrame ==
    ASSUME TwoInHand, SortedBehind,
           \A v \in Workers : Busy(v)' => /\ Busy(v) /\ worker'[v].id = worker[v].id
                                          /\ numbered'[v[1]] = numbered[v[1]]
                                          /\ history'[v[1]] = history[v[1]]
    PROVE  TwoInHand' /\ SortedBehind'
<1>1. TwoInHand'
  BY DEF TwoInHand
<1>2. SortedBehind'
  BY DEF SortedBehind
<1> QED
  BY <1>1, <1>2

LEMMA HandsNextID ==
    ASSUME IInv, TwoInHand, SortedBehind, NEW w \in Workers, NEW r, NEW n, NextIDIs(w, r, n)
    PROVE  TwoInHand' /\ SortedBehind'
<1>1. /\ TypeOK /\ WorkersOK /\ r \in Replicas /\ HistoryOK(r)
      /\ r = w[1] /\ worker'[w].stage = "append" /\ worker'[w].id = n
      /\ \A v \in Workers \ {w} : worker'[v] = worker[v]
      /\ history' = history /\ Len(numbered'[r]) = n
      /\ \A q \in Replicas \ {r} : numbered'[q] = numbered[q]
  BY DEF IInv, NextIDIs
<1> DEFINE m == Len(numbered[r])
<1>2. m \in Nat /\ n = m + 1 /\ Appended(r) \subseteq 1..m
  BY <1>1, InFlightNumbered DEF NextIDIs
<1>3. \A v \in Workers \ {w} : /\ Busy(v)' <=> Busy(v)
                               /\ v[1] = r /\ Busy(v) => worker[v].id \in 1..m
  BY <1>1 DEF Busy, WorkersOK
<1>4. \A p \in DOMAIN history[r] : history[r][p].id \in 1..m
  BY <1>1, <1>2 DEF HistoryOK
<1> HIDE DEF m
<1>5. TwoInHand'
  <2> SUFFICES ASSUME NEW u \in Workers, NEW v \in Workers, Busy(u)', Busy(v)', u[1] = v[1],
                      worker'[u].id < worker'[v].id
               PROVE  worker'[v].id = Len(numbered'[v[1]])
    BY DEF TwoInHand
  <2>1. CASE v = w
    BY <1>1, <2>1
  <2>2. CASE v # w /\ u = w
    <3>1. worker[v].id \in 1..m /\ worker'[v].id = worker[v].id
      BY <1>1, <1>3, <2>2
    <3> QED
      BY <1>1, <1>2, <2>2, <3>1
  <2>3. CASE v # w /\ u # w /\ v[1] = r
    <3>1. u = v
      BY <1>1, <2>3, TwoWorkers
    <3>2. worker[v].id \in 1..m /\ worker'[v].id = worker[v].id
      BY <1>1, <1>3, <2>3
    <3> QED
      BY <1>2, <3>1, <3>2
  <2>4. CASE v # w /\ u # w /\ v[1] # r
    <3>1. v[1] \in Replicas /\ numbered'[v[1]] = numbered[v[1]]
      BY <1>1, <2>4, WorkerPlace
    <3> QED
      BY <1>1, <1>3, <2>4, <3>1 DEF TwoInHand
  <2> QED
    BY <2>1, <2>2, <2>3, <2>4
<1>6. SortedBehind'
  <2> SUFFICES ASSUME NEW v \in Workers, Busy(v)'
               PROVE  SortedAbove(history'[v[1]], worker'[v].id)
    BY DEF SortedBehind
  <2>1. CASE v = w
    <3>1. \A p \in DOMAIN history[r] : ~(history[r][p].id > n)
      BY <1>2, <1>4
    <3> QED
      BY <1>1, <2>1, <3>1 DEF SortedAbove
  <2>2. CASE v # w
    BY <1>1, <1>3, <2>2 DEF SortedBehind
  <2> QED
    BY <2>1, <2>2
<1> QED
  BY <1>5, <1>6

LEMMA HandsAppend ==
    ASSUME IInv, TwoInHand, SortedBehind, NEW w \in Workers, NEW r, NEW i, NEW d,
           AppendIs(w, r, i, d), AppendHistory(w)
    PROVE  TwoInHand' /\ SortedBehind'
<1>1. /\ TypeOK /\ WorkersOK /\ r \in Replicas /\ HistoryOK(r) /\ Busy(w)
      /\ AddedTo(history[r], Current(w), history'[r], d)
      /\ i \notin Appended(r) /\ i \in 1..Len(numbered[r])
      /\ \A q \in Replicas \ {r} : history'[q] = history[q]
      /\ numbered' = numbered /\ r = w[1] /\ i = worker[w].id /\ Current(w).id = i
  BY DEF IInv, AppendIs, Busy
<1>2. \A v \in Workers : Busy(v)' => Busy(v) /\ worker'[v].id = worker[v].id
  BY <1>1 DEF AppendHistory, TypeOK, WorkerRecord, Busy
<1>3. TwoInHand'
  BY <1>1, <1>2 DEF TwoInHand
<1>4. /\ Appended(r) \subseteq 1..Len(numbered[r]) /\ Len(numbered[r]) \in Nat
      /\ history[r] \in Seq(Notice) /\ Current(w) \in Notice
  BY <1>1, InFlightNumbered, CurrentType DEF TypeOK
<1>5. ASSUME NEW v \in Workers, Busy(v)
      PROVE  SortedAbove(history'[v[1]], worker[v].id)
  <2>1. SortedAbove(history[v[1]], worker[v].id) /\ worker[v].id \in Nat /\ v[1] \in Replicas
    BY <1>1, <1>5, WorkerPlace DEF SortedBehind, TypeOK, WorkerRecord
  <2>2. CASE v[1] # r
    BY <1>1, <2>1, <2>2
  <2>3. CASE v[1] = r
    <3>1. ASSUME i > worker[v].id, NEW p \in DOMAIN history[r]
          PROVE  history[r][p].id < i
      <4>1. i = Len(numbered[r])
        BY <1>1, <1>5, <2>1, <2>3, <3>1 DEF TwoInHand
      <4>2. history[r][p].id \in Appended(r)
        BY <1>1 DEF HistoryOK
      <4> QED
        BY <1>1, <1>4, <4>1, <4>2
    <3> QED
      BY <1>1, <1>4, <2>1, <2>3, <3>1, AddedSorted
  <2> QED
    BY <2>2, <2>3
<1>6. SortedBehind'
  BY <1>2, <1>5 DEF SortedBehind
<1> QED
  BY <1>3, <1>6
------------------------------------------------------------------------------
(* What a replay puts on the channel: entries above the client's number,   *)
(* in order.  Only the last of them may still be sent.                     *)

LEMMA FineHigher ==
    ASSUME NEW r \in Replicas, HistoryOK(r), Appended(r) \subseteq Nat,
           NEW x \in Nat, NEW y \in Nat, x < y, FineAbove(r, x)
    PROVE  FineAbove(r, y)
<1>1. \A p \in DOMAIN history[r] : history[r][p].id \in Nat
  BY DEF HistoryOK
<1>2. SortedAbove(history[r], y)
  BY <1>1 DEF FineAbove, SortedAbove
<1>3. \A i \in Appended(r) : \A j \in Unsent(r) \ {i} : i > y => j > i
  BY DEF FineAbove
<1> QED
  BY <1>2, <1>3 DEF FineAbove

(* The first n of the entries newer than a number.                         *)
Replayed(f, n, r, last) ==
    /\ f \in Seq(Notice) /\ Len(f) = n /\ DOMAIN f = 1..n
    /\ \A k \in 1..n : f[k].id \in Appended(r) /\ f[k].id > last
    /\ \A j, k \in 1..n : j < k => f[j].id < f[k].id

LEMMA ReplaySorted ==
    ASSUME IInv, NEW c \in Clients, NEW r \in Replicas, NEW last \in Nat, FineAbove(r, last),
           NEW newer, newer = Newer(c, r, last), NEW n \in 0..Len(newer)
    PROVE  Replayed(SubSeq(newer, 1, n), n, r, last)
<1> DEFINE h == history[r]
           f == SubSeq(newer, 1, n)
<1>1. TypeOK /\ HistoryOK(r) /\ h \in Seq(Notice)
  BY DEF IInv, TypeOK
<1>2. newer \in Seq(Notice)
  BY <1>1, NewerOrder
<1>3. PICK kept : NewerOnes(c, r, last, newer, kept)
  BY <1>1, NewerOrder
<1>4. /\ f \in Seq(Notice) /\ Len(f) = n /\ DOMAIN f = 1..n /\ n \in Nat
      /\ \A k \in 1..n : f[k] = newer[k]
      /\ 1..n \subseteq DOMAIN newer
  BY <1>2
<1> HIDE DEF f
<1>5. /\ DOMAIN kept = DOMAIN newer
      /\ \A k \in DOMAIN newer : kept[k] \in DOMAIN h /\ newer[k] = h[kept[k]] /\ newer[k].id > last
      /\ \A j, k \in DOMAIN newer : j < k => kept[j] < kept[k]
  BY <1>3 DEF NewerOnes
<1>6. \A k \in 1..n : f[k].id \in Appended(r) /\ f[k].id > last
  BY <1>1, <1>4, <1>5 DEF HistoryOK
<1>7. \A j, k \in 1..n : j < k => f[j].id < f[k].id
  BY <1>4, <1>5 DEF FineAbove, SortedAbove
<1> QED
  BY <1>4, <1>6, <1>7 DEF Replayed, f

LEMMA ReplaySound ==
    ASSUME IInv, NEW r \in Replicas, NEW got \in Seq(Notice), got # <<>>, NEW again,
           Repeating(got, again), Sound(r, got, again),
           NEW n \in Nat, NEW f, Replayed(f, n, r, got[Len(got)].id)
    PROVE  Repeating(got \o f, TRUE) /\ Sound(r, got \o f, TRUE)
<1> DEFINE m == Len(got)
           s == got \o f
           last == got[m].id
<1>1. TypeOK /\ WorkersOK /\ HistoryOK(r) /\ f \in Seq(Notice) /\ Len(f) = n
  BY DEF IInv, Replayed
<1>2. /\ s \in Seq(Notice) /\ Len(s) = m + n /\ DOMAIN s = 1..(m + n)
      /\ m \in Nat /\ m > 0 /\ DOMAIN got = 1..m
      /\ \A p \in 1..m : s[p] = got[p]
      /\ \A p \in (m + 1)..(m + n) : s[p] = f[p - m]
  <2>1. m \in Nat /\ m > 0 /\ DOMAIN got = 1..m
    OBVIOUS
  <2>2. /\ s \in Seq(Notice) /\ Len(s) = m + n
        /\ \A p \in 1..m : s[p] = got[p]
        /\ \A p \in (m + 1)..(m + n) : s[p] = f[p - m]
    BY <1>1, LineIs
  <2> HIDE DEF s, m
  <2> QED
    BY <2>1, <2>2
<1>3. /\ Appended(r) \subseteq 1..Len(numbered[r]) /\ Unsent(r) \subseteq 1..Len(numbered[r])
      /\ Len(numbered[r]) \in Nat
  BY <1>1, InFlightNumbered
<1>4. Appended(r) \subseteq Nat /\ Unsent(r) \subseteq Nat
  BY <1>3
<1>5. last \in Ids(got) /\ last \in Nat /\ FineAbove(r, last)
  <2>1. last \in Ids(got)
    BY <1>2 DEF Ids
  <2>2. last \in 1..Len(numbered[r])
    BY <2>1 DEF Sound
  <2> QED
    BY <1>3, <2>1, <2>2 DEF Sound
<1>6. \A p \in 1..m : got[p].id \in Nat /\ got[p].id <= last
  <2> SUFFICES ASSUME NEW p \in 1..m PROVE got[p].id \in Nat /\ got[p].id <= last
    OBVIOUS
  <2>1. got[p].id \in Ids(got)
    BY <1>2 DEF Ids
  <2>2. got[p].id \in Nat
    BY <1>3, <2>1 DEF Sound
  <2> HIDE DEF s, m
  <2>3. p = m \/ p < m
    BY <1>2
  <2>4. CASE p = m
    BY <1>5, <2>2, <2>4
  <2>5. CASE p < m
    BY <1>2, <2>2, <2>5 DEF Repeating
  <2> QED
    BY <2>3, <2>4, <2>5
<1>7. /\ \A k \in 1..n : f[k].id \in Appended(r) /\ f[k].id > last
      /\ \A j, k \in 1..n : j < k => f[j].id < f[k].id
  BY DEF Replayed
<1> HIDE DEF s, m, last
<1>8. \A p \in 1..(m + n) : \/ p \in 1..m /\ s[p] = got[p]
                            \/ p > m /\ p - m \in 1..n /\ s[p] = f[p - m]
  BY <1>2
<1>9. \A p \in 1..(m + n) : s[p].id \in Nat
  BY <1>4, <1>6, <1>7, <1>8
<1>10. \A p, q \in 1..(m + n) : p < q /\ q > m => s[p].id < s[q].id
  <2> SUFFICES ASSUME NEW p \in 1..(m + n), NEW q \in 1..(m + n), p < q, q > m
               PROVE  s[p].id < s[q].id
    OBVIOUS
  <2>1. q - m \in 1..n /\ s[q] = f[q - m]
    BY <1>2, <1>8
  <2>2. CASE p \in 1..m /\ s[p] = got[p]
    BY <1>4, <1>5, <1>6, <1>7, <2>1, <2>2
  <2>3. CASE p > m /\ p - m \in 1..n /\ s[p] = f[p - m]
    <3>1. p - m < q - m
      BY <1>2
    <3> QED
      BY <1>7, <2>1, <2>3, <3>1
  <2> QED
    BY <1>8, <2>2, <2>3
<1>11. Repeating(s, TRUE)
  <2>1. ASSUME NEW p \in 1..(m + n), NEW q \in 1..(m + n), p < q PROVE s[p].id <= s[q].id
    <3>1. CASE q > m
      BY <1>9, <1>10, <2>1, <3>1
    <3>2. CASE q <= m
      <4>1. p \in 1..m /\ q \in 1..m
        BY <1>2, <2>1, <3>2
      <4> QED
        BY <1>2, <2>1, <4>1 DEF Repeating
    <3> QED
      BY <1>2, <3>1, <3>2
  <2>2. ASSUME NEW p \in 1..(m + n), NEW q \in 1..(m + n), NEW t \in 1..(m + n), p < q, q < t
        PROVE  s[p].id < s[t].id
    <3>1. CASE t > m
      BY <1>10, <2>2, <3>1
    <3>2. CASE t <= m
      <4>1. p \in 1..m /\ q \in 1..m /\ t \in 1..m
        BY <1>2, <2>2, <3>2
      <4> QED
        BY <1>2, <2>2, <4>1 DEF Repeating
    <3> QED
      BY <1>2, <3>1, <3>2
  <2> QED
    BY <1>2, <2>1, <2>2 DEF Repeating
<1>12. \A p \in 1..(m + n) : s[p].id \in Ids(got) \/ (s[p].id \in Appended(r) /\ s[p].id > last)
  <2> SUFFICES ASSUME NEW p \in 1..(m + n)
               PROVE  s[p].id \in Ids(got) \/ (s[p].id \in Appended(r) /\ s[p].id > last)
    OBVIOUS
  <2>1. CASE p \in 1..m /\ s[p] = got[p]
    BY <1>2, <2>1 DEF Ids
  <2>2. CASE p > m /\ p - m \in 1..n /\ s[p] = f[p - m]
    BY <1>7, <2>2
  <2> QED
    BY <1>8, <2>1, <2>2
<1>13. \A j \in Unsent(r), p \in 1..(m + n) : s[p].id < j \/ (s[p].id = j /\ p = m + n)
  <2> SUFFICES ASSUME NEW j \in Unsent(r), NEW p \in 1..(m + n), ~(s[p].id < j)
               PROVE  s[p].id = j /\ p = m + n
    OBVIOUS
  <2>1. \A q \in 1..(m + n) : q > m /\ s[q].id # j => s[q].id < j
    <3> SUFFICES ASSUME NEW q \in 1..(m + n), q > m, s[q].id # j PROVE s[q].id < j
      OBVIOUS
    <3>1. s[q].id \in Appended(r) /\ s[q].id > last
      BY <1>2, <1>7, <1>8
    <3> QED
      BY <1>4, <1>5, <3>1 DEF FineAbove
  <2>2. s[p].id = j
    <3>1. CASE p > m
      BY <2>1, <3>1
    <3>2. CASE p \in 1..m /\ s[p] = got[p]
      BY <1>2, <3>2 DEF Sound
    <3> QED
      BY <1>8, <3>1, <3>2
  <2>3. p = m + n
    <3> SUFFICES ASSUME p < m + n PROVE FALSE
      BY <1>2
    <3>1. CASE p >= m
      <4> DEFINE q == p + 1
      <4>1. q \in 1..(m + n) /\ q > m /\ p < q
        BY <1>2, <3>1
      <4> HIDE DEF q
      <4>2. s[p].id < s[q].id
        BY <1>10, <4>1
      <4>3. s[q].id < j
        BY <1>9, <2>1, <2>2, <4>1, <4>2
      <4> QED
        BY <1>9, <2>2, <4>1, <4>2, <4>3
    <3>2. CASE p < m
      <4>1. p \in 1..m /\ s[p] = got[p] /\ p # m
        BY <1>2, <3>2
      <4> QED
        BY <1>2, <1>4, <2>2, <4>1 DEF Sound, m
    <3> QED
      BY <1>2, <3>1, <3>2
  <2> QED
    BY <2>2, <2>3
<1>14. Sound(r, s, TRUE)
  <2>1. Ids(s) \subseteq Ids(got) \cup {i \in Appended(r) : i > last}
    BY <1>2, <1>12 DEF Ids
  <2>2. Ids(s) \subseteq 1..Len(numbered[r])
    BY <1>3, <2>1 DEF Sound
  <2>3. \A x \in Ids(s) : FineAbove(r, x)
    <3> SUFFICES ASSUME NEW x \in Ids(s), x \notin Ids(got) PROVE FineAbove(r, x)
      BY DEF Sound
    <3>1. x \in Nat /\ last < x
      BY <1>4, <1>5, <2>1
    <3> QED
      BY <1>1, <1>4, <1>5, <3>1, FineHigher
  <2> QED
    BY <1>2, <1>13, <2>2, <2>3 DEF Sound
<1> QED
  BY <1>11, <1>14 DEF s
------------------------------------------------------------------------------
(* The steps.                                                              *)

LEMMA PlainFrom ==
    ASSUME NEW c \in Clients, NEW got, NEW ch, NEW again,
           client'[c].got = got, client'[c].ch = ch, client'[c].resumed = again,
           client'[c].to = NoReplica => ch = <<>>,
           client'[c].to # NoReplica => AtHome(c, client[c].to)',
           client'[c].cursor = (IF got = <<>> THEN 0 ELSE got[Len(got)].id),
           Repeating(got \o ch, again),
           \A r \in Replicas : AtHome(c, r)' => Sound(r, got \o ch, again)'
    PROVE  PlainInv(c)'
<1>1. \A r \in Replicas : AtHome(c, r)' => Sound(r, Line(c), client[c].resumed)'
  BY DEF Line, Sound, FineAbove
<1>2. Repeating(Line(c), client[c].resumed)'
  BY DEF Line, Repeating
<1>3. /\ client'[c].to = NoReplica => client'[c].ch = <<>>
      /\ client'[c].to # NoReplica => AtHome(c, client[c].to)'
      /\ client'[c].cursor =
           (IF client'[c].got = <<>> THEN 0 ELSE client'[c].got[Len(client'[c].got)].id)
  OBVIOUS
<1> QED
  BY <1>1, <1>2, <1>3 DEF PlainInv

(* What a client's line is made of.                                        *)
PartsOf(c, got, ch, again) ==
    /\ client[c].got = got /\ client[c].ch = ch /\ client[c].resumed = again
    /\ got \in Seq(Notice) /\ ch \in Seq(Notice) /\ again \in BOOLEAN
    /\ got \o ch \in Seq(Notice)

LEMMA Parts ==
    ASSUME TypeOK, NEW c \in Clients
    PROVE  \E got, ch, again : PartsOf(c, got, ch, again)
<1>1. /\ client[c].got \in Seq(Notice) /\ client[c].ch \in Seq(Notice)
      /\ client[c].resumed \in BOOLEAN
  BY DEF TypeOK, ClientRecord
<1>2. client[c].got \o client[c].ch \in Seq(Notice)
  BY <1>1, LineIs
<1> QED
  BY <1>1, <1>2 DEF PartsOf

LEMMA PlainParts ==
    ASSUME NEW c \in Clients, PlainInv(c), NEW got, NEW ch, NEW again, PartsOf(c, got, ch, again)
    PROVE  /\ Repeating(got \o ch, again)
           /\ \A r \in Replicas : AtHome(c, r) => Sound(r, got \o ch, again)
           /\ client[c].cursor = (IF got = <<>> THEN 0 ELSE got[Len(got)].id)
           /\ client[c].to = NoReplica => ch = <<>>
           /\ client[c].to # NoReplica => AtHome(c, client[c].to)
BY DEF PlainInv, PartsOf, Line

(* A step that leaves the client alone, and keeps what may be sent after   *)
(* its line.                                                               *)
LEMMA PlainSame ==
    ASSUME NEW c \in Clients, PlainInv(c), NEW got, NEW ch, NEW again,
           PartsOf(c, got, ch, again), client'[c] = client[c],
           client[c].to # NoReplica => AtHome(c, client[c].to)',
           \A r \in Replicas : AtHome(c, r)' => Sound(r, got \o ch, again)'
    PROVE  PlainInv(c)'
<1>1. /\ Repeating(got \o ch, again)
      /\ client'[c].cursor = (IF got = <<>> THEN 0 ELSE got[Len(got)].id)
      /\ client'[c].to = NoReplica => ch = <<>>
  BY PlainParts
<1>2. client'[c].got = got /\ client'[c].ch = ch /\ client'[c].resumed = again
  BY DEF PartsOf
<1>3. client'[c].to # NoReplica => AtHome(c, client[c].to)'
  OBVIOUS
<1> QED
  BY <1>1, <1>2, <1>3, PlainFrom

(* A step of c alone.                                                      *)
LEMMA AloneFrame ==
    ASSUME IInv, RepeatsInv, UNCHANGED <<worker, numbered, history, boots>>, NEW c \in Clients,
           \A d \in Clients \ {c} : client'[d] = client[d],
           Plain(c)' => PlainInv(c)'
    PROVE  RepeatsInv'
<1>1. TwoInHand' /\ SortedBehind'
  <2>1. \A v \in Workers : Busy(v)' => /\ Busy(v) /\ worker'[v].id = worker[v].id
                                       /\ numbered'[v[1]] = numbered[v[1]]
                                       /\ history'[v[1]] = history[v[1]]
    BY DEF Busy
  <2> QED
    BY <2>1, HandsFrame DEF RepeatsInv
<1>2. \A r \in Replicas : SameHub(r)
  BY DEF SameHub, InFlight
<1>3. ASSUME NEW d \in Clients \ {c}, Plain(d)' PROVE PlainInv(d)'
  <2>1. Plain(d) /\ client'[d] = client[d]
    BY <1>3 DEF Plain
  <2>2. PlainInv(d)
    BY <2>1 DEF RepeatsInv
  <2>3. PICK got, ch, again : PartsOf(d, got, ch, again)
    BY Parts DEF IInv
  <2>4. \A r \in Replicas : AtHome(d, r)' => Sound(r, got \o ch, again)'
    BY <1>2, <2>1, <2>2, <2>3, PlainParts, SoundFrame DEF AtHome
  <2>5. client[d].to # NoReplica => AtHome(d, client[d].to)'
    BY <2>1, <2>2 DEF PlainInv, AtHome
  <2> QED
    BY <2>1, <2>2, <2>3, <2>4, <2>5, PlainSame
<1> QED
  BY <1>1, <1>3 DEF RepeatsInv

LEMMA QuietRepeats ==
    ASSUME IInv, RepeatsInv, NEW w \in Workers, Fetch(w) \/ FetchFails(w) \/ Nak(w) \/ Ack(w)
    PROVE  RepeatsInv'
<1>1. /\ UNCHANGED <<numbered, history, boots, client>>
      /\ \A v \in Workers \ {w} : worker'[v] = worker[v]
      /\ worker'[w].stage \in {"idle", "handle", "stopped"}
      /\ \A r \in Replicas : SameHub(r)
  BY QuietEffect
<1>2. TwoInHand' /\ SortedBehind'
  <2>1. \A v \in Workers : Busy(v)' => /\ Busy(v) /\ worker'[v].id = worker[v].id
                                       /\ numbered'[v[1]] = numbered[v[1]]
                                       /\ history'[v[1]] = history[v[1]]
    BY <1>1 DEF Busy
  <2> QED
    BY <2>1, HandsFrame DEF RepeatsInv
<1>3. ASSUME NEW c \in Clients, Plain(c)' PROVE PlainInv(c)'
  <2>1. PlainInv(c) /\ client'[c] = client[c]
    BY <1>1, <1>3 DEF Plain, RepeatsInv
  <2>2. PICK got, ch, again : PartsOf(c, got, ch, again)
    BY Parts DEF IInv
  <2>3. \A r \in Replicas : AtHome(c, r)' => Sound(r, got \o ch, again)'
    BY <1>1, <2>1, <2>2, PlainParts, SoundFrame DEF AtHome
  <2>4. client[c].to # NoReplica => AtHome(c, client[c].to)'
    BY <1>1, <2>1 DEF PlainInv, AtHome
  <2> QED
    BY <2>1, <2>2, <2>3, <2>4, PlainSame
<1> QED
  BY <1>2, <1>3 DEF RepeatsInv

LEMMA NextIDRepeats ==
    ASSUME IInv, RepeatsInv, NEW w \in Workers, NextID(w)
    PROVE  RepeatsInv'
<1>1. PICK r, n : NextIDIs(w, r, n)
  BY NextIDEffect
<1>2. TwoInHand' /\ SortedBehind'
  BY <1>1, HandsNextID DEF RepeatsInv
<1>3. ASSUME NEW c \in Clients, Plain(c)' PROVE PlainInv(c)'
  <2>1. PlainInv(c) /\ client'[c] = client[c] /\ boots' = boots
    BY <1>1, <1>3 DEF Plain, RepeatsInv, NextIDIs
  <2>2. PICK got, ch, again : PartsOf(c, got, ch, again)
    BY Parts DEF IInv
  <2>3. ASSUME NEW q \in Replicas, AtHome(c, q)' PROVE Sound(q, got \o ch, again)'
    <3>1. Sound(q, got \o ch, again) /\ got \o ch \in Seq(Notice)
      BY <2>1, <2>2, <2>3, PlainParts DEF AtHome, PartsOf
    <3>2. CASE q = r
      BY <1>1, <3>1, <3>2, SoundNextID
    <3>3. CASE q # r
      BY <1>1, <3>1, <3>3, NextIDHub, SoundFrame
    <3> QED
      BY <3>2, <3>3
  <2>4. client[c].to # NoReplica => AtHome(c, client[c].to)'
    BY <2>1 DEF PlainInv, AtHome
  <2> QED
    BY <2>1, <2>2, <2>3, <2>4, PlainSame
<1> QED
  BY <1>2, <1>3 DEF RepeatsInv

LEMMA AppendRepeats ==
    ASSUME IInv, RepeatsInv, NEW w \in Workers, AppendHistory(w)
    PROVE  RepeatsInv'
<1>1. PICK d \in {0, 1} : AppendIs(w, w[1], worker[w].id, d)
  BY AppendHistoryIs
<1>2. TwoInHand' /\ SortedBehind'
  BY <1>1, HandsAppend DEF RepeatsInv
<1>3. ASSUME NEW c \in Clients, Plain(c)' PROVE PlainInv(c)'
  <2>0. client'[c] = client[c] /\ (AtHome(c, w[1]) => ~Overtakes(w))
    BY <1>3, AppendHistoryEffect DEF IInv
  <2>1. PlainInv(c) /\ client'[c] = client[c] /\ boots' = boots
    BY <1>1, <1>3, <2>0 DEF Plain, RepeatsInv, AppendIs
  <2>2. PICK got, ch, again : PartsOf(c, got, ch, again)
    BY Parts DEF IInv
  <2>3. ASSUME NEW q \in Replicas, AtHome(c, q)' PROVE Sound(q, got \o ch, again)'
    <3>1. Sound(q, got \o ch, again) /\ got \o ch \in Seq(Notice) /\ AtHome(c, q)
      BY <2>1, <2>2, <2>3, PlainParts DEF AtHome, PartsOf
    <3>2. CASE q = w[1]
      <4>1. ~Overtakes(w)
        BY <2>0, <3>1, <3>2
      <4> QED
        BY <1>1, <3>1, <3>2, <4>1, SoundAppend
    <3>3. CASE q # w[1]
      BY <1>1, <3>1, <3>3, SoundFrame DEF AppendIs
    <3> QED
      BY <3>2, <3>3
  <2>4. client[c].to # NoReplica => AtHome(c, client[c].to)'
    BY <2>1 DEF PlainInv, AtHome
  <2> QED
    BY <2>1, <2>2, <2>3, <2>4, PlainSame
<1> QED
  BY <1>2, <1>3 DEF RepeatsInv
LEMMA LineGrows ==
    ASSUME NEW got \in Seq(Notice), NEW ch \in Seq(Notice), NEW n \in Notice
    PROVE  got \o Append(ch, n) = Append(got \o ch, n) /\ Append(ch, n) \in Seq(Notice)
<1>1. got \o ch \in Seq(Notice) /\ <<n>> \in Seq(Notice)
  BY LineIs
<1>2. Append(ch, n) = ch \o <<n>> /\ Append(got \o ch, n) = (got \o ch) \o <<n>>
  BY <1>1, AppendIsConcat
<1>3. got \o (ch \o <<n>>) = (got \o ch) \o <<n>>
  BY <1>1, ConcatAssociative
<1> QED
  BY <1>2, <1>3

LEMMA SendRepeats ==
    ASSUME IInv, RepeatsInv, NEW w \in Workers, Send(w)
    PROVE  RepeatsInv'
<1>1. SendIs(w, w[1], worker[w].id)
  BY SendIsSo
<1>2. TwoInHand' /\ SortedBehind'
  <2>1. \A v \in Workers : Busy(v)' => /\ Busy(v) /\ worker'[v].id = worker[v].id
                                       /\ numbered'[v[1]] = numbered[v[1]]
                                       /\ history'[v[1]] = history[v[1]]
    BY <1>1 DEF Send, SendIs, Busy, IInv, TypeOK, WorkerRecord
  <2> QED
    BY <2>1, HandsFrame DEF RepeatsInv
<1>3. ASSUME NEW c \in Clients, Plain(c)' PROVE PlainInv(c)'
  <2>1. /\ Plain(c)
        /\ AtHome(c, w[1]) => ~Overtakes(w)
        /\ client'[c].got = client[c].got /\ client'[c].cursor = client[c].cursor
        /\ client'[c].resumed = client[c].resumed
        /\ \/ client'[c].ch = client[c].ch
           \/ client[c].to = w[1] /\ client'[c].ch = Append(client[c].ch, Current(w))
    BY <1>1, <1>3, SendPlain DEF IInv, SendIs
  <2>2. client'[c].to = client[c].to /\ client'[c].home = client[c].home /\ boots' = boots
    BY <1>1, SendEffect DEF IInv, SendIs
  <2>3. PlainInv(c)
    BY <2>1 DEF RepeatsInv
  <2>4. PICK got, ch, again : PartsOf(c, got, ch, again)
    BY Parts DEF IInv
  <2>5. PICK notice : notice = Current(w) /\ notice \in Notice
    BY <1>1 DEF SendIs
  <2>6. w[1] \in Replicas /\ w[1] # NoReplica
    BY WorkerPlace, NoReplicaAssumption
  <2>7. got \o ch \in Seq(Notice) /\ got \in Seq(Notice) /\ ch \in Seq(Notice) /\ again \in BOOLEAN
    BY <2>4 DEF PartsOf
  <2>8. AtHome(c, w[1]) => /\ Sound(w[1], got \o ch, again)'
                           /\ Repeating(Append(got \o ch, notice), again)
                           /\ Sound(w[1], Append(got \o ch, notice), again)'
    <3> SUFFICES ASSUME AtHome(c, w[1])
                 PROVE  /\ Sound(w[1], got \o ch, again)'
                        /\ Repeating(Append(got \o ch, notice), again)
                        /\ Sound(w[1], Append(got \o ch, notice), again)'
      OBVIOUS
    <3>1. Repeating(got \o ch, again) /\ Sound(w[1], got \o ch, again) /\ ~Overtakes(w)
      BY <2>1, <2>3, <2>4, <2>6, PlainParts
    <3> QED
      BY <1>1, <2>5, <2>7, <3>1, SoundSend DEF RepeatsInv
  <2>9. client'[c].to # NoReplica => AtHome(c, client[c].to)'
    BY <2>2, <2>3 DEF PlainInv, AtHome
  <2>10. client'[c].cursor = (IF got = <<>> THEN 0 ELSE got[Len(got)].id)
    BY <2>1, <2>3, <2>4, PlainParts
  <2>11. CASE client'[c].ch = client[c].ch
    <3>1. ASSUME NEW q \in Replicas, AtHome(c, q)' PROVE Sound(q, got \o ch, again)'
      <4>1. AtHome(c, q) /\ Sound(q, got \o ch, again)
        BY <2>2, <2>3, <2>4, <3>1, PlainParts DEF AtHome
      <4>2. CASE q = w[1]
        BY <2>8, <4>1, <4>2
      <4>3. CASE q # w[1]
        BY <1>1, <4>1, <4>3, SoundFrame DEF SendIs
      <4> QED
        BY <4>2, <4>3
    <3>2. client'[c].got = got /\ client'[c].ch = ch /\ client'[c].resumed = again
      BY <2>1, <2>4, <2>11 DEF PartsOf
    <3>3. Repeating(got \o ch, again) /\ (client'[c].to = NoReplica => ch = <<>>)
      BY <2>2, <2>3, <2>4, PlainParts
    <3> QED
      BY <2>9, <2>10, <3>1, <3>2, <3>3, PlainFrom
  <2>12. CASE client[c].to = w[1] /\ client'[c].ch = Append(client[c].ch, Current(w))
    <3>1. AtHome(c, w[1])
      BY <2>3, <2>6, <2>12 DEF PlainInv
    <3>2. PICK longer : longer = Append(ch, notice)
      OBVIOUS
    <3>3. got \o longer = Append(got \o ch, notice)
      BY <2>5, <2>7, <3>2, LineGrows
    <3>4. client'[c].got = got /\ client'[c].ch = longer /\ client'[c].resumed = again
      BY <2>1, <2>4, <2>5, <2>12, <3>2 DEF PartsOf
    <3>5. Repeating(got \o longer, again)
      BY <2>8, <3>1, <3>3
    <3>6. ASSUME NEW q \in Replicas, AtHome(c, q)' PROVE Sound(q, got \o longer, again)'
      <4>1. q = w[1]
        BY <2>2, <3>1, <3>6 DEF AtHome
      <4> QED
        BY <2>8, <3>1, <3>3, <4>1
    <3>7. client'[c].to # NoReplica
      BY <2>2, <2>6, <2>12
    <3> QED
      BY <2>9, <2>10, <3>4, <3>5, <3>6, <3>7, PlainFrom
  <2> QED
    BY <2>1, <2>11, <2>12
<1> QED
  BY <1>2, <1>3 DEF RepeatsInv

LEMMA WriteRepeats ==
    ASSUME IInv, RepeatsInv, NEW c \in Clients, Write(c)
    PROVE  RepeatsInv'
<1>1. UNCHANGED <<worker, numbered, history, boots>>
  BY DEF Write
<1>2. /\ \A d \in Clients \ {c} : client'[d] = client[d]
      /\ client[c].to # NoReplica /\ client[c].ch \in Seq(Notice) /\ client[c].ch # <<>>
      /\ client'[c].ch = Tail(client[c].ch)
      /\ client'[c].got = Append(client[c].got, Head(client[c].ch))
      /\ client'[c].cursor = Head(client[c].ch).id
      /\ client'[c].to = client[c].to /\ client'[c].home = client[c].home
      /\ client'[c].excuse = client[c].excuse /\ client'[c].resumed = client[c].resumed
  BY WriteEffect DEF IInv
<1>3. ASSUME Plain(c)' PROVE PlainInv(c)'
  <2>1. PlainInv(c)
    BY <1>2, <1>3 DEF Plain, RepeatsInv
  <2>2. PICK got, ch, again : PartsOf(c, got, ch, again)
    BY Parts DEF IInv
  <2>3. PICK more, rest : more = Append(got, Head(ch)) /\ rest = Tail(ch)
    OBVIOUS
  <2>4. /\ got \in Seq(Notice) /\ ch \in Seq(Notice) /\ ch # <<>>
        /\ client'[c].got = more /\ client'[c].ch = rest /\ client'[c].resumed = again
        /\ client'[c].cursor = Head(ch).id
    BY <1>2, <2>2, <2>3 DEF PartsOf
  <2>5. more \o rest = got \o ch /\ more # <<>> /\ more[Len(more)] = Head(ch)
    BY <2>3, <2>4, LineMoves
  <2>6. Repeating(more \o rest, again)
    BY <2>1, <2>2, <2>5, PlainParts
  <2>7. ASSUME NEW q \in Replicas, AtHome(c, q)' PROVE Sound(q, more \o rest, again)'
    <3>1. Sound(q, got \o ch, again)
      BY <1>1, <1>2, <2>1, <2>2, <2>7, PlainParts DEF AtHome
    <3>2. SameHub(q)
      BY <1>1 DEF SameHub, InFlight
    <3> QED
      BY <2>5, <3>1, <3>2, SoundFrame
  <2>8. client'[c].to # NoReplica /\ AtHome(c, client[c].to)'
    BY <1>1, <1>2, <2>1 DEF PlainInv, AtHome
  <2>9. client'[c].cursor = (IF more = <<>> THEN 0 ELSE more[Len(more)].id)
    BY <2>4, <2>5
  <2> QED
    BY <2>4, <2>6, <2>7, <2>8, <2>9, PlainFrom
<1> QED
  BY <1>1, <1>2, <1>3, AloneFrame

(* A connection ends; Gone keeps the rest of the client.                   *)
LEMMA GoneLine ==
    ASSUME IInv, NEW c \in Clients, PlainInv(c), client'[c] = Gone(client[c]),
           \A r \in Replicas : AtHome(c, r)' => AtHome(c, r) /\ SameHub(r)
    PROVE  PlainInv(c)'
<1>1. PICK got, ch, again : PartsOf(c, got, ch, again)
  BY Parts DEF IInv
<1>2. PICK nothing : nothing = <<>>
  OBVIOUS
<1>3. /\ client'[c].got = got /\ client'[c].ch = nothing /\ client'[c].resumed = again
      /\ client'[c].to = NoReplica /\ client'[c].cursor = client[c].cursor
      /\ got \in Seq(Notice) /\ ch \in Seq(Notice) /\ again \in BOOLEAN
  <2>1. client[c] \in ClientRecord
    BY DEF IInv, TypeOK
  <2> QED
    BY <1>1, <1>2, <2>1, GoneEffect DEF PartsOf
<1>4. Repeating(got \o ch, again) /\ \A r \in Replicas : AtHome(c, r) => Sound(r, got \o ch, again)
  BY <1>1, PlainParts
<1>5. got \o nothing = got
  BY <1>2, <1>3
<1>6. Repeating(got, again) /\ \A r \in Replicas : Sound(r, got \o ch, again) => Sound(r, got, again)
  BY <1>3, <1>4, LineCut DEF IInv
<1>7. ASSUME NEW r \in Replicas, AtHome(c, r)' PROVE Sound(r, got \o nothing, again)'
  BY <1>4, <1>5, <1>6, <1>7, SoundFrame
<1>8. client'[c].cursor = (IF got = <<>> THEN 0 ELSE got[Len(got)].id)
  BY <1>1, <1>3, PlainParts
<1> QED
  BY <1>2, <1>3, <1>5, <1>6, <1>7, <1>8, PlainFrom

LEMMA DisconnectRepeats ==
    ASSUME IInv, RepeatsInv, NEW c \in Clients, Disconnect(c)
    PROVE  RepeatsInv'
<1>1. UNCHANGED <<worker, numbered, history, boots>>
  BY DEF Disconnect
<1>2. client'[c] = Gone(client[c]) /\ \A d \in Clients \ {c} : client'[d] = client[d]
  BY DEF Disconnect, IInv, TypeOK
<1>3. ASSUME Plain(c)' PROVE PlainInv(c)'
  <2>1. client[c] \in ClientRecord
    BY DEF IInv, TypeOK
  <2>2. Gone(client[c]).excuse = client[c].excuse /\ Gone(client[c]).home = client[c].home
    BY <2>1, GoneEffect
  <2>3. PlainInv(c)
    BY <1>2, <1>3, <2>2 DEF Plain, RepeatsInv
  <2>4. \A r \in Replicas : AtHome(c, r)' => AtHome(c, r) /\ SameHub(r)
    BY <1>1, <1>2, <2>2 DEF AtHome, SameHub, InFlight
  <2> QED
    BY <1>2, <2>3, <2>4, GoneLine
<1> QED
  BY <1>1, <1>2, <1>3, AloneFrame
LEMMA ConnectRepeats ==
    ASSUME IInv, RepeatsInv, NEW c \in Clients, NEW r \in Replicas, NEW remember \in BOOLEAN,
           Connect(c, r, remember)
    PROVE  RepeatsInv'
<1>1. UNCHANGED <<worker, numbered, history, boots>>
  BY DEF Connect
<1>2. TypeOK
  BY DEF IInv
<1>3. /\ \A d \in Clients \ {c} : client'[d] = client[d]
      /\ client'[c].to = r /\ r # NoReplica
      /\ \/ /\ client'[c].cursor = 0 /\ client'[c].got = <<>> /\ client'[c].ch = <<>>
            /\ client'[c].home = <<r, boots[r]>>
         \/ /\ client[c].cursor > 0
            /\ client'[c].cursor = client[c].cursor /\ client'[c].got = client[c].got
            /\ client'[c].home = client[c].home
      /\ client'[c].cursor = 0 => client'[c].resumed = FALSE
      /\ client'[c].cursor # 0 =>
           /\ client'[c].resumed = TRUE
           /\ Plain(c)' => Plain(c) /\ AtHome(c, r)
           /\ \E n \in 0..Len(Newer(c, r, client[c].cursor)) :
                client'[c].ch = SubSeq(Newer(c, r, client[c].cursor), 1, n)
  <2>1. r # NoReplica
    BY NoReplicaAssumption
  <2> QED
    BY <1>2, <2>1, ConnectEffect
<1>4. ASSUME Plain(c)', client'[c].cursor = 0, client'[c].got = <<>>, client'[c].ch = <<>>,
             client'[c].home = <<r, boots[r]>>
      PROVE  PlainInv(c)'
  <2>1. PICK got, ch, again : got = <<>> /\ ch = <<>> /\ again = FALSE
    OBVIOUS
  <2>2. Repeating(got \o ch, again)
    BY <2>1, NothingYet
  <2>3. \A q \in Replicas : Sound(q, got \o ch, again)'
    <3>1. DOMAIN (got \o ch) = {}
      BY <2>1
    <3> QED
      BY <3>1 DEF Sound, Ids
  <2>4. client'[c].to # NoReplica => AtHome(c, client[c].to)'
    BY <1>1, <1>3, <1>4 DEF AtHome
  <2>5. client'[c].got = got /\ client'[c].ch = ch /\ client'[c].resumed = again
    BY <1>3, <1>4, <2>1
  <2>6. client'[c].to = NoReplica => ch = <<>>
    BY <2>1
  <2>7. client'[c].cursor = (IF got = <<>> THEN 0 ELSE got[Len(got)].id)
    BY <1>4, <2>1
  <2> QED
    BY <2>2, <2>3, <2>4, <2>5, <2>6, <2>7, PlainFrom
<1>5. ASSUME Plain(c)', client[c].cursor > 0, client'[c].cursor = client[c].cursor,
             client'[c].got = client[c].got, client'[c].home = client[c].home
      PROVE  PlainInv(c)'
  <2>1. client[c].cursor \in Nat /\ client'[c].cursor # 0
    BY <1>5 DEF IInv, TypeOK, ClientRecord
  <2>2. Plain(c) /\ AtHome(c, r) /\ client'[c].resumed = TRUE
    BY <1>3, <1>5, <2>1
  <2>3. PlainInv(c)
    BY <2>2 DEF RepeatsInv
  <2>4. PICK got, ch, again : PartsOf(c, got, ch, again)
    BY Parts DEF IInv
  <2>5. PICK last, newer : last = client[c].cursor /\ newer = Newer(c, r, last)
    OBVIOUS
  <2>6. PICK n \in 0..Len(newer) : client'[c].ch = SubSeq(newer, 1, n)
    BY <1>3, <2>1, <2>5
  <2>7. /\ got \in Seq(Notice) /\ ch \in Seq(Notice) /\ again \in BOOLEAN
        /\ got # <<>> /\ last = got[Len(got)].id /\ last \in Nat
    <3>1. client[c].cursor = (IF got = <<>> THEN 0 ELSE got[Len(got)].id)
      BY <2>3, <2>4, PlainParts
    <3>2. got # <<>>
      BY <1>5, <3>1
    <3> QED
      BY <2>1, <2>4, <2>5, <3>1, <3>2 DEF PartsOf
  <2>8. Repeating(got, again) /\ Sound(r, got, again)
    <3>1. Repeating(got \o ch, again) /\ Sound(r, got \o ch, again)
      BY <2>2, <2>3, <2>4, PlainParts
    <3> QED
      BY <2>7, <3>1, LineCut DEF IInv
  <2>9. FineAbove(r, last)
    <3>1. last \in Ids(got)
      <4>1. Len(got) \in DOMAIN got
        BY <2>7
      <4> QED
        BY <2>7, <4>1 DEF Ids
    <3> QED
      BY <2>8, <3>1 DEF Sound
  <2>10. PICK f : f = SubSeq(newer, 1, n)
    OBVIOUS
  <2>11. Replayed(f, n, r, last) /\ n \in Nat
    <3>1. newer \in Seq(Notice)
      BY <2>5, NewerOrder DEF IInv, TypeOK
    <3>2. n \in Nat
      BY <3>1
    <3> QED
      BY <2>5, <2>7, <2>9, <2>10, <3>2, ReplaySorted
  <2>12. Repeating(got \o f, TRUE) /\ Sound(r, got \o f, TRUE)
    BY <2>7, <2>8, <2>11, ReplaySound
  <2>13. PICK resumed : resumed = TRUE
    OBVIOUS
  <2>14. ASSUME NEW q \in Replicas, AtHome(c, q)' PROVE Sound(q, got \o f, resumed)'
    <3>1. q = r
      BY <1>1, <1>5, <2>2, <2>14 DEF AtHome
    <3>2. SameHub(q)
      BY <1>1 DEF SameHub, InFlight
    <3> QED
      BY <2>12, <2>13, <3>1, <3>2, SoundFrame
  <2>15. client'[c].to # NoReplica => AtHome(c, client[c].to)'
    BY <1>1, <1>3, <1>5, <2>2 DEF AtHome
  <2>16. client'[c].got = got /\ client'[c].ch = f /\ client'[c].resumed = resumed
    BY <1>5, <2>2, <2>4, <2>6, <2>10, <2>13 DEF PartsOf
  <2>17. client'[c].to # NoReplica
    BY <1>3
  <2>18. client'[c].cursor = (IF got = <<>> THEN 0 ELSE got[Len(got)].id)
    BY <1>5, <2>5, <2>7
  <2>19. Repeating(got \o f, resumed)
    BY <2>12, <2>13
  <2> QED
    BY <2>14, <2>15, <2>16, <2>17, <2>18, <2>19, PlainFrom
<1>6. Plain(c)' => PlainInv(c)'
  BY <1>3, <1>4, <1>5
<1> QED
  BY <1>1, <1>3, <1>6, AloneFrame

(* Nobody is at home at the hub of a replica that comes back.              *)
LEMMA RestartRepeats ==
    ASSUME IInv, RepeatsInv, NEW r \in Replicas, Restart(r)
    PROVE  RepeatsInv'
<1>1. TypeOK /\ boots[r] \in Nat
  BY DEF IInv, TypeOK
<1>2. /\ \A q \in Replicas \ {r} : /\ numbered'[q] = numbered[q] /\ history'[q] = history[q]
                                   /\ boots'[q] = boots[q]
      /\ boots'[r] = boots[r] + 1
      /\ \A w \in Workers : /\ w[1] = r => worker'[w].stage = "idle"
                            /\ w[1] # r => worker'[w] = worker[w]
      /\ \A c \in Clients :
           client'[c] = IF client[c].to = r THEN Gone(client[c]) ELSE client[c]
  BY <1>1 DEF Restart, TypeOK, Idle
<1>3. \A q \in Replicas \ {r} : SameHub(q)
  BY <1>2 DEF SameHub, InFlight
<1>4. TwoInHand' /\ SortedBehind'
  <2>1. \A v \in Workers : Busy(v)' => /\ Busy(v) /\ worker'[v].id = worker[v].id
                                       /\ numbered'[v[1]] = numbered[v[1]]
                                       /\ history'[v[1]] = history[v[1]]
    BY <1>2, WorkerPlace DEF Busy
  <2> QED
    BY <2>1, HandsFrame DEF RepeatsInv
<1>5. ASSUME NEW c \in Clients
      PROVE  /\ client'[c].home = client[c].home /\ client'[c].excuse = client[c].excuse
             /\ ~AtHome(c, r)'
             /\ \A q \in Replicas : AtHome(c, q)' => AtHome(c, q) /\ SameHub(q)
  <2>1. client[c] \in ClientRecord
    BY <1>1 DEF TypeOK
  <2>2. client'[c].home = client[c].home /\ client'[c].excuse = client[c].excuse
    BY <1>2, <2>1, GoneEffect
  <2>3. ~AtHome(c, r)'
    <3>1. client[c].home[1] = r => client[c].home[2] <= boots[r]
      BY DEF IInv, HomesOK
    <3>2. AtHome(c, r)' => client[c].home[1] = r /\ client[c].home[2] = boots[r] + 1
      BY <1>2, <2>2 DEF AtHome
    <3> QED
      BY <1>1, <3>1, <3>2
  <2>4. \A q \in Replicas : AtHome(c, q)' => AtHome(c, q) /\ SameHub(q)
    BY <1>2, <1>3, <2>2, <2>3 DEF AtHome
  <2> QED
    BY <2>2, <2>3, <2>4
<1>6. ASSUME NEW c \in Clients, Plain(c)' PROVE PlainInv(c)'
  <2>1. PlainInv(c)
    BY <1>5, <1>6 DEF Plain, RepeatsInv
  <2>2. \A q \in Replicas : AtHome(c, q)' => AtHome(c, q) /\ SameHub(q)
    BY <1>5
  <2>3. CASE client[c].to = r
    BY <1>2, <2>1, <2>2, <2>3, GoneLine
  <2>4. CASE client[c].to # r
    <3>1. PICK got, ch, again : PartsOf(c, got, ch, again)
      BY <1>1, Parts
    <3>2. client'[c] = client[c]
      BY <1>2, <2>4
    <3>3. \A q \in Replicas : AtHome(c, q)' => Sound(q, got \o ch, again)'
      BY <2>1, <2>2, <3>1, PlainParts, SoundFrame
    <3>4. client[c].to # NoReplica => AtHome(c, client[c].to)'
      <4>1. client[c].to \in Places
        BY <1>1 DEF TypeOK, ClientRecord
      <4> QED
        BY <1>2, <2>1, <2>4, <3>2, <4>1 DEF PlainInv, AtHome, Places
    <3> QED
      BY <2>1, <3>1, <3>2, <3>3, <3>4, PlainSame
  <2> QED
    BY <2>3, <2>4
<1> QED
  BY <1>4, <1>6 DEF RepeatsInv

LEMMA InitRepeats == Init => RepeatsInv
<1> SUFFICES ASSUME Init PROVE RepeatsInv
  OBVIOUS
<1>1. \A w \in Workers : ~Busy(w)
  BY DEF Init, Idle, Busy
<1>2. ASSUME NEW c \in Clients PROVE PlainInv(c)
  <2>1. /\ client[c].to = NoReplica /\ client[c].ch = <<>> /\ client[c].got = <<>>
        /\ client[c].cursor = 0 /\ client[c].resumed = FALSE
    BY DEF Init
  <2>2. Line(c) = <<>> \o <<>>
    BY <2>1 DEF Line
  <2>3. Repeating(Line(c), client[c].resumed)
        /\ \A r \in Replicas : Sound(r, Line(c), client[c].resumed)
    BY <2>2, NothingYet
  <2> QED
    BY <2>1, <2>3 DEF PlainInv
<1> QED
  BY <1>1, <1>2 DEF RepeatsInv, TwoInHand, SortedBehind

LEMMA NextRepeats ==
    ASSUME IInv, RepeatsInv, [Next]_vars
    PROVE  RepeatsInv'
<1>1. ASSUME NEW w \in Workers, Step(w) \/ FetchFails(w) PROVE RepeatsInv'
  BY <1>1, QuietRepeats, NextIDRepeats, AppendRepeats, SendRepeats DEF Step
<1>2. ASSUME NEW c \in Clients, NEW r \in Replicas, NEW remember \in BOOLEAN,
             Connect(c, r, remember)
      PROVE  RepeatsInv'
  BY <1>2, ConnectRepeats
<1>3. ASSUME NEW c \in Clients, Write(c) \/ Disconnect(c) PROVE RepeatsInv'
  BY <1>3, WriteRepeats, DisconnectRepeats
<1>4. ASSUME NEW r \in Replicas, Restart(r) PROVE RepeatsInv'
  BY <1>4, RestartRepeats
<1>5. CASE UNCHANGED vars
  <2>1. UNCHANGED <<worker, numbered, history, boots, client>>
    BY <1>5 DEF vars
  <2>2. CASE Clients = {}
    <3>1. TwoInHand' /\ SortedBehind'
      BY <2>1 DEF RepeatsInv, TwoInHand, SortedBehind, Busy
    <3> QED
      BY <2>2, <3>1 DEF RepeatsInv
  <2>3. ASSUME NEW c \in Clients PROVE RepeatsInv'
    <3>1. Plain(c)' => PlainInv(c)'
      <4> SUFFICES ASSUME Plain(c)' PROVE PlainInv(c)'
        OBVIOUS
      <4>1. PlainInv(c)
        BY <2>1 DEF Plain, RepeatsInv
      <4>2. PICK got, ch, again : PartsOf(c, got, ch, again)
        BY Parts DEF IInv
      <4>3. \A r \in Replicas : SameHub(r)
        BY <2>1 DEF SameHub, InFlight
      <4>4. \A r \in Replicas : AtHome(c, r)' => Sound(r, got \o ch, again)'
        BY <2>1, <4>1, <4>2, <4>3, PlainParts, SoundFrame DEF AtHome
      <4>5. client[c].to # NoReplica => AtHome(c, client[c].to)'
        BY <2>1, <4>1 DEF PlainInv, AtHome
      <4> QED
        BY <2>1, <4>1, <4>2, <4>4, <4>5, PlainSame
    <3> QED
      BY <2>1, <3>1, AloneFrame
  <2> QED
    BY <2>2, <2>3
<1> QED
  BY <1>1, <1>2, <1>3, <1>4, <1>5 DEF Next

(* The places of a notification in what a client got: at most two of any   *)
(* three are equal.                                                        *)
LEMMA AtMostTwo ==
    ASSUME NEW s \in Seq(Notice), NEW again \in BOOLEAN, Repeating(s, again),
           NEW n \in Elements(s)
    PROVE  Cardinality({j \in DOMAIN s : s[j] = n}) <= (IF again THEN 2 ELSE 1)
<1> DEFINE S == {j \in DOMAIN s : s[j] = n}
           m == Len(s)
<1>1. DOMAIN s = 1..m /\ m \in Nat /\ S \subseteq 1..m
  OBVIOUS
<1>2. PICK a \in S : TRUE
  BY DEF Elements
<1>3. n.id \in Nat
  <2>1. n \in Notice
    BY <1>1, <1>2
  <2> QED
    BY <2>1 DEF Notice
<1>4. \A p, q, t \in S : ~(p < q /\ q < t)
  BY <1>3 DEF Repeating
<1>5. ~again => \A p, q \in S : ~(p < q)
  BY <1>3 DEF Repeating
<1> HIDE DEF S, m
<1>6. \A p, q \in S : p = q \/ p < q \/ q < p
  BY <1>1
<1>7. CASE S = {a}
  <2>1. Cardinality(S) = 1
    BY <1>7, FS_Singleton
  <2> QED
    BY <2>1 DEF S
<1>8. CASE S # {a}
  <2>1. PICK b \in S : b # a
    BY <1>2, <1>8
  <2>2. again
    BY <1>5, <1>6, <2>1
  <2>3. \A t \in S : t = a \/ t = b
    <3> SUFFICES ASSUME NEW t \in S, t # a, t # b PROVE FALSE
      OBVIOUS
    <3>1. a < b \/ b < a
      BY <1>6, <2>1
    <3>2. (a < t \/ t < a) /\ (b < t \/ t < b)
      BY <1>6
    <3>3. a \in Nat /\ b \in Nat /\ t \in Nat
      BY <1>1
    <3>4. ~(a < b /\ b < t) /\ ~(b < a /\ a < t) /\ ~(a < t /\ t < b)
          /\ ~(b < t /\ t < a) /\ ~(t < a /\ a < b) /\ ~(t < b /\ b < a)
      BY <1>4
    <3> QED
      BY <3>1, <3>2, <3>3, <3>4
  <2>4. S = {a} \cup {b}
    BY <2>1, <2>3
  <2>5. IsFiniteSet({a}) /\ Cardinality({a}) = 1
    BY FS_Singleton
  <2>6. Cardinality({a} \cup {b}) = 1 + 1
    BY <2>1, <2>5, FS_AddElement
  <2>7. Cardinality(S) <= (IF again THEN 2 ELSE 1)
    <3>1. Cardinality(S) = 1 + 1
      BY <2>4, <2>6
    <3> QED
      BY <2>2, <3>1
  <2> QED
    BY <2>7 DEF S
<1> QED
  BY <1>7, <1>8

LEMMA RepeatsFromInv == IInv /\ RepeatsInv => Repeats
<1> SUFFICES ASSUME IInv, RepeatsInv, NEW c \in Clients,
                    client[c].excuse \cap {"overlap", "moved"} = {},
                    NEW n \in Elements(client[c].got)
             PROVE  Cardinality({j \in DOMAIN client[c].got : client[c].got[j] = n})
                      <= (IF client[c].resumed THEN 2 ELSE 1)
  BY DEF Repeats
<1>1. PlainInv(c)
  BY DEF Plain, RepeatsInv
<1>2. PICK got, ch, again : PartsOf(c, got, ch, again)
  BY Parts DEF IInv
<1>3. Repeating(got \o ch, again) /\ got \in Seq(Notice) /\ ch \in Seq(Notice) /\ again \in BOOLEAN
  BY <1>1, <1>2, PlainParts DEF PartsOf
<1>4. Repeating(got, again)
  BY <1>3, LineCut DEF IInv
<1>5. n \in Elements(got)
  BY <1>2 DEF PartsOf
<1>6. Cardinality({j \in DOMAIN got : got[j] = n}) <= (IF again THEN 2 ELSE 1)
  BY <1>3, <1>4, <1>5, AtMostTwo
<1> QED
  BY <1>2, <1>6 DEF PartsOf

(* A client receives a number once, or twice if it subscribed with a       *)
(* replay while the number was between appendHistory and the sends of      *)
(* Broadcast: the two pull loops of a replica keep the numbers of a line   *)
(* in order unless the one overtakes the other.                            *)
THEOREM ClientHearsOnce == Spec => []Repeats
<1>1. Init => IInv /\ RepeatsInv
  BY InitIInv, InitRepeats
<1>2. (IInv /\ RepeatsInv) /\ [Next]_vars => (IInv /\ RepeatsInv)'
  BY NextIInv, NextRepeats
<1>3. IInv /\ RepeatsInv => Repeats
  BY RepeatsFromInv
<1> QED
  BY <1>1, <1>2, <1>3, PTL DEF Spec
==============================================================================
