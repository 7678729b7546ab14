------------------------------ MODULE NotifyHub ------------------------------
(***************************************************************************)
(* The notify service: two pull consumers per replica (ride events, driver *)
(* events) feed the replica's Hub, which numbers each event, keeps a short *)
(* history and pushes it to the buffered channel of every subscriber; one  *)
(* goroutine per SSE connection writes its channel to the client.  A       *)
(* client that reconnects sends the last number it saw (Last-Event-ID) and *)
(* gets the newer part of the history replayed.                            *)
(*                                                                         *)
(* Broadcast takes the hub's lock three times (nextID, appendHistory, the  *)
(* sends), so the two consumers of a replica interleave between them, and  *)
(* so does a subscription.  Numbers and history are in memory and belong   *)
(* to one replica: a restart begins again at zero, and the replicas share  *)
(* the durable consumers, so an event reaches the hub of one of them.      *)
(***************************************************************************)
EXTENDS Naturals, Sequences, FiniteSets

CONSTANTS
    Replicas,      \* processes of the notify service
    NoReplica,     \* where a client is that has no connection
    Durables,      \* the JetStream consumers, one goroutine each per replica
    Clients,       \* users with an SSE stream
    Events,        \* stream sequence numbers
    DurableOf,     \* [Events -> Durables]
    About,         \* [Events -> ids the payload names]
    Malformed,     \* events whose payload is no JSON
    FilterOf,      \* [Clients -> ids it listens to: its user and a ride]
    BufferSize, HistorySize, Batch,
    MaxConnects,   \* bound: connections a client opens
    MaxFaults      \* bound: crashes of a replica and failures of Fetch

ASSUME SizesAssumption == BufferSize \in Nat \ {0} /\ HistorySize \in Nat /\ Batch \in Nat \ {0}
ASSUME EventsAssumption ==
    Events \subseteq Nat \ {0} /\ IsFiniteSet(Events) /\ Malformed \subseteq Events
(* A replica starts two pull loops.                                        *)
ASSUME ConsumersAssumption == \A d, e, f \in Durables : d = e \/ e = f \/ d = f
ASSUME NoReplicaAssumption == NoReplica \notin Replicas

VARIABLES
    stream,   \* [Events -> where JetStream has the message]
    worker,   \* [Workers -> stage, batch in hand, number of the broadcast]
    numbered, \* [Replicas -> events in the order nextID numbered them]
    history,  \* [Replicas -> notifications kept for replay]
    boots,    \* [Replicas -> restarts so far]
    client,   \* [Clients -> connection, cursor and what it received]
    faults    \* crashes and failures of Fetch so far

vars == <<stream, worker, numbered, history, boots, client, faults>>

Elements(s) == {s[i] : i \in DOMAIN s}

Workers == Replicas \X Durables
Idle == [stage |-> "idle", hand |-> <<>>, id |-> 0]
(* What can make a client miss a number it has a right to.                 *)
Incidents == {"overflow", "trimmed", "moved", "overlap"}

Init ==
    /\ stream = [e \in Events |-> "waiting"]
    /\ worker = [w \in Workers |-> Idle]
    /\ numbered = [r \in Replicas |-> <<>>]
    /\ history = [r \in Replicas |-> <<>>]
    /\ boots = [r \in Replicas |-> 0]
    /\ client = [c \in Clients |->
         [to |-> NoReplica, ch |-> <<>>, cursor |-> 0, got |-> <<>>, connects |-> 0,
          home |-> <<NoReplica, 0>>, since |-> 0, resumed |-> FALSE, excuse |-> {}]]
    /\ faults = 0

------------------------------------------------------------------------------
(* The pull loop.                                                          *)

(* The members of a finite set of numbers, the smallest first.             *)
Ascending(S) ==
    LET rank(i) == Cardinality({j \in S : j <= i})
    IN  [k \in 1..Cardinality(S) |-> CHOOSE i \in S : rank(i) = k]

(* As much of a queue of messages as one pull asks for.                    *)
FirstOf(queue) ==
    SubSeq(queue, 1, IF Len(queue) < Batch THEN Len(queue) ELSE Batch)

(* The server serves what it has to deliver again before what is new, in   *)
(* an order of its own.                                                    *)
Fetch(w) ==
    LET owed(status) == {e \in Events : stream[e] = status /\ DurableOf[e] = w[2]}
        again == owed("again")
        waiting == owed("waiting")
    IN  /\ worker[w] = Idle
        /\ again \cup waiting # {}
        /\ \E early \in SUBSET again :
             LET taken == FirstOf(Ascending(early) \o Ascending(again \ early)
                                    \o Ascending(waiting))
             IN  /\ worker' = [worker EXCEPT ![w].stage = "handle", ![w].hand = taken]
                 /\ stream' = [e \in Events |->
                      IF e \in Elements(taken) THEN "taken" ELSE stream[e]]
        /\ UNCHANGED <<numbered, history, boots, client, faults>>

(* Any error but a timeout ends the loop for good; the process lives on.   *)
FetchFails(w) ==
    /\ worker[w] = Idle
    /\ faults < MaxFaults
    /\ faults' = faults + 1
    /\ worker' = [worker EXCEPT ![w].stage = "stopped"]
    /\ UNCHANGED <<stream, numbered, history, boots, client>>

(* The head of the batch is done with: Ack or Nak, then the next message.  *)
Finish(w, status) ==
    LET hand == worker[w].hand
    IN  /\ worker' = [worker EXCEPT ![w] =
             [stage |-> IF Len(hand) = 1 THEN "idle" ELSE "handle",
              hand |-> Tail(hand), id |-> 0]]
        /\ stream' = [stream EXCEPT ![Head(hand)] = status]

(* toNotification cannot parse the payload: redelivered at once, for ever. *)
Nak(w) ==
    /\ worker[w].stage = "handle"
    /\ Head(worker[w].hand) \in Malformed
    /\ Finish(w, "again")
    /\ UNCHANGED <<numbered, history, boots, client, faults>>

Ack(w) ==
    /\ worker[w].stage = "ack"
    /\ Finish(w, "acked")
    /\ UNCHANGED <<numbered, history, boots, client, faults>>

------------------------------------------------------------------------------
(* Hub.Broadcast                                                           *)

(* The notification a worker is broadcasting.                              *)
Current(w) == [id |-> worker[w].id, event |-> Head(worker[w].hand)]

Matches(c, e) == FilterOf[c] = {} \/ FilterOf[c] \cap About[e] # {}

(* Numbers of a replica whose broadcast is in one of these stages.         *)
InFlight(r, stages) ==
    {worker[w].id : w \in {v \in Workers : v[1] = r /\ worker[v].stage \in stages}}

(* A consumer of the replica holds a smaller number it has not sent yet.   *)
Overtakes(w) ==
    \E i \in InFlight(w[1], {"append", "send"}) : i < worker[w].id

NextID(w) ==
    /\ worker[w].stage = "handle"
    /\ Head(worker[w].hand) \notin Malformed
    /\ numbered' = [numbered EXCEPT ![w[1]] = Append(@, Head(worker[w].hand))]
    /\ worker' = [worker EXCEPT ![w].stage = "append", ![w].id = Len(numbered[w[1]]) + 1]
    /\ UNCHANGED <<stream, history, boots, client, faults>>

(* Mutant of Newest: a trim at the wrong end.                              *)
KeepsOldest(n, h) == IF Len(h) > n THEN SubSeq(h, 1, n) ELSE h

(* The newest n of a history.                                              *)
Newest(n, h) == IF Len(h) > n THEN SubSeq(h, Len(h) - n + 1, Len(h)) ELSE h

Excused(c, S) == [client[c] EXCEPT !.excuse = @ \cup S]

AtHome(c, r) == client[c].home = <<r, boots[r]>>

AppendHistory(w) ==
    /\ worker[w].stage = "append"
    /\ history' = [history EXCEPT ![w[1]] = Newest(HistorySize, Append(@, Current(w)))]
    /\ worker' = [worker EXCEPT ![w].stage = "send"]
    /\ client' = [c \in Clients |->
         IF Overtakes(w) /\ AtHome(c, w[1]) THEN Excused(c, {"overlap"}) ELSE client[c]]
    /\ UNCHANGED <<stream, numbered, boots, faults>>

(* A send that never blocks: a full channel drops the notification.        *)
Push(cl, n) ==
    IF Len(cl.ch) < BufferSize THEN [cl EXCEPT !.ch = Append(@, n)]
                               ELSE [cl EXCEPT !.excuse = @ \cup {"overflow"}]

Send(w) ==
    LET r == w[1]
        late(c) == IF Overtakes(w) /\ AtHome(c, r) THEN Excused(c, {"overlap"}) ELSE client[c]
    IN  /\ worker[w].stage = "send"
        /\ client' = [c \in Clients |->
             IF client[c].to = r /\ Matches(c, Head(worker[w].hand))
             THEN Push(late(c), Current(w)) ELSE late(c)]
        /\ worker' = [worker EXCEPT ![w].stage = "ack"]
        /\ UNCHANGED <<stream, numbered, history, boots, faults>>

------------------------------------------------------------------------------
(* An SSE connection                                                       *)

(* The entries of a replica's history that c may see, newer than a number. *)
Newer(c, r, last) ==
    LET kept == Ascending({i \in DOMAIN history[r] :
                             history[r][i].id > last /\ Matches(c, history[r][i].event)})
    IN  [k \in DOMAIN kept |-> history[r][kept[k]]]

(* Mutant of Replay: the whole history for a client without a number.      *)
ReplaysAlways(c, r, last) == Newer(c, r, last)

(* What SubscribeWithReplay finds newer than the client's Last-Event-ID.   *)
Replay(c, r, last) == IF last = 0 THEN <<>> ELSE Newer(c, r, last)

(* More was appended since the client's number than the history holds.     *)
OutOfReach(r, last) ==
    Cardinality(((last + 1)..Len(numbered[r])) \ InFlight(r, {"append"})) > HistorySize

(* /sse: subscribe, with the number of the last event seen or (a new page) *)
(* without; the gateway passes both on.  A client that has received        *)
(* nothing has no number to send.                                          *)
Connect(c, r, remember) ==
    LET cl == client[c]
        last == IF remember THEN cl.cursor ELSE 0
        replay == Replay(c, r, last)
        fits == SubSeq(replay, 1, IF Len(replay) < BufferSize THEN Len(replay) ELSE BufferSize)
        here == [cl EXCEPT !.to = r, !.ch = fits, !.connects = @ + 1]
    IN  /\ cl.to = NoReplica
        /\ cl.connects < MaxConnects
        /\ client' = [client EXCEPT ![c] =
             IF last = 0
             THEN [here EXCEPT !.cursor = 0, !.got = <<>>, !.home = <<r, boots[r]>>,
                               !.since = Len(numbered[r]), !.resumed = FALSE, !.excuse = {}]
             ELSE [here EXCEPT !.resumed = TRUE,
                    !.excuse = @
                      \cup (IF AtHome(c, r) THEN {} ELSE {"moved"})
                      \cup (IF fits = replay THEN {} ELSE {"overflow"})
                      \cup (IF OutOfReach(r, last) THEN {"trimmed"} ELSE {})]]
        /\ UNCHANGED <<stream, worker, numbered, history, boots, faults>>

(* One turn of the write loop: the client now has the notification.        *)
Write(c) ==
    /\ client[c].to # NoReplica
    /\ client[c].ch # <<>>
    /\ client' = [client EXCEPT ![c].ch = Tail(@),
                                ![c].got = Append(@, Head(client[c].ch)),
                                ![c].cursor = Head(client[c].ch).id]
    /\ UNCHANGED <<stream, worker, numbered, history, boots, faults>>

Gone(cl) == [cl EXCEPT !.to = NoReplica, !.ch = <<>>]

(* The client leaves or a write fails: what its channel held is lost.      *)
Disconnect(c) ==
    /\ client[c].to # NoReplica
    /\ client' = [client EXCEPT ![c] = Gone(client[c])]
    /\ UNCHANGED <<stream, worker, numbered, history, boots, faults>>

(* Mutant of Restart: messages count as delivered once fetched.            *)
RestartForgets(r) ==
    /\ faults < MaxFaults
    /\ faults' = faults + 1
    /\ boots' = [boots EXCEPT ![r] = @ + 1]
    /\ numbered' = [numbered EXCEPT ![r] = <<>>]
    /\ history' = [history EXCEPT ![r] = <<>>]
    /\ worker' = [w \in Workers |-> IF w[1] = r THEN Idle ELSE worker[w]]
    /\ client' = [c \in Clients |-> IF client[c].to = r THEN Gone(client[c]) ELSE client[c]]
    /\ UNCHANGED stream

(* A replica dies and comes back: the hub is empty, unacknowledged         *)
(* messages are redelivered, to any replica.                               *)
Restart(r) ==
    /\ faults < MaxFaults
    /\ faults' = faults + 1
    /\ boots' = [boots EXCEPT ![r] = @ + 1]
    /\ numbered' = [numbered EXCEPT ![r] = <<>>]
    /\ history' = [history EXCEPT ![r] = <<>>]
    /\ worker' = [w \in Workers |-> IF w[1] = r THEN Idle ELSE worker[w]]
    /\ stream' = [e \in Events |->
         IF \E w \in Workers : w[1] = r /\ e \in Elements(worker[w].hand)
         THEN "again" ELSE stream[e]]
    /\ client' = [c \in Clients |-> IF client[c].to = r THEN Gone(client[c]) ELSE client[c]]

Step(w) == Fetch(w) \/ Nak(w) \/ NextID(w) \/ AppendHistory(w) \/ Send(w) \/ Ack(w)

Next ==
    \/ \E w \in Workers : Step(w) \/ FetchFails(w)
    \/ \E c \in Clients : \/ \E r \in Replicas, remember \in BOOLEAN : Connect(c, r, remember)
                          \/ Write(c)
                          \/ Disconnect(c)
    \/ \E r \in Replicas : Restart(r)

Spec == Init /\ [][Next]_vars
(* The consumers' goroutines run as long as their loop does.               *)
FairSpec == Spec /\ \A w \in Workers : WF_vars(Step(w))

------------------------------------------------------------------------------
(* Properties                                                              *)

(* A connected client without an excuse has, received or on its channel,   *)
(* every event about it whose broadcast has ended since it first           *)
(* connected, over however many connections: the history covers what was   *)
(* broadcast while it was away and while it subscribed.                    *)
NoGap ==
    \A c \in Clients : client[c].to # NoReplica /\ client[c].excuse = {} =>
        LET r == client[c].to
            has == {n.id : n \in Elements(client[c].got) \cup Elements(client[c].ch)}
        IN  \A i \in (client[c].since + 1)..Len(numbered[r]) :
              Matches(c, numbered[r][i]) /\ i \notin InFlight(r, {"append", "send"}) => i \in has

(* Without an overlap or a change of hub a client receives a number once,  *)
(* or twice if it subscribed with a replay while the number was on its     *)
(* way: in the history, and then on the channel.  An event that is         *)
(* delivered again has a new number.                                       *)
Repeats ==
    \A c \in Clients : client[c].excuse \cap {"overlap", "moved"} = {} =>
        \A n \in Elements(client[c].got) :
            Cardinality({j \in DOMAIN client[c].got : client[c].got[j] = n})
                <= (IF client[c].resumed THEN 2 ELSE 1)

(* No replica pulls from this consumer any more.                           *)
Deserted(d) == \A r \in Replicas : worker[<<r, d>>].stage = "stopped"

Siblings(e) == {f \in Malformed : DurableOf[f] = DurableOf[e]}

(* A well-formed message gets out while a replica consumes its subject, if *)
(* the malformed ones of its consumer, delivered again and again, leave    *)
(* room in a batch.                                                        *)
GetsOut ==
    \A e \in Events \ Malformed : Cardinality(Siblings(e)) < Batch =>
        <>(stream[e] = "acked" \/ Deserted(DurableOf[e]))

==============================================================================
