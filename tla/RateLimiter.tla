----------------------------- MODULE RateLimiter -----------------------------
(***************************************************************************)
(* The counters in Redis that limit requests.  A request increments the    *)
(* counter of its key and gives the key a time to live of one window; it   *)
(* is admitted while the counter is within the limit.  Refused requests    *)
(* count and renew the time to live too, so a window ends only when the    *)
(* key has been left alone for its whole length.                           *)
(*                                                                         *)
(* The gateway sends the commands in a transaction; the user service sends *)
(* them in a plain pipeline, which may be cut between the two.             *)
(***************************************************************************)
EXTENDS Naturals, Sequences

CONSTANTS
    Keys,          \* prefix and user id or address
    Limit,         \* [Keys -> requests per window]
    Window,        \* [Keys -> length of the window]
    Plain,         \* keys whose commands are not sent in a transaction
    MaxTime,       \* bound: the clock
    MaxFaults      \* bound: failures of Redis, and whatever else may fail

ASSUME LimitAssumption == Limit \in [Keys -> Nat \ {0}]
ASSUME WindowAssumption == Window \in [Keys -> Nat \ {0}]
ASSUME PlainAssumption == Plain \subseteq Keys
ASSUME TimeAssumption == MaxTime \in Nat /\ MaxFaults \in Nat

VARIABLES
    now,
    count,     \* [Keys -> value of the counter, while the key lives]
    until,     \* [Keys -> end of its time to live]
    kept,      \* keys that live on without a time to live
    asked,     \* ghost, [Keys -> times of the requests that were counted]
    admitted,  \* ghost, [Keys -> times of the requests that were admitted]
    faults

limiter == <<now, count, until, kept, asked, admitted, faults>>

LimiterInit ==
    /\ now = 0
    /\ count = [k \in Keys |-> 0]
    /\ until = [k \in Keys |-> 0]
    /\ kept = {}
    /\ asked = [k \in Keys |-> <<>>]
    /\ admitted = [k \in Keys |-> <<>>]
    /\ faults = 0

(* Without EXPIRE a key would live for ever.                               *)
LiveForever(k) == count[k] > 0

Live(k) == now < until[k] \/ k \in kept

(* INCR makes a new counter of an expired one.                             *)
Incremented(k) == (IF Live(k) THEN count[k] ELSE 0) + 1

Incr(k) ==
    /\ count' = [count EXCEPT ![k] = Incremented(k)]
    /\ asked' = [asked EXCEPT ![k] = Append(@, now)]

Expire(k) ==
    /\ until' = [until EXCEPT ![k] = now + Window[k]]
    /\ kept' = kept \ {k}

AdmitsOneMore(k) == Incremented(k) <= Limit[k] + 1

Admits(k) == Incremented(k) <= Limit[k]

(* A request of k is counted, and the caller learns whether it may go on.  *)
Allow(k) ==
    /\ Incr(k)
    /\ Expire(k)
    /\ admitted' = IF Admits(k) THEN [admitted EXCEPT ![k] = Append(@, now)] ELSE admitted
    /\ UNCHANGED <<now, faults>>

(* The INCR of a pipeline that is cut before its EXPIRE.                   *)
IncrAlone(k) ==
    /\ k \in Plain
    /\ Incr(k)
    /\ kept' = IF Live(k) THEN kept ELSE kept \cup {k}
    /\ UNCHANGED until

(* The caller gets an error, before or after Redis has done its part, and  *)
(* refuses the request.                                                    *)
AllowFails(k) ==
    /\ faults < MaxFaults
    /\ faults' = faults + 1
    /\ \/ UNCHANGED <<count, until, kept, asked>>
       \/ Incr(k) /\ Expire(k)
       \/ IncrAlone(k)
    /\ UNCHANGED <<now, admitted>>

Tick ==
    /\ now < MaxTime
    /\ now' = now + 1
    /\ UNCHANGED <<count, until, kept, asked, admitted, faults>>

LimiterNext == Tick \/ \E k \in Keys : Allow(k) \/ AllowFails(k)

LimiterSpec == LimiterInit /\ [][LimiterNext]_limiter

------------------------------------------------------------------------------
(* The limiter implements the sliding window, though its window is neither *)
(* sliding nor fixed.                                                      *)
Sliding == INSTANCE SlidingWindow WITH log <- admitted

(* At most Limit requests of a key are admitted in any Window, whatever    *)
(* fails and however the requests of several gateways interleave.          *)
WindowHolds == Sliding!Spec

(* The last Limit + 1 requests of k came less than a Window apart.         *)
Busy(k) ==
    /\ Limit[k] < Len(asked[k])
    /\ \A i \in (Len(asked[k]) - Limit[k])..(Len(asked[k]) - 1) :
           asked[k][i + 1] < asked[k][i] + Window[k]

Refuses(k) ==
    /\ asked'[k] # asked[k]
    /\ admitted'[k] = admitted[k]
    /\ faults' = faults

(* A request that Redis counted is refused only when the key has been kept *)
(* busy: Limit requests before it, none of them a Window after the one     *)
(* before.  A client that pauses for a Window is admitted again.           *)
RejectsOnlyBusy == [][\A k \in Keys \ Plain : Refuses(k) => Busy(k)']_limiter

==============================================================================
