--------------------------- MODULE CircuitBreaker ---------------------------
(***************************************************************************)
(* The circuit breaker in front of the user service, and the client that    *)
(* retries through it.  Every read or write of the breaker is under one     *)
(* mutex; the request itself runs without it, so a result may arrive in     *)
(* another state, or another half-open period, than its request left in.    *)
(* The mutex of Go is not reentrant.                                        *)
(***************************************************************************)
EXTENDS Integers, FiniteSets

CONSTANTS
  Callers,              \* goroutines that call GetUserProfile
  MaxRequests,          \* settings: probes and successes of a half-open period
  MinRequests,          \* settings: requests before the ratio counts
  RatioNum, RatioDen,   \* settings: FailureRatio = RatioNum / RatioDen
  RetryMax,             \* attempts of a call after the first
  CallbackReadsStats,   \* OnStateChange calls Stats(), as serve.go's does
  MaxCalls,             \* bound: calls that start
  Nobody                \* nobody holds the mutex

ASSUME BreakerAssumption ==
  /\ {MaxRequests, MinRequests, RatioNum, RatioDen, RetryMax, MaxCalls} \subseteq Nat
  /\ CallbackReadsStats \in BOOLEAN
  /\ Nobody \notin Callers
  /\ IsFiniteSet(Callers)

VARIABLES
  state,    \* cb.state
  counts,   \* cb.counts
  probing,  \* cb.halfOpenRequests and cb.halfOpenSuccess
  cooled,   \* Timeout has passed since openedAt
  lapsed,   \* Interval has passed since intervalStarted
  lock,     \* who holds cb.mu between two steps (only a callback does)
  call,     \* each caller: where it is, its attempt, the attempt's result
  calls,    \* calls started (bound)
  probes    \* calls in flight that the present or last half-open period admitted

breaker == <<state, counts, probing, cooled, lapsed>>
vars == <<state, counts, probing, cooled, lapsed, lock, call, calls, probes>>

Results == {"ok", "retryable", "fatal"}
NoCounts == [requests |-> 0, failures |-> 0]
Idle == [pc |-> "idle", attempt |-> 0, res |-> "none"]

\* settings.MaxRequests, where 0 stands for 1.
Limit == IF MaxRequests = 0 THEN 1 ELSE MaxRequests

Init ==
  /\ state = "closed"
  /\ counts = NoCounts
  /\ probing = [requests |-> 0, success |-> 0]
  /\ cooled = FALSE /\ lapsed = FALSE
  /\ lock = Nobody
  /\ call = [c \in Callers |-> Idle]
  /\ calls = 0
  /\ probes = {}

-----------------------------------------------------------------------------
\* The attempt is over with result r: the call returns, or tries again after a
\* backoff (an open circuit is retried like any Unavailable).
AfterAttempt(c, r) ==
  IF r = "retryable" /\ call[c].attempt < RetryMax
  THEN [pc |-> "before", attempt |-> call[c].attempt + 1, res |-> "none"]
  ELSE Idle

GoesOn(c, next) == call' = [call EXCEPT ![c] = next]

\* The tail of setState: OnStateChange runs while cb.mu is held.
Notify(c, next) ==
  /\ lock' = c
  /\ call' = [call EXCEPT ![c] = [next EXCEPT !.pc = "callback"]]

\* GetUserProfile begins its first attempt.
Start(c) ==
  /\ call[c].pc = "idle"
  /\ calls < MaxCalls
  /\ calls' = calls + 1
  /\ GoesOn(c, [Idle EXCEPT !.pc = "before"])
  /\ UNCHANGED <<breaker, lock, probes>>

AtBefore(c) == call[c].pc = "before" /\ lock = Nobody
Admitted(c) == [call[c] EXCEPT !.pc = "calling"]

\* beforeRequest in CLOSED: always admitted; a lapsed interval starts anew.
AdmitClosed(c) ==
  /\ AtBefore(c)
  /\ state = "closed"
  /\ counts' = IF lapsed THEN NoCounts ELSE counts
  /\ lapsed' = FALSE
  /\ GoesOn(c, Admitted(c))
  /\ UNCHANGED <<state, probing, cooled, lock, calls, probes>>

\* beforeRequest in OPEN after Timeout (handleOpen): the call that finds this out
\* is admitted without being counted in halfOpenRequests.
HalfOpen(c) ==
  /\ AtBefore(c)
  /\ state = "open" /\ cooled
  /\ state' = "half_open"
  /\ probing' = [requests |-> 0, success |-> 0]
  /\ probes' = {c}
  /\ Notify(c, call[c])
  /\ UNCHANGED <<counts, cooled, lapsed, calls>>

\* Mutant: > in place of >=.
AdmitOneMore(c) ==
  /\ AtBefore(c)
  /\ state = "half_open"
  /\ probing.requests <= Limit
  /\ probing' = [probing EXCEPT !.requests = @ + 1]
  /\ probes' = probes \cup {c}
  /\ GoesOn(c, Admitted(c))
  /\ UNCHANGED <<state, counts, cooled, lapsed, lock, calls>>

\* beforeRequest in HALF_OPEN, below MaxRequests.
AdmitProbe(c) ==
  /\ AtBefore(c)
  /\ state = "half_open"
  /\ probing.requests < Limit
  /\ probing' = [probing EXCEPT !.requests = @ + 1]
  /\ probes' = probes \cup {c}
  /\ GoesOn(c, Admitted(c))
  /\ UNCHANGED <<state, counts, cooled, lapsed, lock, calls>>

\* Mutant: the early return does not unlock.
RejectLeavesLocked(c) ==
  /\ AtBefore(c)
  /\ \/ state = "open" /\ ~cooled
     \/ state = "half_open" /\ probing.requests >= Limit
  /\ lock' = c
  /\ GoesOn(c, AfterAttempt(c, "retryable"))
  /\ UNCHANGED <<breaker, calls, probes>>

\* beforeRequest in OPEN before Timeout, or in HALF_OPEN at MaxRequests: the attempt
\* ends with ErrCircuitOpen, which the client returns as Unavailable.
Reject(c) ==
  /\ AtBefore(c)
  /\ \/ state = "open" /\ ~cooled
     \/ state = "half_open" /\ probing.requests >= Limit
  /\ GoesOn(c, AfterAttempt(c, "retryable"))
  /\ UNCHANGED <<breaker, lock, calls, probes>>

\* Mutant: a call whose context has ended returns without afterRequest.
ResultOfEndedContext(c) ==
  /\ call[c].pc = "calling"
  /\ \E r \in Results :
       GoesOn(c, IF r = "fatal" THEN Idle ELSE [call[c] EXCEPT !.pc = "after", !.res = r])
  /\ UNCHANGED <<breaker, lock, calls, probes>>

\* The request to the user service ends, with any result.
Result(c) ==
  /\ call[c].pc = "calling"
  /\ \E r \in Results : GoesOn(c, [call[c] EXCEPT !.pc = "after", !.res = r])
  /\ UNCHANGED <<breaker, lock, calls, probes>>

AtAfter(c) == call[c].pc = "after" /\ lock = Nobody

\* What every afterRequest does first.  Every error counts, a NotFound too.
Counted(c) ==
  [requests |-> counts.requests + 1,
   failures |-> counts.failures + IF call[c].res = "ok" THEN 0 ELSE 1]

ShouldTrip(n) ==
  /\ n.requests # 0 /\ n.requests >= MinRequests
  /\ RatioNum > 0
  /\ n.failures * RatioDen >= RatioNum * n.requests

\* afterRequest that changes no state.
CountResult(c) ==
  /\ AtAfter(c)
  /\ \/ state = "open"
     \/ state = "closed" /\ ~ShouldTrip(Counted(c))
     \/ state = "half_open" /\ call[c].res = "ok" /\ probing.success + 1 < Limit
  /\ counts' = Counted(c)
  /\ probing' = IF state = "half_open" THEN [probing EXCEPT !.success = @ + 1] ELSE probing
  /\ probes' = probes \ {c}
  /\ GoesOn(c, AfterAttempt(c, call[c].res))
  /\ UNCHANGED <<state, cooled, lapsed, lock, calls>>

\* afterRequest that opens the breaker: too many failures, or a failure in HALF_OPEN.
Open(c) ==
  /\ AtAfter(c)
  /\ \/ state = "closed" /\ ShouldTrip(Counted(c))
     \/ state = "half_open" /\ call[c].res # "ok"
  /\ state' = "open"
  /\ counts' = Counted(c)
  /\ cooled' = FALSE
  /\ probes' = probes \ {c}
  /\ Notify(c, call[c])
  /\ UNCHANGED <<probing, lapsed, calls>>

\* afterRequest that closes it: enough successes.
Close(c) ==
  /\ AtAfter(c)
  /\ state = "half_open" /\ call[c].res = "ok" /\ probing.success + 1 >= Limit
  /\ state' = "closed"
  /\ probing' = [probing EXCEPT !.success = @ + 1]
  /\ counts' = NoCounts /\ lapsed' = FALSE
  /\ probes' = probes \ {c}
  /\ Notify(c, call[c])
  /\ UNCHANGED <<cooled, calls>>

\* The callback returns, the mutex is released, the caller goes on.  A callback that
\* calls Stats() waits here for the mutex its own goroutine holds.
CallbackReturns(c) ==
  /\ call[c].pc = "callback"
  /\ ~CallbackReadsStats
  /\ lock' = Nobody
  /\ GoesOn(c, IF call[c].res = "none" THEN Admitted(c) ELSE AfterAttempt(c, call[c].res))
  /\ UNCHANGED <<breaker, calls, probes>>

TimeoutPasses ==
  /\ state = "open" /\ ~cooled
  /\ cooled' = TRUE
  /\ UNCHANGED <<state, counts, probing, lapsed, lock, call, calls, probes>>

IntervalPasses ==
  /\ ~lapsed
  /\ lapsed' = TRUE
  /\ UNCHANGED <<state, counts, probing, cooled, lock, call, calls, probes>>

Step(c) ==
  \/ AdmitClosed(c) \/ HalfOpen(c) \/ AdmitProbe(c) \/ Reject(c)
  \/ Result(c)
  \/ CountResult(c) \/ Open(c) \/ Close(c)
  \/ CallbackReturns(c)

Next ==
  \/ \E c \in Callers : Start(c) \/ Step(c)
  \/ TimeoutPasses
  \/ IntervalPasses

Spec == Init /\ [][Next]_vars

\* Goroutines run, time passes, and the user service answers or times out; nobody
\* has to call.  The mutex is fair enough: Go hands it to a waiter that starves.
Fairness == WF_vars(TimeoutPasses) /\ \A c \in Callers : SF_vars(Step(c))
FairSpec == Spec /\ Fairness

-----------------------------------------------------------------------------
CallType == [pc: {"idle", "before", "callback", "calling", "after"},
             attempt: 0..RetryMax, res: Results \cup {"none"}]

TypeOK ==
  /\ state \in {"closed", "open", "half_open"}
  /\ counts \in [requests: Nat, failures: Nat]
  /\ probing \in [requests: Nat, success: Nat]
  /\ cooled \in BOOLEAN /\ lapsed \in BOOLEAN
  /\ lock \in Callers \cup {Nobody}
  /\ call \in [Callers -> CallType]
  /\ calls \in Nat
  /\ probes \in SUBSET Callers

InFlight(c) == call[c].pc \in {"callback", "calling", "after"}

\* A half-open period never has more than MaxRequests + 1 of the calls it admitted
\* in flight (one more than the setting: the call that opened the period is not
\* counted), although they return, retry and are admitted again.
ProbesBounded == state = "half_open" => Cardinality(probes) <= Limit + 1

\* A half-open breaker that rejects everything is waiting for probes that are still
\* in flight: it cannot get stuck rejecting, whatever stale results arrive.
RejectsWhileProbed ==
  (state = "half_open" /\ probing.requests >= Limit) =>
    probes # {} /\ \A c \in probes : InFlight(c)

\* user_client.go:63 answers a call at an open circuit with "user service circuit
\* open": a call always gets an answer.
CallsReturn == \A c \in Callers : call[c].pc # "idle" ~> call[c].pc = "idle"

\* A half-open breaker that rejects leaves that state when the probes have answered.
HalfOpenEnds ==
  (state = "half_open" /\ probing.requests >= Limit)
    ~> (state # "half_open")
=============================================================================
