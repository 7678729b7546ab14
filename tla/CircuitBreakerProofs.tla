------------------------ MODULE CircuitBreakerProofs ------------------------
(***************************************************************************)
(* A half-open breaker admits a bounded number of probes and never rejects  *)
(* without one in flight, for any settings and any number of callers.       *)
(***************************************************************************)
EXTENDS CircuitBreaker, FiniteSetTheorems, TLAPS

\* Between two steps only a callback holds the mutex.
LockIsCallback == \A c \in Callers : call[c].pc = "callback" <=> lock = c

\* The successes counted and the probes in flight make up for the probes admitted.
ProbesAccounted ==
  state = "half_open" =>
    /\ probing.requests <= Limit /\ probing.success < Limit
    /\ Cardinality(probes) <= probing.requests + 1
    /\ probing.success + Cardinality(probes) >= probing.requests + 1

CallsConsistent ==
  \A c \in Callers :
    /\ c \in probes => InFlight(c)
    /\ call[c].pc = "before" => call[c].res = "none"
    /\ call[c].pc = "after" => call[c].res # "none"
    /\ call[c].pc = "callback" /\ call[c].res # "none" => c \notin probes

IInv == TypeOK /\ LockIsCallback /\ CallsConsistent /\ ProbesAccounted

LEMMA LimitIsNat == Limit \in Nat /\ Limit > 0
BY BreakerAssumption DEF Limit

LEMMA ProbesFinite ==
  ASSUME NEW S \in SUBSET Callers
  PROVE  IsFiniteSet(S) /\ Cardinality(S) \in Nat
BY BreakerAssumption, FS_Subset, FS_CardinalityType

LEMMA ProbeAdded ==
  ASSUME NEW S \in SUBSET Callers, NEW c \in Callers \ S
  PROVE  Cardinality(S \cup {c}) = Cardinality(S) + 1
BY ProbesFinite, FS_AddElement

LEMMA ProbeRemoved ==
  ASSUME NEW S \in SUBSET Callers, NEW c \in Callers
  PROVE  Cardinality(S \ {c}) = Cardinality(S) - (IF c \in S THEN 1 ELSE 0)
BY ProbesFinite, FS_RemoveElement

LEMMA OneProbe == ASSUME NEW c PROVE Cardinality({c}) = 1
BY FS_Singleton

\* What a caller's record becomes is typed.
LEMMA NextCallTyped ==
  ASSUME TypeOK, NEW c \in Callers, NEW r \in Results
  PROVE  /\ Idle \in CallType /\ [Idle EXCEPT !.pc = "before"] \in CallType
         /\ Admitted(c) \in CallType
         /\ [call[c] EXCEPT !.pc = "callback"] \in CallType
         /\ [call[c] EXCEPT !.pc = "after", !.res = r] \in CallType
         /\ AfterAttempt(c, r) \in CallType
         /\ AfterAttempt(c, r).pc \in {"before", "idle"}
         /\ AfterAttempt(c, r).res = "none"
         /\ Admitted(c).pc = "calling"
<1>0. call[c] \in CallType /\ RetryMax \in Nat
  BY BreakerAssumption DEF TypeOK
<1>1. Idle \in CallType /\ [Idle EXCEPT !.pc = "before"] \in CallType
  BY <1>0 DEF Idle, CallType
<1>2. Admitted(c) \in CallType /\ Admitted(c).pc = "calling"
  BY <1>0 DEF Admitted, CallType
<1>3. /\ [call[c] EXCEPT !.pc = "callback"] \in CallType
      /\ [call[c] EXCEPT !.pc = "after", !.res = r] \in CallType
  BY <1>0 DEF CallType, Results
<1>4. AfterAttempt(c, r) \in CallType /\ AfterAttempt(c, r).pc \in {"before", "idle"}
      /\ AfterAttempt(c, r).res = "none"
  <2>1. CASE r = "retryable" /\ call[c].attempt < RetryMax
    <3>1. call[c].attempt + 1 \in 0..RetryMax
      BY <1>0, <2>1 DEF CallType
    <3>2. QED
      BY <2>1, <3>1 DEF AfterAttempt, CallType
  <2>2. CASE ~(r = "retryable" /\ call[c].attempt < RetryMax)
    BY <2>2, <1>1 DEF AfterAttempt, Idle
  <2>3. QED
    BY <2>1, <2>2
<1>5. QED
  BY <1>1, <1>2, <1>3, <1>4

-----------------------------------------------------------------------------
\* What a step of caller c does to the part of the invariant about the calls, when it
\* adds at most c to the probes, or takes c out of them.
LEMMA CallsStep ==
  ASSUME IInv, NEW c \in Callers, NEW x \in CallType, call' = [call EXCEPT ![c] = x],
         probes' \subseteq probes \cup {c},
         c \in probes' => InFlight(c)',
         x.pc = "before" => x.res = "none",
         x.pc = "after" => x.res # "none",
         x.pc = "callback" /\ x.res # "none" => c \notin probes',
         \/ lock' = lock /\ x.pc # "callback" /\ call[c].pc # "callback"
         \/ lock = Nobody /\ lock' = c /\ x.pc = "callback"
         \/ lock = c /\ lock' = Nobody /\ x.pc # "callback"
  PROVE  /\ call' \in [Callers -> CallType] /\ lock' \in Callers \cup {Nobody}
         /\ LockIsCallback' /\ CallsConsistent'
<1>1. call'[c] = x /\ \A d \in Callers \ {c} : call'[d] = call[d]
  BY DEF IInv, TypeOK
<1>2. call' \in [Callers -> CallType] /\ lock' \in Callers \cup {Nobody}
  BY DEF IInv, TypeOK
<1>3. LockIsCallback'
  BY <1>1, BreakerAssumption DEF IInv, LockIsCallback
<1>4. CallsConsistent'
  BY <1>1 DEF IInv, CallsConsistent, InFlight
<1>5. QED
  BY <1>2, <1>3, <1>4

LEMMA InvIsKept == IInv /\ [Next]_vars => IInv'
<1> SUFFICES ASSUME IInv, [Next]_vars PROVE IInv'
  OBVIOUS
<1> USE DEF IInv
<1>0. /\ state \in {"closed", "open", "half_open"} /\ counts \in [requests: Nat, failures: Nat]
      /\ probing \in [requests: Nat, success: Nat] /\ cooled \in BOOLEAN /\ lapsed \in BOOLEAN
      /\ calls \in Nat /\ probes \in SUBSET Callers /\ Limit \in Nat /\ Limit > 0
      /\ Cardinality(probes) \in Nat
  BY LimitIsNat, ProbesFinite DEF TypeOK
<1>c. \A c \in Callers : /\ call[c] \in CallType
                         /\ call[c].pc \in {"idle", "before"} => c \notin probes
                         /\ call[c].pc = "before" => call[c].res = "none"
                         /\ call[c].pc = "after" => call[c].res \in Results
  BY DEF TypeOK, CallsConsistent, InFlight, CallType
<1>n. NoCounts \in [requests: Nat, failures: Nat]
  BY DEF NoCounts
<1>u. ASSUME NEW c \in Callers PROVE Counted(c) \in [requests: Nat, failures: Nat]
  BY <1>0 DEF Counted
<1>1. ASSUME NEW c \in Callers, Start(c) PROVE IInv'
  <2> DEFINE x == [Idle EXCEPT !.pc = "before"]
  <2>1. x \in CallType /\ x.pc = "before" /\ x.res = "none" /\ call[c].pc = "idle"
    BY <1>1, NextCallTyped DEF Start, Idle, Results
  <2>2. /\ call' = [call EXCEPT ![c] = x] /\ calls' \in Nat /\ lock' = lock
        /\ UNCHANGED <<breaker, probes>>
    BY <1>0, <1>1 DEF Start, GoesOn
  <2> HIDE DEF x
  <2>3. /\ call' \in [Callers -> CallType] /\ lock' \in Callers \cup {Nobody}
        /\ LockIsCallback' /\ CallsConsistent'
    BY <1>c, <2>1, <2>2, CallsStep
  <2>4. QED
    BY <2>2, <2>3 DEF TypeOK, ProbesAccounted, breaker
<1>2. ASSUME NEW c \in Callers, AdmitClosed(c) PROVE IInv'
  <2>1. /\ call' = [call EXCEPT ![c] = Admitted(c)] /\ lock' = lock /\ probes' = probes
        /\ state = "closed" /\ state' = "closed" /\ call[c].pc = "before"
        /\ UNCHANGED <<probing, cooled, calls>> /\ lapsed' = FALSE
        /\ counts' \in [requests: Nat, failures: Nat]
    BY <1>0, <1>2, <1>n DEF AdmitClosed, GoesOn, AtBefore
  <2>2. Admitted(c) \in CallType /\ Admitted(c).pc = "calling"
    BY NextCallTyped DEF Results
  <2>3. /\ call' \in [Callers -> CallType] /\ lock' \in Callers \cup {Nobody}
        /\ LockIsCallback' /\ CallsConsistent'
    BY <1>c, <2>1, <2>2, CallsStep
  <2>4. QED
    BY <2>1, <2>3 DEF TypeOK, ProbesAccounted
<1>3. ASSUME NEW c \in Callers, HalfOpen(c) PROVE IInv'
  <2> DEFINE x == [call[c] EXCEPT !.pc = "callback"]
  <2>1. /\ call' = [call EXCEPT ![c] = x] /\ lock = Nobody /\ lock' = c /\ probes' = {c}
        /\ state' = "half_open" /\ call[c].pc = "before"
        /\ probing' = [requests |-> 0, success |-> 0]
        /\ UNCHANGED <<counts, cooled, lapsed, calls>>
    BY <1>3 DEF HalfOpen, Notify, AtBefore
  <2>2. x \in CallType /\ x.pc = "callback" /\ x.res = "none"
    <3>1. x \in CallType
      BY NextCallTyped DEF Results
    <3>2. call[c] \in CallType /\ call[c].res = "none"
      BY <1>c, <2>1
    <3>3. x.pc = "callback" /\ x.res = "none"
      BY <3>2 DEF CallType
    <3>4. QED
      BY <3>1, <3>3
  <2>3. InFlight(c)'
    BY <2>1, <2>2 DEF InFlight, TypeOK
  <2> HIDE DEF x
  <2>4. /\ call' \in [Callers -> CallType] /\ lock' \in Callers \cup {Nobody}
        /\ LockIsCallback' /\ CallsConsistent'
    BY <2>1, <2>2, <2>3, CallsStep
  <2>5. Cardinality(probes') = 1
    BY <2>1, OneProbe
  <2>6. ProbesAccounted'
    BY <1>0, <2>1, <2>5, BreakerAssumption DEF ProbesAccounted, Limit
  <2>7. QED
    BY <2>1, <2>4, <2>6 DEF TypeOK
<1>4. ASSUME NEW c \in Callers, AdmitProbe(c) PROVE IInv'
  <2>1. /\ call' = [call EXCEPT ![c] = Admitted(c)] /\ lock' = lock /\ probes' = probes \cup {c}
        /\ state = "half_open" /\ state' = "half_open" /\ call[c].pc = "before"
        /\ probing.requests < Limit
        /\ probing' = [probing EXCEPT !.requests = @ + 1]
        /\ UNCHANGED <<counts, cooled, lapsed, calls>>
    BY <1>4 DEF AdmitProbe, GoesOn, AtBefore
  <2>2. Admitted(c) \in CallType /\ Admitted(c).pc = "calling"
    BY NextCallTyped DEF Results
  <2>3. InFlight(c)'
    BY <2>1, <2>2 DEF InFlight, TypeOK
  <2>4. /\ call' \in [Callers -> CallType] /\ lock' \in Callers \cup {Nobody}
        /\ LockIsCallback' /\ CallsConsistent'
    BY <2>1, <2>2, <2>3, CallsStep
  <2>5. Cardinality(probes') = Cardinality(probes) + 1
    BY <1>0, <1>c, <2>1, ProbeAdded
  <2>6. /\ probing'.requests = probing.requests + 1 /\ probing'.success = probing.success
        /\ probing' \in [requests: Nat, success: Nat]
    BY <1>0, <2>1
  <2>7. ProbesAccounted'
    BY <1>0, <2>1, <2>5, <2>6, BreakerAssumption DEF ProbesAccounted, Limit
  <2>8. QED
    BY <1>0, <2>1, <2>4, <2>6, <2>7 DEF TypeOK
<1>5. ASSUME NEW c \in Callers, Reject(c) PROVE IInv'
  <2> DEFINE x == AfterAttempt(c, "retryable")
  <2>1. x \in CallType /\ x.pc \in {"before", "idle"} /\ x.res = "none"
    BY NextCallTyped DEF Results
  <2>2. /\ call' = [call EXCEPT ![c] = x] /\ lock' = lock /\ call[c].pc = "before"
        /\ UNCHANGED <<breaker, calls, probes>>
    BY <1>5 DEF Reject, GoesOn, AtBefore
  <2> HIDE DEF x
  <2>3. /\ call' \in [Callers -> CallType] /\ lock' \in Callers \cup {Nobody}
        /\ LockIsCallback' /\ CallsConsistent'
    BY <1>c, <2>1, <2>2, CallsStep
  <2>4. QED
    BY <2>2, <2>3 DEF TypeOK, ProbesAccounted, breaker
<1>6. ASSUME NEW c \in Callers, Result(c) PROVE IInv'
  <2>1. PICK r \in Results : call' = [call EXCEPT ![c] = [call[c] EXCEPT !.pc = "after", !.res = r]]
    BY <1>6 DEF Result, GoesOn
  <2> DEFINE x == [call[c] EXCEPT !.pc = "after", !.res = r]
  <2>2. x \in CallType /\ x.pc = "after" /\ x.res # "none"
    <3>1. x \in CallType
      BY NextCallTyped
    <3>2. x.pc = "after" /\ x.res = r /\ r # "none"
      BY <1>c DEF CallType, Results
    <3>3. QED
      BY <3>1, <3>2
  <2>3. /\ call' = [call EXCEPT ![c] = x] /\ lock' = lock /\ call[c].pc = "calling"
        /\ UNCHANGED <<breaker, calls, probes>>
    BY <1>6, <2>1 DEF Result
  <2>4. InFlight(c)'
    BY <2>2, <2>3 DEF InFlight, TypeOK
  <2> HIDE DEF x
  <2>5. /\ call' \in [Callers -> CallType] /\ lock' \in Callers \cup {Nobody}
        /\ LockIsCallback' /\ CallsConsistent'
    BY <2>2, <2>3, <2>4, CallsStep
  <2>6. QED
    BY <2>3, <2>5 DEF TypeOK, ProbesAccounted, breaker
<1>7. ASSUME NEW c \in Callers, AtAfter(c) PROVE
        LET x == AfterAttempt(c, call[c].res) IN
          /\ x \in CallType /\ x.pc \in {"before", "idle"} /\ x.res = "none"
          /\ call[c].pc = "after" /\ call[c].res \in Results /\ lock = Nobody
          /\ Counted(c) \in [requests: Nat, failures: Nat]
          /\ Cardinality(probes \ {c}) = Cardinality(probes) - (IF c \in probes THEN 1 ELSE 0)
  BY <1>0, <1>c, <1>u, <1>7, NextCallTyped, ProbeRemoved DEF AtAfter
<1>8. ASSUME NEW c \in Callers, CountResult(c) PROVE IInv'
  <2> DEFINE x == AfterAttempt(c, call[c].res)
  <2>1. /\ call' = [call EXCEPT ![c] = x] /\ lock' = lock
        /\ probes' = probes \ {c} /\ counts' = Counted(c)
        /\ UNCHANGED <<state, cooled, lapsed, calls>>
        /\ probing' = IF state = "half_open" THEN [probing EXCEPT !.success = @ + 1] ELSE probing
        /\ state = "half_open" => probing.success + 1 < Limit
        /\ AtAfter(c)
    BY <1>8 DEF CountResult, GoesOn, AtAfter
  <2>2. /\ x \in CallType /\ x.pc \in {"before", "idle"} /\ x.res = "none"
        /\ call[c].pc = "after" /\ lock = Nobody
        /\ counts' \in [requests: Nat, failures: Nat]
        /\ Cardinality(probes') = Cardinality(probes) - (IF c \in probes THEN 1 ELSE 0)
    BY <1>7, <2>1
  <2> HIDE DEF x
  <2>3. /\ call' \in [Callers -> CallType] /\ lock' \in Callers \cup {Nobody}
        /\ LockIsCallback' /\ CallsConsistent'
    BY <2>1, <2>2, CallsStep
  <2>4. /\ probing' \in [requests: Nat, success: Nat]
        /\ state = "half_open" => /\ probing'.requests = probing.requests
                                  /\ probing'.success = probing.success + 1
    BY <1>0, <2>1
  <2>5. ProbesAccounted'
    BY <1>0, <2>1, <2>2, <2>4, BreakerAssumption DEF ProbesAccounted, Limit
  <2>6. QED
    BY <1>0, <2>1, <2>2, <2>3, <2>4, <2>5 DEF TypeOK
<1>9. ASSUME NEW c \in Callers, Open(c) \/ Close(c) PROVE IInv'
  <2> DEFINE x == [call[c] EXCEPT !.pc = "callback"]
  <2>1. /\ call' = [call EXCEPT ![c] = x] /\ lock = Nobody /\ lock' = c
        /\ probes' = probes \ {c} /\ calls' = calls /\ AtAfter(c)
        /\ state' \in {"open", "closed"}
    BY <1>9 DEF Open, Close, Notify, AtAfter
  <2>2. /\ counts' \in [requests: Nat, failures: Nat]
        /\ probing' \in [requests: Nat, success: Nat]
        /\ cooled' \in BOOLEAN /\ lapsed' \in BOOLEAN
    <3>1. CASE Open(c)
      BY <1>0, <1>u, <3>1 DEF Open
    <3>2. CASE Close(c)
      <4>1. /\ counts' = NoCounts /\ lapsed' = FALSE /\ cooled' = cooled
            /\ probing' = [probing EXCEPT !.success = @ + 1]
        BY <3>2 DEF Close
      <4>2. probing' \in [requests: Nat, success: Nat]
        BY <1>0, <4>1
      <4>3. QED
        BY <1>0, <1>n, <4>1, <4>2
    <3>3. QED
      BY <1>9, <3>1, <3>2
  <2>3. x \in CallType /\ x.pc = "callback"
    <3>1. x \in CallType
      BY NextCallTyped DEF Results
    <3>2. x.pc = "callback"
      BY <1>c DEF CallType
    <3>3. QED
      BY <3>1, <3>2
  <2> HIDE DEF x
  <2>4. /\ call' \in [Callers -> CallType] /\ lock' \in Callers \cup {Nobody}
        /\ LockIsCallback' /\ CallsConsistent'
    BY <2>1, <2>3, CallsStep
  <2>5. QED
    BY <1>0, <2>1, <2>2, <2>4 DEF TypeOK, ProbesAccounted
<1>10. ASSUME NEW c \in Callers, CallbackReturns(c) PROVE IInv'
  <2> DEFINE x == IF call[c].res = "none" THEN Admitted(c) ELSE AfterAttempt(c, call[c].res)
  <2>1. /\ call' = [call EXCEPT ![c] = x] /\ lock' = Nobody /\ call[c].pc = "callback"
        /\ UNCHANGED <<breaker, calls, probes>>
    BY <1>10 DEF CallbackReturns, GoesOn
  <2>2. lock = c
    BY <2>1 DEF LockIsCallback
  <2>3. x \in CallType /\ x.pc \in {"calling", "before", "idle"}
        /\ (x.pc = "before" => x.res = "none")
    <3>1. CASE call[c].res = "none"
      <4>1. Admitted(c) \in CallType /\ Admitted(c).pc = "calling"
        BY NextCallTyped DEF Results
      <4>2. QED
        BY <3>1, <4>1
    <3>2. CASE call[c].res # "none"
      <4>1. call[c].res \in Results
        BY <1>c, <3>2 DEF CallType
      <4>2. QED
        BY <3>2, <4>1, NextCallTyped
    <3>3. QED
      BY <3>1, <3>2
  <2>4. c \in probes => x.pc = "calling"
    <3>1. c \in probes => call[c].res = "none"
      BY <2>1 DEF CallsConsistent
    <3>2. QED
      BY <3>1, NextCallTyped DEF Results
  <2> HIDE DEF x
  <2>5. c \in probes' => InFlight(c)'
    BY <2>1, <2>4 DEF InFlight, TypeOK
  <2>6. /\ call' \in [Callers -> CallType] /\ lock' \in Callers \cup {Nobody}
        /\ LockIsCallback' /\ CallsConsistent'
    BY <2>1, <2>2, <2>3, <2>5, CallsStep
  <2>7. QED
    BY <2>1, <2>6 DEF TypeOK, ProbesAccounted, breaker
<1>11. CASE TimeoutPasses \/ IntervalPasses \/ UNCHANGED vars
  BY <1>11 DEF TimeoutPasses, IntervalPasses, vars, TypeOK, LockIsCallback, CallsConsistent,
     InFlight, ProbesAccounted
<1>12. QED
  BY <1>1, <1>2, <1>3, <1>4, <1>5, <1>6, <1>8, <1>9, <1>10, <1>11 DEF Next, Step

LEMMA InvHoldsInitially == Init => IInv
<1> SUFFICES ASSUME Init PROVE IInv
  OBVIOUS
<1>1. Idle \in CallType /\ Idle.pc = "idle"
  BY BreakerAssumption DEF Idle, CallType
<1>2. TypeOK
  BY <1>1 DEF Init, TypeOK, NoCounts
<1>3. LockIsCallback /\ CallsConsistent /\ ProbesAccounted
  BY <1>1, BreakerAssumption DEF Init, LockIsCallback, CallsConsistent, ProbesAccounted
<1>4. QED
  BY <1>2, <1>3 DEF IInv

-----------------------------------------------------------------------------
\* The breaker's state keeps its type.
THEOREM BreakerTypes == Spec => []TypeOK
<1>1. IInv => TypeOK
  BY DEF IInv
<1>2. QED
  BY <1>1, InvHoldsInitially, InvIsKept, PTL DEF Spec

\* At most MaxRequests + 1 calls of a half-open period are in flight.
THEOREM BreakerProbesBounded == Spec => []ProbesBounded
<1>1. IInv => ProbesBounded
  BY LimitIsNat, ProbesFinite DEF IInv, TypeOK, ProbesAccounted, ProbesBounded
<1>2. QED
  BY <1>1, InvHoldsInitially, InvIsKept, PTL DEF Spec

\* A half-open breaker that rejects waits for a probe that is in flight.
THEOREM BreakerRejectsWhileProbed == Spec => []RejectsWhileProbed
<1>1. IInv => RejectsWhileProbed
  <2> SUFFICES ASSUME IInv, state = "half_open", probing.requests >= Limit
               PROVE  probes # {} /\ \A c \in probes : InFlight(c)
    BY DEF RejectsWhileProbed
  <2>1. Cardinality(probes) # 0
    BY LimitIsNat, ProbesFinite DEF IInv, TypeOK, ProbesAccounted
  <2>2. QED
    BY <2>1, FS_EmptySet DEF IInv, TypeOK, CallsConsistent
<1>2. QED
  BY <1>1, InvHoldsInitially, InvIsKept, PTL DEF Spec
=============================================================================
