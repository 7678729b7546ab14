---------------------------- MODULE GatewayProofs ----------------------------
(***************************************************************************)
(* The limiter keeps the promise of the sliding window, and refuses only   *)
(* who kept asking, for every number of keys, every limit and window.  Its *)
(* invariant says why the counter is enough: an admission that the counter *)
(* has forgotten is a Window old (Forgotten), because the key outlives all *)
(* its admissions by that much (Outlived); and the requests the counter    *)
(* knows are a chain without a pause (Chained).                            *)
(*                                                                         *)
(* The gateway and the services behind it use the limiters as RateLimiter  *)
(* lets its callers: what is proved of the limiter alone holds of requests *)
(* on their way through the gateway, whatever else fails.                  *)
(***************************************************************************)
EXTENDS Gateway, FiniteSetTheorems, TLAPS

(* ------------------------------ the limiter ---------------------------- *)

LimiterTypes ==
    /\ now \in Nat
    /\ count \in [Keys -> Nat]
    /\ until \in [Keys -> Nat]
    /\ kept \in SUBSET Plain
    /\ asked \in [Keys -> Seq(Nat)]
    /\ admitted \in [Keys -> Seq(Nat)]
    /\ faults \in Nat

Past(k) == \A i \in 1..Len(admitted[k]) : admitted[k][i] <= now

Outlived(k) == \A i \in 1..Len(admitted[k]) : admitted[k][i] + Window[k] <= until[k]

Forgotten(k) ==
    \A i \in 1..Len(admitted[k]) :
        i + count[k] <= Len(admitted[k]) \/ i + Limit[k] <= Len(admitted[k])
            => admitted[k][i] + Window[k] <= now

Chained(k) ==
    /\ count[k] <= Len(asked[k])
    /\ Len(asked[k]) > 0 => until[k] = asked[k][Len(asked[k])] + Window[k]
    /\ \A i \in 1..(Len(asked[k]) - 1) :
           Len(asked[k]) < i + count[k] => asked[k][i + 1] < asked[k][i] + Window[k]

LimiterInv ==
    /\ LimiterTypes
    /\ \A k \in Keys : Past(k) /\ Outlived(k) /\ Forgotten(k)
    /\ \A k \in Keys \ Plain : Chained(k)

USE LimitAssumption, WindowAssumption, PlainAssumption, TimeAssumption

------------------------------------------------------------------------------
(* What Append does, in the form the steps below need it.                  *)
LEMMA Appended ==
    ASSUME NEW s \in Seq(Nat), NEW t \in Nat
    PROVE  /\ Append(s, t) \in Seq(Nat)
           /\ Len(s) \in Nat
           /\ Len(Append(s, t)) = Len(s) + 1
           /\ \A i \in 1..Len(s) : Append(s, t)[i] = s[i] /\ s[i] \in Nat
           /\ Append(s, t)[Len(s) + 1] = t
  OBVIOUS

LEMMA InitInv == LimiterInit => LimiterInv
  <1> SUFFICES ASSUME LimiterInit PROVE LimiterInv
    OBVIOUS
  <1>1. LimiterTypes
    BY DEF LimiterInit, LimiterTypes
  <1>2. \A k \in Keys : Len(admitted[k]) = 0 /\ Len(asked[k]) = 0 /\ count[k] = 0
    BY DEF LimiterInit
  <1>3. ASSUME NEW k \in Keys PROVE Past(k) /\ Outlived(k) /\ Forgotten(k)
    <2>1. 1..Len(admitted[k]) = {}
      BY <1>2
    <2> QED  BY <2>1 DEF Past, Outlived, Forgotten
  <1>4. ASSUME NEW k \in Keys PROVE Chained(k)
    <2>1. 1..(Len(asked[k]) - 1) = {}
      BY <1>2
    <2> QED  BY <1>2, <2>1 DEF Chained
  <1> QED  BY <1>1, <1>3, <1>4 DEF LimiterInv

(* What a counted request knows of its key: an earlier admission that the  *)
(* new counter leaves out is a Window old.                                 *)
LEMMA OldIsOut ==
    ASSUME LimiterInv, NEW k \in Keys, NEW i \in 1..Len(admitted[k]),
           i + Incremented(k) <= Len(admitted[k]) + 1
    PROVE  admitted[k][i] + Window[k] <= now
  <1>1. Len(admitted[k]) \in Nat /\ admitted[k][i] \in Nat /\ count[k] \in Nat /\ until[k] \in Nat
        /\ now \in Nat /\ Window[k] \in Nat /\ Limit[k] \in Nat
    BY DEF LimiterInv, LimiterTypes
  <1>2. CASE Live(k)
    <2>1. i + count[k] <= Len(admitted[k])
      BY <1>1, <1>2 DEF Incremented
    <2> QED  BY <2>1 DEF LimiterInv, Forgotten
  <1>3. CASE ~Live(k)
    <2>1. until[k] <= now
      BY <1>1, <1>3 DEF Live
    <2>2. admitted[k][i] + Window[k] <= until[k]
      BY DEF LimiterInv, Outlived
    <2> QED  BY <1>1, <2>1, <2>2
  <1> QED  BY <1>2, <1>3

LEMMA IncrementedNat ==
    ASSUME LimiterTypes, NEW k \in Keys
    PROVE  /\ Incremented(k) \in Nat
           /\ Incremented(k) > 0
           /\ Incremented(k) <= count[k] + 1
  BY DEF LimiterTypes, Incremented

------------------------------------------------------------------------------
(* Types and the past of every key under each action.                      *)
LEMMA AllowTypes ==
    ASSUME LimiterInv, NEW k \in Keys, Allow(k) \/ AllowFails(k)
    PROVE  LimiterTypes'
  <1>1. now \in Nat /\ Window[k] \in Nat /\ Incremented(k) \in Nat
    BY IncrementedNat DEF LimiterInv, LimiterTypes
  <1>2. Append(asked[k], now) \in Seq(Nat) /\ Append(admitted[k], now) \in Seq(Nat)
    BY <1>1, Appended DEF LimiterInv, LimiterTypes
  <1>3. CASE Allow(k)
    BY <1>1, <1>2, <1>3 DEF LimiterInv, LimiterTypes, Allow, Incr, Expire
  <1>4. CASE AllowFails(k)
    <2>1. now' \in Nat /\ faults' \in Nat /\ admitted' \in [Keys -> Seq(Nat)]
      BY <1>4 DEF LimiterInv, LimiterTypes, AllowFails
    <2>2. count' \in [Keys -> Nat] /\ asked' \in [Keys -> Seq(Nat)]
      BY <1>1, <1>2, <1>4 DEF LimiterInv, LimiterTypes, AllowFails, Incr, IncrAlone
    <2>3. until' \in [Keys -> Nat] /\ kept' \in SUBSET Plain
      <3>1. until \in [Keys -> Nat] /\ kept \in SUBSET Plain
        BY DEF LimiterInv, LimiterTypes
      <3>2. CASE UNCHANGED <<count, until, kept, asked>>
        BY <3>1, <3>2
      <3>3. CASE Incr(k) /\ Expire(k)
        BY <1>1, <3>1, <3>3 DEF Expire
      <3>4. CASE IncrAlone(k)
        BY <3>1, <3>4 DEF IncrAlone
      <3> QED  BY <1>4, <3>2, <3>3, <3>4 DEF AllowFails
    <2> QED  BY <2>1, <2>2, <2>3 DEF LimiterTypes
  <1> QED  BY <1>3, <1>4

(* A counted request that is not admitted: the counter forgets no more     *)
(* than is old, and the end of the key only moves away.                    *)
LEMMA KeepsPast ==
    ASSUME LimiterInv, NEW k \in Keys,
           Incr(k), admitted' = admitted, now' = now,
           Expire(k) \/ until' = until
    PROVE  \A m \in Keys : Past(m)' /\ Outlived(m)' /\ Forgotten(m)'
  <1> SUFFICES ASSUME NEW m \in Keys PROVE Past(m)' /\ Outlived(m)' /\ Forgotten(m)'
    OBVIOUS
  <1>1. /\ Len(admitted[m]) \in Nat /\ now \in Nat /\ until[m] \in Nat /\ count[m] \in Nat
        /\ Window[m] \in Nat /\ Limit[m] \in Nat /\ until \in [Keys -> Nat] /\ count \in [Keys -> Nat]
    BY DEF LimiterInv, LimiterTypes
  <1>2. \A i \in 1..Len(admitted[m]) : admitted[m][i] \in Nat
    BY DEF LimiterInv, LimiterTypes
  <1>3. Outlived(m) /\ Forgotten(m)
    BY DEF LimiterInv
  <1>4. ASSUME NEW i \in 1..Len(admitted[m]) PROVE admitted[m][i] + Window[m] <= until'[m]
    <2>1. CASE m = k /\ Expire(k)
      <3>1. until'[m] = now + Window[m]
        BY <1>1, <2>1 DEF Expire
      <3>2. admitted[m][i] <= now
        BY DEF LimiterInv, Past
      <3> QED  BY <1>1, <1>2, <3>1, <3>2
    <2>2. CASE m # k \/ until' = until
      <3>1. until'[m] = until[m]
        BY <1>1, <2>2 DEF Expire
      <3> QED  BY <1>3, <3>1 DEF Outlived
    <2> QED  BY <2>1, <2>2
  <1>5. Past(m)' /\ Outlived(m)'
    BY <1>4 DEF LimiterInv, Past, Outlived
  <1>6. CASE m = k
    <2>1. count'[m] = Incremented(m)
      BY <1>1, <1>6 DEF Incr
    <2>2. ASSUME NEW i \in 1..Len(admitted[m]),
                 i + Incremented(m) <= Len(admitted[m]) \/ i + Limit[m] <= Len(admitted[m])
          PROVE  admitted[m][i] + Window[m] <= now
      <3>1. Incremented(m) \in Nat
        BY IncrementedNat DEF LimiterInv
      <3> QED  BY <1>1, <1>3, <2>2, <3>1, OldIsOut DEF Forgotten
    <2> QED  BY <1>5, <2>1, <2>2 DEF Forgotten
  <1>7. CASE m # k
    <2>1. count'[m] = count[m]
      BY <1>1, <1>7 DEF Incr
    <2> QED  BY <1>3, <1>5, <2>1 DEF Forgotten
  <1> QED  BY <1>6, <1>7

(* An admission: it is the counter's newest, and what the counter leaves   *)
(* out is what it left out before, or old.                                 *)
LEMMA AdmissionKeepsPast ==
    ASSUME LimiterInv, NEW k \in Keys, Allow(k), Admits(k)
    PROVE  \A m \in Keys : Past(m)' /\ Outlived(m)' /\ Forgotten(m)'
  <1> SUFFICES ASSUME NEW m \in Keys PROVE Past(m)' /\ Outlived(m)' /\ Forgotten(m)'
    OBVIOUS
  <1>1. /\ Len(admitted[m]) \in Nat /\ now \in Nat /\ until[m] \in Nat /\ count[m] \in Nat
        /\ Window[m] \in Nat /\ Limit[m] \in Nat /\ admitted[m] \in Seq(Nat)
        /\ until \in [Keys -> Nat] /\ count \in [Keys -> Nat] /\ admitted \in [Keys -> Seq(Nat)]
    BY DEF LimiterInv, LimiterTypes
  <1>2. Past(m) /\ Outlived(m) /\ Forgotten(m)
    BY DEF LimiterInv
  <1>3. now' = now
    BY DEF Allow
  <1>4. CASE m # k
    <2>1. count'[m] = count[m] /\ until'[m] = until[m] /\ admitted'[m] = admitted[m]
      BY <1>1, <1>4 DEF Allow, Incr, Expire
    <2> QED  BY <1>2, <1>3, <2>1 DEF Past, Outlived, Forgotten
  <1>5. CASE m = k
    <2> DEFINE n == Len(admitted[m])
    <2>1. count'[m] = Incremented(m) /\ until'[m] = now + Window[m] /\ admitted'[m] = Append(admitted[m], now)
      BY <1>1, <1>5 DEF Allow, Incr, Expire
    <2>2. /\ n \in Nat /\ Len(admitted'[m]) = n + 1 /\ admitted'[m][n + 1] = now
          /\ \A i \in 1..n : admitted'[m][i] = admitted[m][i] /\ admitted[m][i] \in Nat
      BY <1>1, <2>1, Appended
    <2>3. Incremented(m) \in Nat /\ Incremented(m) > 0 /\ Incremented(m) <= Limit[m]
      BY <1>5, IncrementedNat DEF LimiterInv, Admits
    <2> HIDE DEF n
    <2>4. ASSUME NEW i \in 1..(n + 1) PROVE admitted'[m][i] <= now
      <3>1. \A j \in 1..n : admitted[m][j] <= now
        BY <1>2 DEF Past, n
      <3>2. i \in 1..n \/ i = n + 1
        BY <2>2
      <3>3. CASE i \in 1..n
        BY <2>2, <3>1, <3>3
      <3>4. CASE i = n + 1
        BY <1>1, <2>2, <3>4
      <3> QED  BY <3>2, <3>3, <3>4
    <2>5. ASSUME NEW i \in 1..(n + 1) PROVE admitted'[m][i] + Window[m] <= until'[m]
      <3>1. admitted'[m][i] \in Nat
        <4>1. i \in 1..n \/ i = n + 1
          BY <2>2
        <4>2. CASE i \in 1..n
          BY <2>2, <4>2
        <4>3. CASE i = n + 1
          BY <1>1, <2>2, <4>3
        <4> QED  BY <4>1, <4>2, <4>3
      <3>2. admitted'[m][i] <= now
        BY <2>4
      <3>3. until'[m] = now + Window[m] /\ now \in Nat /\ Window[m] \in Nat
        BY <1>1, <2>1
      <3> QED  BY <3>1, <3>2, <3>3
    <2>6. ASSUME NEW i \in 1..(n + 1), i + Incremented(m) <= n + 1 \/ i + Limit[m] <= n + 1
          PROVE  admitted'[m][i] + Window[m] <= now
      <3>1. i + Incremented(m) <= n + 1
        BY <1>1, <2>2, <2>3, <2>6
      <3>2. i \in 1..n
        BY <2>2, <2>3, <3>1
      <3>3. admitted[m][i] + Window[m] <= now
        BY <1>5, <3>1, <3>2, OldIsOut DEF n
      <3> QED  BY <2>2, <3>2, <3>3
    <2> QED  BY <1>3, <2>1, <2>2, <2>4, <2>5, <2>6 DEF Past, Outlived, Forgotten
  <1> QED  BY <1>4, <1>5

(* The chain of a key that is not plain grows by the request, or starts    *)
(* anew with it.                                                           *)
LEMMA CountedIsChained ==
    ASSUME LimiterInv, NEW k \in Keys, Incr(k), Expire(k), now' = now,
           NEW m \in Keys \ Plain
    PROVE  Chained(m)'
  <1>1. /\ Len(asked[m]) \in Nat /\ now \in Nat /\ until[m] \in Nat /\ count[m] \in Nat
        /\ Window[m] \in Nat /\ asked[m] \in Seq(Nat) /\ m \notin kept
        /\ until \in [Keys -> Nat] /\ count \in [Keys -> Nat] /\ asked \in [Keys -> Seq(Nat)]
    BY DEF LimiterInv, LimiterTypes
  <1>2. Chained(m)
    BY DEF LimiterInv
  <1>3. CASE m # k
    <2>1. count'[m] = count[m] /\ until'[m] = until[m] /\ asked'[m] = asked[m]
      BY <1>1, <1>3 DEF Incr, Expire
    <2> QED  BY <1>2, <2>1 DEF Chained
  <1>4. CASE m = k
    <2> DEFINE n == Len(asked[m])
    <2>1. count'[m] = Incremented(m) /\ until'[m] = now + Window[m] /\ asked'[m] = Append(asked[m], now)
      BY <1>1, <1>4 DEF Incr, Expire
    <2>2. /\ n \in Nat /\ Len(asked'[m]) = n + 1 /\ asked'[m][n + 1] = now
          /\ \A i \in 1..n : asked'[m][i] = asked[m][i] /\ asked[m][i] \in Nat
      BY <1>1, <2>1, Appended
    <2>3. /\ Incremented(m) \in Nat /\ Incremented(m) > 0
          /\ Incremented(m) <= count[m] + 1
          /\ ~Live(m) => Incremented(m) = 1
          /\ Live(m) => Incremented(m) = count[m] + 1
      BY <1>1 DEF Incremented
    <2>4. count[m] <= n /\ (n > 0 => until[m] = asked[m][n] + Window[m])
      BY <1>2 DEF Chained
    <2>5. ASSUME NEW i \in 1..(n - 1), n < i + count[m]
          PROVE  asked[m][i + 1] < asked[m][i] + Window[m]
      BY <1>2, <2>5 DEF Chained
    <2> HIDE DEF n
    <2>6. ASSUME NEW i \in 1..(n + 1 - 1), n + 1 < i + Incremented(m)
          PROVE  asked'[m][i + 1] < asked'[m][i] + Window[m]
      <3>1. Live(m) /\ Incremented(m) = count[m] + 1
        BY <2>2, <2>3, <2>6
      <3>2. CASE i = n
        <4>1. asked'[m][i] = asked[m][n] /\ asked'[m][i + 1] = now /\ n > 0
          BY <2>2, <3>2
        <4>2. now < until[m]
          BY <1>1, <3>1 DEF Live
        <4> QED  BY <2>4, <4>1, <4>2
      <3>3. CASE i # n
        <4>1. i \in 1..(n - 1) /\ i + 1 \in 1..n /\ i \in 1..n
          BY <2>2, <3>3
        <4>2. asked[m][i + 1] < asked[m][i] + Window[m]
          BY <1>1, <2>2, <2>5, <2>6, <3>1, <4>1
        <4> QED  BY <2>2, <4>1, <4>2
      <3> QED  BY <3>2, <3>3
    <2>7. Incremented(m) <= n + 1
      BY <1>1, <2>2, <2>3, <2>4
    <2> QED  BY <2>1, <2>2, <2>6, <2>7 DEF Chained
  <1> QED  BY <1>3, <1>4

------------------------------------------------------------------------------
LEMMA TickInv == LimiterInv /\ Tick => LimiterInv'
  <1> SUFFICES ASSUME LimiterInv, Tick PROVE LimiterInv'
    OBVIOUS
  <1>1. LimiterTypes'
    BY DEF LimiterInv, LimiterTypes, Tick
  <1>2. ASSUME NEW k \in Keys PROVE Past(k)' /\ Outlived(k)' /\ Forgotten(k)'
    <2>1. /\ now \in Nat /\ now' = now + 1 /\ admitted' = admitted /\ until' = until /\ count' = count
          /\ \A i \in 1..Len(admitted[k]) : admitted[k][i] \in Nat
          /\ Window[k] \in Nat
      BY DEF LimiterInv, LimiterTypes, Tick
    <2>2. Past(k) /\ Outlived(k) /\ Forgotten(k)
      BY DEF LimiterInv
    <2>3. Past(k)' /\ Outlived(k)'
      BY <2>1, <2>2 DEF Past, Outlived
    <2>4. Forgotten(k)'
      BY <2>1, <2>2 DEF Forgotten
    <2> QED  BY <2>3, <2>4
  <1>3. ASSUME NEW k \in Keys \ Plain PROVE Chained(k)'
    BY DEF LimiterInv, Chained, Tick
  <1> QED  BY <1>1, <1>2, <1>3 DEF LimiterInv

LEMMA AllowInv == \A k \in Keys : LimiterInv /\ Allow(k) => LimiterInv'
  <1> SUFFICES ASSUME NEW k \in Keys, LimiterInv, Allow(k) PROVE LimiterInv'
    OBVIOUS
  <1>1. LimiterTypes'
    BY AllowTypes
  <1>2. \A m \in Keys : Past(m)' /\ Outlived(m)' /\ Forgotten(m)'
    <2>1. CASE Admits(k)
      BY <2>1, AdmissionKeepsPast
    <2>2. CASE ~Admits(k)
      BY <2>2, KeepsPast DEF Allow
    <2> QED  BY <2>1, <2>2
  <1>3. \A m \in Keys \ Plain : Chained(m)'
    BY CountedIsChained DEF Allow
  <1> QED  BY <1>1, <1>2, <1>3 DEF LimiterInv

LEMMA AllowFailsInv == \A k \in Keys : LimiterInv /\ AllowFails(k) => LimiterInv'
  <1> SUFFICES ASSUME NEW k \in Keys, LimiterInv, AllowFails(k) PROVE LimiterInv'
    OBVIOUS
  <1>1. LimiterTypes'
    BY AllowTypes
  <1>2. now' = now /\ admitted' = admitted
    BY DEF AllowFails
  <1>3. CASE UNCHANGED <<count, until, kept, asked>>
    BY <1>1, <1>2, <1>3 DEF LimiterInv, Past, Outlived, Forgotten, Chained
  <1>4. CASE Incr(k) /\ Expire(k)
    BY <1>1, <1>2, <1>4, KeepsPast, CountedIsChained DEF LimiterInv
  <1>5. CASE IncrAlone(k)
    <2>1. \A m \in Keys : Past(m)' /\ Outlived(m)' /\ Forgotten(m)'
      BY <1>2, <1>5, KeepsPast DEF IncrAlone
    <2>2. ASSUME NEW m \in Keys \ Plain PROVE Chained(m)'
      <3>1. m # k /\ count \in [Keys -> Nat] /\ asked \in [Keys -> Seq(Nat)]
        BY <1>5 DEF IncrAlone, LimiterInv, LimiterTypes
      <3>2. count'[m] = count[m] /\ asked'[m] = asked[m] /\ until' = until
        BY <1>5, <3>1 DEF IncrAlone, Incr
      <3> QED  BY <3>2 DEF LimiterInv, Chained
    <2> QED  BY <1>1, <2>1, <2>2 DEF LimiterInv
  <1> QED  BY <1>3, <1>4, <1>5 DEF AllowFails

LEMMA LimiterStep == LimiterInv /\ [LimiterNext]_limiter => LimiterInv'
  <1> SUFFICES ASSUME LimiterInv, [LimiterNext]_limiter PROVE LimiterInv'
    OBVIOUS
  <1>1. CASE UNCHANGED limiter
    BY <1>1 DEF limiter, LimiterInv, LimiterTypes, Past, Outlived, Forgotten, Chained
  <1>2. CASE LimiterNext
    BY <1>2, TickInv, AllowInv, AllowFailsInv DEF LimiterNext
  <1> QED  BY <1>1, <1>2

(* The invariant holds in every reachable state.                           *)
THEOREM LimiterInvariant == LimiterSpec => []LimiterInv
  <1> QED  BY InitInv, LimiterStep, PTL DEF LimiterSpec

------------------------------------------------------------------------------
(* A request is admitted only when the window has room.                    *)
LEMMA AdmittedHasRoom ==
    ASSUME LimiterInv, NEW k \in Keys, Admits(k)
    PROVE  Sliding!Room(k)
  <1> DEFINE j == Len(admitted[k]) + 1 - Limit[k]
  <1>1. Len(admitted[k]) \in Nat /\ Limit[k] \in Nat /\ Limit[k] > 0
    BY DEF LimiterInv, LimiterTypes
  <1>2. CASE Len(admitted[k]) < Limit[k]
    BY <1>2 DEF Sliding!Room
  <1>3. CASE ~(Len(admitted[k]) < Limit[k])
    <2>1. j \in 1..Len(admitted[k])
      BY <1>1, <1>3
    <2>2. Incremented(k) \in Nat /\ Incremented(k) <= Limit[k]
      BY IncrementedNat DEF LimiterInv, Admits
    <2>3. j + Incremented(k) <= Len(admitted[k]) + 1
      BY <1>1, <2>2
    <2>4. admitted[k][j] + Window[k] <= now
      BY <2>1, <2>3, OldIsOut
    <2> QED  BY <2>4 DEF Sliding!Room
  <1> QED  BY <1>2, <1>3

(* Every step of the limiter is a step of the sliding window or leaves it  *)
(* as it is.                                                               *)
LEMMA LimiterSlides ==
    LimiterInv /\ [LimiterNext]_limiter => [Sliding!Next]_(Sliding!vars)
  <1> SUFFICES ASSUME LimiterInv, [LimiterNext]_limiter PROVE [Sliding!Next]_(Sliding!vars)
    OBVIOUS
  <1>1. CASE UNCHANGED limiter
    BY <1>1 DEF limiter, Sliding!vars
  <1>2. CASE Tick
    BY <1>2 DEF Tick, Sliding!Next, Sliding!Tick
  <1>3. ASSUME NEW k \in Keys, Allow(k) PROVE [Sliding!Next]_(Sliding!vars)
    <2>1. CASE Admits(k)
      <3>1. Sliding!Admit(k)
        BY <1>3, <2>1, AdmittedHasRoom DEF Allow, Sliding!Admit
      <3> QED  BY <3>1 DEF Sliding!Next
    <2>2. CASE ~Admits(k)
      BY <1>3, <2>2 DEF Allow, Sliding!vars
    <2> QED  BY <2>1, <2>2
  <1>4. ASSUME NEW k \in Keys, AllowFails(k) PROVE [Sliding!Next]_(Sliding!vars)
    BY <1>4 DEF AllowFails, Sliding!vars
  <1> QED  BY <1>1, <1>2, <1>3, <1>4 DEF LimiterNext

(* In no Window of time are more than Limit requests of a key admitted:    *)
(* the counters of redis_limiter.go, shared by all gateways, implement the *)
(* sliding window whatever fails in between.                               *)
THEOREM LimiterImplementsWindow == LimiterSpec => WindowHolds
  <1>1. LimiterInit => Sliding!Init
    BY DEF LimiterInit, Sliding!Init
  <1> QED  BY <1>1, LimiterInvariant, LimiterSlides, PTL DEF LimiterSpec, WindowHolds, Sliding!Spec

(* An admission Limit after another one is a Window later.                 *)
LEMMA SpacedStep ==
    LimiterInv /\ Sliding!Spaced /\ [LimiterNext]_limiter => Sliding!Spaced'
  <1> SUFFICES ASSUME LimiterInv, Sliding!Spaced, [LimiterNext]_limiter,
                      NEW k \in Keys, NEW i \in 1..Len(admitted'[k]), NEW j \in 1..Len(admitted'[k]),
                      i + Limit[k] <= j
               PROVE  admitted'[k][i] + Window[k] <= admitted'[k][j]
    BY DEF Sliding!Spaced
  <1>1. CASE admitted'[k] = admitted[k]
    BY <1>1 DEF Sliding!Spaced
  <1>2. CASE admitted'[k] # admitted[k]
    <2>1. Allow(k) /\ Admits(k) /\ admitted'[k] = Append(admitted[k], now)
      BY <1>2 DEF LimiterNext, limiter, Tick, AllowFails, Allow, LimiterInv, LimiterTypes
    <2>2. now \in Nat /\ admitted[k] \in Seq(Nat) /\ Limit[k] \in Nat \ {0}
      BY DEF LimiterInv, LimiterTypes
    <2>3. /\ Len(admitted[k]) \in Nat /\ Len(admitted'[k]) = Len(admitted[k]) + 1
          /\ \A n \in 1..Len(admitted[k]) : admitted'[k][n] = admitted[k][n]
          /\ admitted'[k][Len(admitted[k]) + 1] = now
      BY <2>1, <2>2, Appended
    <2>4. i \in 1..Len(admitted[k])
      BY <2>2, <2>3
    <2>5. CASE j \in 1..Len(admitted[k])
      BY <2>3, <2>4, <2>5 DEF Sliding!Spaced
    <2>6. CASE j = Len(admitted[k]) + 1
      <3>1. Incremented(k) \in Nat /\ Incremented(k) <= Limit[k]
        BY <2>1, IncrementedNat DEF LimiterInv, Admits
      <3>2. i + Incremented(k) <= Len(admitted[k]) + 1
        BY <2>2, <2>3, <2>4, <2>6, <3>1
      <3> QED  BY <2>3, <2>4, <2>6, <3>2, OldIsOut
    <2> QED  BY <2>3, <2>5, <2>6
  <1> QED  BY <1>1, <1>2

(* Every span of time shorter than a Window holds at most Limit admissions *)
(* of a key.                                                               *)
THEOREM LimiterSpaced == LimiterSpec => []Sliding!Spaced
  <1>1. LimiterInit => Sliding!Spaced
    BY DEF LimiterInit, Sliding!Spaced
  <1> QED  BY <1>1, LimiterInvariant, SpacedStep, PTL DEF LimiterSpec

(* Whoever is refused has kept the key busy: the counter of a key that was *)
(* left alone for a Window starts again at one.                            *)
LEMMA RefusedIsBusy ==
    ASSUME LimiterInv, [LimiterNext]_limiter, NEW m \in Keys \ Plain, Refuses(m)
    PROVE  Busy(m)'
  <1>1. PICK k \in Keys : Allow(k)
    <2>1. ~UNCHANGED limiter /\ ~Tick
      BY DEF Refuses, limiter, Tick
    <2>2. ASSUME NEW k \in Keys PROVE ~AllowFails(k)
      BY DEF Refuses, AllowFails, LimiterInv, LimiterTypes
    <2> QED  BY <2>1, <2>2 DEF LimiterNext
  <1>2. m = k
    BY <1>1 DEF Refuses, Allow, Incr, LimiterInv, LimiterTypes
  <1>3. LimiterInv'
    BY <1>1, AllowInv
  <1>4. Chained(m)' /\ count'[m] \in Nat /\ Len(asked'[m]) \in Nat /\ Limit[m] \in Nat
    BY <1>3 DEF LimiterInv, LimiterTypes
  <1>5. count'[m] > Limit[m]
    <2>1. ~Admits(m)
      <3>1. CASE Admits(m)
        <4>1. admitted'[m] = Append(admitted[m], now)
          BY <1>1, <1>2, <3>1 DEF Allow, LimiterInv, LimiterTypes
        <4>2. Len(admitted'[m]) = Len(admitted[m]) + 1 /\ Len(admitted[m]) \in Nat
          BY <4>1, Appended DEF LimiterInv, LimiterTypes
        <4> QED  BY <4>2 DEF Refuses
      <3> QED  BY <3>1
    <2>2. count'[m] = Incremented(m)
      BY <1>1, <1>2 DEF Allow, Incr, LimiterInv, LimiterTypes
    <2> QED  BY <1>4, <2>1, <2>2 DEF Admits
  <1> DEFINE n == Len(asked'[m])
  <1>6. count'[m] <= n
    BY <1>4 DEF Chained
  <1>7. ASSUME NEW i \in (n - Limit[m])..(n - 1) PROVE asked'[m][i + 1] < asked'[m][i] + Window[m]
    <2>1. i \in 1..(n - 1) /\ n < i + count'[m]
      BY <1>4, <1>5, <1>6
    <2> QED  BY <1>4, <2>1 DEF Chained
  <1>8. Limit[m] < n
    BY <1>4, <1>5, <1>6
  <1> QED  BY <1>7, <1>8 DEF Busy

(* A client of the gateway that pauses for a Window is admitted again.     *)
THEOREM LimiterRejectsOnlyBusy == LimiterSpec => RejectsOnlyBusy
  <1>1. LimiterInv /\ [LimiterNext]_limiter
            => [\A k \in Keys \ Plain : Refuses(k) => Busy(k)']_limiter
    BY RefusedIsBusy
  <1> QED  BY <1>1, LimiterInvariant, PTL DEF LimiterSpec, RejectsOnlyBusy

(* ------------------------------ the gateway ---------------------------- *)

Stages == {"new", "authorize", "limit", "check", "send", "wait", "done"}

(* Only requests that are made are counted, under keys that are theirs.    *)
Counted ==
    /\ req \in Mixes
    /\ stage \in [Requests -> Stages]
    /\ \A h \in Requests : stage[h] # "done" => req[h] # Absent
    /\ \A h \in Requests : stage[h] = "limit" => Route(h).limit # "none"
    /\ \A c \in calls : 
           /\ "request" \in DOMAIN c
           /\ c.request \in Requests
           /\ req[c.request] # Absent

LEMMA OwnKeys ==
    ASSUME Counted, NEW h \in Requests, req[h] # Absent
    PROVE  /\ <<"rl", req[h].caller>> \in Keys
           /\ Route(h).limit # "none" => <<Route(h).limit, req[h].caller>> \in Keys
           /\ Limited(h) => UserKey(h) \in Keys
<1>1. KeysOf(req[h]) \subseteq Keys
  BY KeysAssumption DEF Counted
<1> QED
  BY <1>1 DEF KeysOf, Route, Limited, UserKey

LEMMA CountedInit == Init => Counted
<1> SUFFICES ASSUME Init PROVE Counted
  OBVIOUS
<1>1. stage \in [Requests -> Stages]
  BY DEF Init, Stages
<1>2. \A h \in Requests : (stage[h] # "done" => req[h] # Absent) /\ stage[h] # "limit"
  BY DEF Init
<1> QED
  BY <1>1, <1>2 DEF Init, Counted

(* A step of a request's goroutine: it moves its own stage only.           *)
LEMMA MovesOn ==
    ASSUME Counted, UNCHANGED req, NEW h \in Requests, stage[h] # "done",
           NEW next \in Stages, stage' = [stage EXCEPT ![h] = next],
           next = "limit" => Route(h).limit # "none",
           \A c \in calls' : c \in calls \/ ("request" \in DOMAIN c /\ c.request = h)
    PROVE  Counted'
  BY DEF Counted, Route

LEMMA FrontStep ==
    ASSUME Counted, NEW h \in Requests, Front(h)
    PROVE  Counted' /\ [LimiterNext]_limiter
<1>1. CASE GlobalLimit(h)
  <2>1. stage[h] = "new" /\ <<"rl", req[h].caller>> \in Keys
    BY <1>1, OwnKeys DEF GlobalLimit, Counted
  <2>2. LimiterNext
    BY <1>1, <2>1 DEF GlobalLimit, RateLimit, LimiterNext
  <2>3. PICK next \in {"authorize", "done"} : stage' = [stage EXCEPT ![h] = next]
    BY <1>1 DEF GlobalLimit, RateLimit, Goto, Answer
  <2>4. UNCHANGED <<req, calls>>
    BY <1>1 DEF GlobalLimit, RateLimit, backend
  <2> QED
    BY <2>1, <2>2, <2>3, <2>4, MovesOn DEF Stages
<1>2. CASE Authorize(h)
  <2>1. stage[h] = "authorize" /\ UNCHANGED <<limiter, req, calls>>
    BY <1>2 DEF Authorize, backend
  <2>2. PICK next \in {"limit", "check", "done"} :
            /\ stage' = [stage EXCEPT ![h] = next]
            /\ next = "limit" => Route(h).limit # "none"
    BY <1>2 DEF Authorize, Goto, Answer
  <2> QED
    BY <2>1, <2>2, MovesOn DEF Stages
<1>3. CASE RouteLimit(h)
  <2>1. stage[h] = "limit" /\ <<Route(h).limit, req[h].caller>> \in Keys
    BY <1>3, OwnKeys DEF RouteLimit, Counted
  <2>2. LimiterNext
    BY <1>3, <2>1 DEF RouteLimit, RateLimit, LimiterNext
  <2>3. PICK next \in {"check", "done"} : stage' = [stage EXCEPT ![h] = next]
    BY <1>3 DEF RouteLimit, RateLimit, Goto, Answer
  <2>4. UNCHANGED <<req, calls>>
    BY <1>3 DEF RouteLimit, RateLimit, backend
  <2> QED
    BY <2>1, <2>2, <2>3, <2>4, MovesOn DEF Stages
<1>4. CASE BindAndValidate(h)
  <2>1. stage[h] = "check" /\ UNCHANGED <<limiter, req, calls>>
    BY <1>4 DEF BindAndValidate, backend
  <2>2. PICK next \in {"send", "done"} : stage' = [stage EXCEPT ![h] = next]
    BY <1>4 DEF BindAndValidate, Goto, Answer
  <2> QED
    BY <2>1, <2>2, MovesOn DEF Stages
<1> QED
  BY <1>1, <1>2, <1>3, <1>4 DEF Front

LEMMA CallStep ==
    ASSUME Counted, NEW h \in Requests, Call(h)
    PROVE  Counted' /\ UNCHANGED limiter
<1>1. UNCHANGED <<limiter, req>>
  BY DEF Call, Send, Refused, Receive, Disconnect, Deadline, backend
<1>2. stage[h] # "done"
  BY DEF Call, Send, Refused, Receive, Disconnect, Deadline, Waits
<1>3. PICK next \in {"send", "wait", "done"} : stage' = [stage EXCEPT ![h] = next]
  BY DEF Call, Send, Refused, Receive, Disconnect, Deadline, Ends, Goto, Answer
<1>4. \A c \in calls' : c \in calls \/ ("request" \in DOMAIN c /\ c.request = h)
  BY DEF Call, Send, Refused, Receive, Disconnect, Deadline, backend
<1> QED
  BY <1>1, <1>2, <1>3, <1>4, MovesOn DEF Stages

LEMMA ServeStep ==
    ASSUME Counted, NEW c \in calls, Serve(c)
    PROVE  Counted' /\ [LimiterNext]_limiter
<1>1. UNCHANGED <<req, stage>>
  BY DEF Serve, authInterceptor, Replay, Repeat, Handle, HandleFails, gateway
<1>2. \A d \in calls' : d \in calls \/ ("request" \in DOMAIN d /\ d.request = c.request)
  <2>0. "request" \in DOMAIN c
    BY DEF Counted
  <2>1. \A code : Reply(c, code) => \A d \in calls' : d \in calls \/ ("request" \in DOMAIN d /\ d.request = c.request)
    BY <2>0 DEF Reply
  <2>2. CASE authInterceptor(c)
    BY <2>0, <2>1, <2>2 DEF authInterceptor
  <2>3. CASE Replay(c) \/ Repeat(c) \/ Handle(c) \/ HandleFails(c)
    BY <2>1, <2>3 DEF Replay, Repeat, Handle, HandleFails
  <2> QED
    BY <2>2, <2>3 DEF Serve
<1>3. Counted'
  BY <1>1, <1>2 DEF Counted, Route
<1>4. CASE authInterceptor(c)
  <2>1. Limited(c.request) => UserKey(c.request) \in Keys
    BY OwnKeys DEF Counted
  <2> QED
    BY <1>3, <1>4, <2>1 DEF authInterceptor, LimiterNext
<1>5. CASE Replay(c) \/ Repeat(c) \/ Handle(c) \/ HandleFails(c)
  BY <1>3, <1>5 DEF Replay, Repeat, Handle, HandleFails
<1> QED
  BY <1>4, <1>5 DEF Serve

LEMMA GatewayStep == Counted /\ [Next]_vars => Counted' /\ [LimiterNext]_limiter
<1> SUFFICES ASSUME Counted, [Next]_vars PROVE Counted' /\ [LimiterNext]_limiter
  OBVIOUS
<1>1. CASE Time
  BY <1>1 DEF Time, LimiterNext, Counted, Route, gateway, backend
<1>2. ASSUME NEW h \in Requests, Front(h) \/ Call(h) PROVE Counted' /\ [LimiterNext]_limiter
  BY <1>2, FrontStep, CallStep
<1>3. ASSUME NEW c \in calls, Serve(c) PROVE Counted' /\ [LimiterNext]_limiter
  BY <1>3, ServeStep
<1>4. ASSUME NEW s \in Servers, Replica(s) PROVE Counted' /\ [LimiterNext]_limiter
  <2>1. UNCHANGED <<limiter, req, stage>> /\ calls' \subseteq calls
    BY <1>4 DEF Replica, waitForShutdown, Crash, Restart, CallsAt, gateway
  <2> QED
    BY <2>1 DEF Counted, Route
<1>5. CASE UNCHANGED vars
  BY <1>5 DEF vars, Counted, Route, gateway, backend
<1> QED
  BY <1>1, <1>2, <1>3, <1>4, <1>5 DEF Next

(* Every behaviour of the gateway is one of the limiter.                   *)
THEOREM GatewayLimits == Spec => LimiterSpec
<1>1. Init => Counted
  BY CountedInit
<1>2. Counted /\ [Next]_vars => Counted' /\ [LimiterNext]_limiter
  BY GatewayStep
<1>3. Init => LimiterInit
  BY DEF Init
<1> QED
  BY <1>1, <1>2, <1>3, PTL DEF Spec, LimiterSpec

(* However requests, retries, crashes and failures of Redis interleave, no *)
(* more than Limit requests of a key pass its limiter in any Window.       *)
THEOREM GatewayWindow == Spec => WindowHolds
  BY GatewayLimits, LimiterImplementsWindow, PTL

(* A client is refused at the gateway only if it has kept its key busy.    *)
THEOREM GatewayRejectsOnlyBusy == Spec => RejectsOnlyBusy
  BY GatewayLimits, LimiterRejectsOnlyBusy, PTL

------------------------------------------------------------------------------
(* The attempts of a request: its tries are numbered, the outcome of all   *)
(* but the one under way is known or counted as lost, and a reply that     *)
(* came through is never a reason to try again.                            *)

Attempts ==
    /\ IsFiniteSet(calls)
    /\ \A h \in Requests :
        /\ stage[h] \in {"new", "authorize", "limit", "check"} => tries[h] = 0
        /\ stage[h] = "send" => tries[h] <= RetryMax
        /\ stage[h] = "wait" => lost[h] < tries[h]
        /\ lost[h] <= tries[h]
    /\ \A c, d \in calls : c.request = d.request /\ c.try = d.try => c = d
    /\ \A c \in calls : c.at = "replied" => c.code \notin Retryable

(* Calls that may still take effect.                                       *)
Pending(h) == {c \in calls : c.request = h /\ c.at # "replied"}

Spent(h) == IF stage[h] \in {"wait", "done"} THEN 1 ELSE 0

OnePerTry == \A h \in Requests : took[h] + Cardinality(Pending(h)) <= lost[h] + Spent(h)

(* Those of them that nobody waits for: each is one that was lost.         *)
Adrift(h) == {c \in Pending(h) : Orphan(c)}

(* As long as its key is not used, all that a request did it did in calls  *)
(* that were lost.                                                         *)
Bare(h) == took[h] + Cardinality(Adrift(h)) <= lost[h]

UnusedIsBare == \A h \in Made : Key(h) # NoKey /\ Key(h) \notin used => Bare(h)

OnePerKey ==
    \A g, h \in Made :
        g # h /\ Key(g) = Key(h) /\ Key(h) # NoKey => took[g] <= lost[g] \/ took[h] <= lost[h]

GatewayInv == Counted /\ TypeOK /\ Attempts /\ OnePerTry /\ UnusedIsBare /\ OnePerKey

LEMMA GatewayInvInit == Init => GatewayInv
<1> SUFFICES ASSUME Init PROVE GatewayInv
  OBVIOUS
<1>1. Counted
  BY CountedInit
<1>2. TypeOK
  BY RetryAssumption DEF Init, TypeOK
<1>3. Attempts
  BY FS_EmptySet, RetryAssumption DEF Init, Attempts
<1>4. OnePerTry
  <2>1. \A h \in Requests : Pending(h) = {}
    BY DEF Init, Pending
  <2>2. \A h \in Requests : Cardinality(Pending(h)) = 0
    BY <2>1, FS_EmptySet
  <2>3. \A h \in Requests : took[h] = 0 /\ lost[h] = 0 /\ Spent(h) \in {0, 1}
    BY DEF Init, Spent
  <2> QED
    BY <2>2, <2>3 DEF OnePerTry
<1>5. UnusedIsBare
  <2>1. \A h : Adrift(h) = {}
    BY DEF Init, Adrift, Pending
  <2>2. \A h : Cardinality(Adrift(h)) = 0
    BY <2>1, FS_EmptySet
  <2>3. \A h \in Made : took[h] = 0 /\ lost[h] = 0
    BY DEF Init, Made
  <2> QED
    BY <2>2, <2>3 DEF UnusedIsBare, Bare
<1>6. OnePerKey
  BY DEF Init, OnePerKey, Made
<1> QED
  BY <1>1, <1>2, <1>3, <1>4, <1>5, <1>6 DEF GatewayInv

LEMMA StatusType ==
    ASSUME NEW h \in Requests, NEW code
    PROVE  Status(h, code) \in {200, 400, 401, 403, 404, 409, 429, 500, 503}
  BY DEF Status, MapGRPCError, respondAuthError

LEMMA PendingFinite ==
    ASSUME Attempts, NEW h \in Requests
    PROVE  IsFiniteSet(Pending(h)) /\ Cardinality(Pending(h)) \in Nat
<1>1. Pending(h) \subseteq calls /\ IsFiniteSet(calls)
  BY DEF Pending, Attempts
<1> QED
  BY <1>1, FS_Subset, FS_CardinalityType

LEMMA OneMore ==
    ASSUME NEW S, IsFiniteSet(S), NEW x
    PROVE  /\ IsFiniteSet(S \cup {x})
           /\ Cardinality(S \cup {x}) \in Nat
           /\ Cardinality(S \cup {x}) <= Cardinality(S) + 1
<1>1. IsFiniteSet(S \cup {x}) /\ Cardinality(S) \in Nat
  BY FS_AddElement, FS_CardinalityType
<1>2. Cardinality(S \cup {x}) = IF x \in S THEN Cardinality(S) ELSE Cardinality(S) + 1
  BY FS_AddElement
<1> QED
  BY <1>1, <1>2, FS_CardinalityType

(* A step that touches no call that is pending.                            *)
LEMMA FewerPending ==
    ASSUME Attempts, NEW h \in Requests, Pending(h)' \subseteq Pending(h)
    PROVE  /\ IsFiniteSet(Pending(h)')
           /\ Cardinality(Pending(h)') \in Nat
           /\ Cardinality(Pending(h)') <= Cardinality(Pending(h))
  BY PendingFinite, FS_Subset, FS_CardinalityType

(* A step that keeps all ghosts and adds no pending call.                  *)
LEMMA QuietEffects ==
    ASSUME TypeOK, Attempts, OnePerTry, UNCHANGED <<req, took>>,
           \A h \in Requests : /\ Pending(h)' \subseteq Pending(h)
                               /\ lost'[h] \in Nat
                               /\ lost[h] + Spent(h) <= lost'[h] + Spent(h)'
    PROVE  OnePerTry'
<1> SUFFICES ASSUME NEW h \in Requests
             PROVE  (took[h] + Cardinality(Pending(h)) <= lost[h] + Spent(h))'
  BY DEF OnePerTry
<1>1. Cardinality(Pending(h)') \in Nat /\ Cardinality(Pending(h)') <= Cardinality(Pending(h))
  BY FewerPending
<1>2. took[h] \in Nat /\ lost[h] \in Nat /\ Spent(h) \in Nat /\ Spent(h)' \in Nat /\ Cardinality(Pending(h)) \in Nat
  BY PendingFinite, RetryAssumption DEF TypeOK, Spent
<1> QED
  BY <1>1, <1>2 DEF OnePerTry

(* The gateway waits for one call of a request at a time.                  *)
LEMMA OneWaits ==
    ASSUME Attempts, NEW h \in Requests
    PROVE  /\ IsFiniteSet(Adrift(h)) /\ Cardinality(Adrift(h)) \in Nat
           /\ Cardinality(Pending(h)) <= Cardinality(Adrift(h)) + 1
<1>1. IsFiniteSet(Pending(h)) /\ Cardinality(Pending(h)) \in Nat
  BY PendingFinite
<1>2. Adrift(h) \subseteq Pending(h)
  BY DEF Adrift
<1>3. IsFiniteSet(Adrift(h)) /\ Cardinality(Adrift(h)) \in Nat
  BY <1>1, <1>2, FS_Subset, FS_CardinalityType
<1>4. CASE \A c \in Pending(h) : Orphan(c)
  <2>1. Pending(h) = Adrift(h)
    BY <1>4 DEF Adrift
  <2> QED
    BY <1>3, <2>1
<1>5. ASSUME NEW c \in Pending(h), ~Orphan(c)
      PROVE  Cardinality(Pending(h)) <= Cardinality(Adrift(h)) + 1
  <2>1. \A e \in Pending(h) : ~Orphan(e) => e = c
    BY <1>5 DEF Orphan, Waits, Pending, Attempts
  <2>2. Pending(h) \subseteq Adrift(h) \cup {c}
    BY <2>1 DEF Adrift
  <2>3. /\ IsFiniteSet(Adrift(h) \cup {c}) /\ Cardinality(Adrift(h) \cup {c}) \in Nat
        /\ Cardinality(Adrift(h) \cup {c}) <= Cardinality(Adrift(h)) + 1
    BY <1>3, OneMore
  <2>4. Cardinality(Pending(h)) <= Cardinality(Adrift(h) \cup {c})
    BY <2>2, <2>3, FS_Subset
  <2> QED
    BY <1>1, <1>3, <2>3, <2>4
<1> QED
  BY <1>3, <1>4, <1>5

LEMMA FewerAdrift ==
    ASSUME Attempts, NEW h \in Requests, Adrift(h)' \subseteq Adrift(h)
    PROVE  /\ Cardinality(Adrift(h)') \in Nat
           /\ Cardinality(Adrift(h)') <= Cardinality(Adrift(h))
  BY OneWaits, FS_Subset, FS_CardinalityType

(* A step without an effect, after which no more calls are adrift than     *)
(* those that it counts as lost.                                           *)
LEMMA QuietKeys ==
    ASSUME TypeOK, Attempts, UnusedIsBare, OnePerKey, UNCHANGED <<req, took, used>>,
           \A h \in Requests :
               /\ Cardinality(Adrift(h)') \in Nat
               /\ lost'[h] \in Nat /\ lost[h] <= lost'[h]
               /\ Cardinality(Adrift(h)') + lost[h] <= Cardinality(Adrift(h)) + lost'[h]
    PROVE  UnusedIsBare' /\ OnePerKey'
<1>1. (\A h : Key(h)' = Key(h)) /\ Made' = Made /\ Made \subseteq Requests
  BY DEF Key, Route, Made
<1>2. \A h \in Requests : took[h] \in Nat /\ lost[h] \in Nat /\ Cardinality(Adrift(h)) \in Nat
  BY OneWaits, RetryAssumption DEF TypeOK
<1>3. ASSUME NEW h \in Requests, Bare(h) PROVE Bare(h)'
  <2>1. took[h] + Cardinality(Adrift(h)) <= lost[h]
    BY <1>3 DEF Bare
  <2>2. took[h] + Cardinality(Adrift(h)') <= lost'[h]
    BY <1>2, <2>1
  <2> QED
    BY <2>2 DEF Bare
<1>4. UnusedIsBare'
  BY <1>1, <1>3 DEF UnusedIsBare
<1>5. \A h \in Requests : took[h] <= lost[h] => took[h] <= lost'[h]
  BY <1>2
<1>6. OnePerKey'
  BY <1>1, <1>5 DEF OnePerKey
<1> QED
  BY <1>4, <1>6

LEMMA FrontEffects ==
    ASSUME GatewayInv, NEW h \in Requests, Front(h)
    PROVE  GatewayInv'
<1> USE DEF GatewayInv
<1>1. UNCHANGED <<req, tries, lost, calls, server, used, took, breaks>>
  BY DEF Front, GlobalLimit, Authorize, RouteLimit, RateLimit, BindAndValidate, backend
<1>2. PICK next \in {"authorize", "limit", "check", "send", "done"} :
          stage' = [stage EXCEPT ![h] = next]
  BY DEF Front, GlobalLimit, Authorize, RouteLimit, RateLimit, BindAndValidate, Goto, Answer
<1>3. answer' = answer \/ \E a \in {400, 401, 403, 429} : answer' = [answer EXCEPT ![h] = a]
  BY DEF Front, GlobalLimit, Authorize, RouteLimit, RateLimit, BindAndValidate, Goto, Answer
<1>4. stage[h] \in {"new", "authorize", "limit", "check"}
  BY DEF Front, GlobalLimit, Authorize, RouteLimit, BindAndValidate
<1>5. Counted'
  BY FrontStep
<1>6. TypeOK'
  <2>1. \A c \in calls : c.at = "replied" => c.request # h
    BY <1>4 DEF TypeOK, Waits
  <2>2. \A c \in calls' : c.at = "replied" => Waits(c.request, c)'
    BY <1>1, <1>2, <2>1 DEF TypeOK, Waits, CallRecord
  <2>3. answer' \in [Requests -> {0, 200, 400, 401, 403, 404, 409, 429, 500, 503}]
    BY <1>3 DEF TypeOK
  <2>4. stage' \in [Requests -> {"new", "authorize", "limit", "check", "send", "wait", "done"}]
    BY <1>2 DEF TypeOK
  <2> QED
    BY <1>1, <2>2, <2>3, <2>4 DEF TypeOK
<1>7. Attempts'
  <2>1. \A g \in Requests :
            /\ (stage[g] \in {"new", "authorize", "limit", "check"} => tries[g] = 0)'
            /\ (stage[g] = "send" => tries[g] <= RetryMax)'
            /\ (stage[g] = "wait" => lost[g] < tries[g])'
            /\ (lost[g] <= tries[g])'
    BY <1>1, <1>2, <1>4, RetryAssumption DEF Attempts, TypeOK
  <2> QED
    BY <1>1, <2>1 DEF Attempts
<1>8. OnePerTry'
  <2>1. \A g \in Requests : Pending(g)' \subseteq Pending(g)
    BY <1>1 DEF Pending
  <2>2. \A g \in Requests : lost'[g] \in Nat /\ lost[g] + Spent(g) <= lost'[g] + Spent(g)'
    BY <1>1, <1>2, <1>4, RetryAssumption DEF Spent, TypeOK
  <2> QED
    BY <1>1, <2>1, <2>2, QuietEffects
<1>9. UnusedIsBare' /\ OnePerKey'
  <2>1. \A g \in Requests : Adrift(g)' = Adrift(g)
    BY <1>1, <1>2, <1>4 DEF Adrift, Orphan, Waits, Pending, TypeOK
  <2>2. \A g \in Requests : Cardinality(Adrift(g)) \in Nat /\ lost[g] \in Nat
    BY OneWaits, RetryAssumption DEF TypeOK
  <2> QED
    BY <1>1, <2>1, <2>2, QuietKeys
<1> QED
  BY <1>1, <1>5, <1>6, <1>7, <1>8, <1>9

(* The end of a try: what it answers, or the next.                         *)
LEMMA EndsWell ==
    ASSUME TypeOK, NEW h \in Requests, NEW code, NEW made \in Nat, Ends(h, code, made)
    PROVE  /\ \E next \in {"send", "done"} :
                  /\ stage' = [stage EXCEPT ![h] = next]
                  /\ next = "send" => code \in Retryable /\ made <= RetryMax
           /\ answer' \in [Requests -> {0, 200, 400, 401, 403, 404, 409, 429, 500, 503}]
<1>1. CASE code \in Retryable /\ made <= RetryMax
  BY <1>1 DEF Ends, Goto, TypeOK
<1>2. CASE ~(code \in Retryable /\ made <= RetryMax)
  <2>1. stage' = [stage EXCEPT ![h] = "done"] /\ answer' = [answer EXCEPT ![h] = Status(h, code)]
    BY <1>2 DEF Ends, Answer
  <2> QED
    BY <2>1, StatusType DEF TypeOK
<1> QED
  BY <1>1, <1>2

LEMMA SendEffects ==
    ASSUME GatewayInv, NEW h \in Requests, Send(h)
    PROVE  GatewayInv'
<1> USE DEF GatewayInv
<1> DEFINE n == tries[h] + 1
<1>1. PICK s \in Servers :
          calls' = calls \cup {[request |-> h, try |-> n, server |-> s, at |-> "arrived", code |-> "none"]}
  BY DEF Send
<1> DEFINE new == [request |-> h, try |-> n, server |-> s, at |-> "arrived", code |-> "none"]
<1>2. /\ stage[h] = "send"
      /\ tries' = [tries EXCEPT ![h] = n]
      /\ stage' = [stage EXCEPT ![h] = "wait"]
      /\ UNCHANGED <<answer, req, lost, server, used, took, breaks>>
  BY DEF Send, Goto
<1>3. tries[h] \in 0..RetryMax /\ lost[h] \in Nat /\ lost[h] <= tries[h]
  BY <1>2, RetryAssumption DEF Attempts, TypeOK
<1>4. Counted'
  BY CallStep DEF Call
<1>5. TypeOK'
  <2>1. \A c \in calls : c.at = "replied" => c.request # h
    BY <1>2 DEF TypeOK, Waits
  <2>2. new \in CallRecord
    BY <1>3, RetryAssumption DEF CallRecord
  <2>3. \A c \in calls' : c \in CallRecord /\ c.try \in 1..tries'[c.request]
    BY <1>1, <1>2, <1>3, <2>2, RetryAssumption DEF TypeOK, CallRecord
  <2>4. \A c \in calls' : c.at = "replied" => Waits(c.request, c)'
    BY <1>1, <1>2, <2>1 DEF TypeOK, Waits, CallRecord
  <2>5. tries' \in [Requests -> 0..(RetryMax + 1)]
    BY <1>2, <1>3, RetryAssumption DEF TypeOK
  <2>6. stage' \in [Requests -> {"new", "authorize", "limit", "check", "send", "wait", "done"}]
    BY <1>2 DEF TypeOK
  <2> QED
    BY <1>2, <2>3, <2>4, <2>5, <2>6 DEF TypeOK
<1>6. Attempts'
  <2>1. IsFiniteSet(calls')
    BY <1>1, FS_AddElement DEF Attempts
  <2>2. \A c \in calls : c.request = h => c.try # n
    BY <1>3, RetryAssumption DEF TypeOK, CallRecord
  <2>3. \A c, d \in calls' : c.request = d.request /\ c.try = d.try => c = d
    BY <1>1, <2>2 DEF Attempts
  <2>4. \A g \in Requests :
            /\ (stage[g] \in {"new", "authorize", "limit", "check"} => tries[g] = 0)'
            /\ (stage[g] = "send" => tries[g] <= RetryMax)'
            /\ (stage[g] = "wait" => lost[g] < tries[g])'
            /\ (lost[g] <= tries[g])'
    BY <1>2, <1>3 DEF Attempts, TypeOK
  <2>5. \A c \in calls' : c.at = "replied" => c.code \notin Retryable
    BY <1>1 DEF Attempts
  <2> QED
    BY <2>1, <2>3, <2>4, <2>5 DEF Attempts
<1>7. OnePerTry'
  <2> SUFFICES ASSUME NEW g \in Requests
               PROVE  took[g] + Cardinality(Pending(g)') <= lost[g] + Spent(g)'
    BY <1>2 DEF OnePerTry
  <2>1. /\ IsFiniteSet(Pending(g)) /\ Cardinality(Pending(g)) \in Nat
        /\ took[g] + Cardinality(Pending(g)) <= lost[g] + Spent(g)
    BY PendingFinite DEF OnePerTry
  <2>2. took[g] \in Nat /\ lost[g] \in Nat
    BY RetryAssumption DEF TypeOK
  <2>3. CASE g = h
    <3>1. Pending(g)' = Pending(g) \cup {new}
      BY <1>1, <2>3 DEF Pending
    <3>2. /\ Cardinality(Pending(g) \cup {new}) <= Cardinality(Pending(g)) + 1
          /\ Cardinality(Pending(g) \cup {new}) \in Nat
      BY <2>1, OneMore
    <3>3. Spent(g) = 0 /\ Spent(g)' = 1
      BY <1>2, <2>3 DEF Spent, TypeOK
    <3> QED
      BY <2>1, <2>2, <3>1, <3>2, <3>3
  <2>4. CASE g # h
    <3>1. Pending(g)' = Pending(g)
      BY <1>1, <2>4 DEF Pending
    <3>2. Spent(g)' = Spent(g)
      BY <1>2, <2>4 DEF Spent, TypeOK
    <3> QED
      BY <2>1, <3>1, <3>2
  <2> QED
    BY <2>3, <2>4
<1>8. UnusedIsBare' /\ OnePerKey'
  <2>1. \A g \in Requests : Adrift(g)' \subseteq Adrift(g)
    <3> SUFFICES ASSUME NEW g \in Requests, NEW c \in Adrift(g)' PROVE c \in Adrift(g)
      OBVIOUS
    <3>1. c \in calls' /\ c.request = g /\ c.at # "replied" /\ ~Waits(g, c)'
      BY DEF Adrift, Pending, Orphan
    <3>2. c # new
      BY <1>2, <1>3, <3>1 DEF Waits, TypeOK
    <3>3. c \in calls
      BY <1>1, <3>1, <3>2
    <3>4. ~Waits(g, c)
      BY <1>2, <3>1 DEF Waits, TypeOK
    <3> QED
      BY <3>1, <3>3, <3>4 DEF Adrift, Pending, Orphan
  <2>2. \A g \in Requests : /\ Cardinality(Adrift(g)') \in Nat
                            /\ Cardinality(Adrift(g)') <= Cardinality(Adrift(g))
    BY <2>1, FewerAdrift
  <2>3. \A g \in Requests : Cardinality(Adrift(g)) \in Nat /\ lost[g] \in Nat
    BY OneWaits, RetryAssumption DEF TypeOK
  <2>4. \A g \in Requests : Cardinality(Adrift(g)') + lost[g] <= Cardinality(Adrift(g)) + lost[g]
    BY <2>2, <2>3
  <2> QED
    BY <1>2, <2>2, <2>3, <2>4, QuietKeys
<1> QED
  BY <1>2, <1>4, <1>5, <1>6, <1>7, <1>8

(* A try ends: the call of h that was waited for is over, or goes on       *)
(* without anybody who listens.                                            *)
EndsTry(h, next, n, m) ==
    /\ next \in {"send", "done"} /\ stage' = [stage EXCEPT ![h] = next]
    /\ n \in 0..(RetryMax + 1) /\ tries' = [tries EXCEPT ![h] = n] /\ tries[h] <= n
    /\ next = "send" => n <= RetryMax
    /\ m \in Nat /\ lost' = [lost EXCEPT ![h] = m] /\ m <= n
    /\ (m = lost[h] /\ Pending(h) \subseteq Adrift(h)) \/ m = lost[h] + 1
    /\ lost[h] + Spent(h) <= m + (IF next = "done" THEN 1 ELSE 0)
    /\ answer' \in [Requests -> {0, 200, 400, 401, 403, 404, 409, 429, 500, 503}]
    /\ breaks' \in 0..MaxBreaks
    /\ calls' \subseteq calls /\ \A c \in calls' : c.at = "replied" => ~Waits(h, c)
    /\ UNCHANGED <<req, server, used, took>>

LEMMA EndEffects ==
    ASSUME GatewayInv, Counted', NEW h \in Requests, NEW next, NEW n, NEW m, EndsTry(h, next, n, m)
    PROVE  GatewayInv'
<1> USE DEF GatewayInv, EndsTry
<1>1. TypeOK'
  <2>1. \A c \in calls' : c.at = "replied" => c.request # h
    BY DEF TypeOK
  <2>2. \A c \in calls' : c.at = "replied" => Waits(c.request, c)'
    BY <2>1 DEF TypeOK, Waits, CallRecord
  <2>3. \A c \in calls' : c \in CallRecord /\ c.try \in 1..tries'[c.request]
    <3> SUFFICES ASSUME NEW c \in calls' PROVE c \in CallRecord /\ c.try \in 1..tries'[c.request]
      OBVIOUS
    <3>1. c \in CallRecord /\ c.request \in Requests /\ c.try \in 1..tries[c.request]
      BY DEF TypeOK, CallRecord
    <3>2. tries[c.request] \in Nat /\ tries'[c.request] \in Nat /\ tries[c.request] <= tries'[c.request]
      BY <3>1, RetryAssumption DEF TypeOK
    <3> QED
      BY <3>1, <3>2
  <2>4. lost' \in [Requests -> 0..(RetryMax + 1)] /\ tries' \in [Requests -> 0..(RetryMax + 1)]
    BY RetryAssumption DEF TypeOK
  <2>5. stage' \in [Requests -> {"new", "authorize", "limit", "check", "send", "wait", "done"}]
    BY DEF TypeOK
  <2> QED
    BY <2>2, <2>3, <2>4, <2>5 DEF TypeOK
<1>2. Attempts'
  <2>1. IsFiniteSet(calls')
    BY FS_Subset DEF Attempts
  <2>2. \A g \in Requests :
            /\ (stage[g] \in {"new", "authorize", "limit", "check"} => tries[g] = 0)'
            /\ (stage[g] = "send" => tries[g] <= RetryMax)'
            /\ (stage[g] = "wait" => lost[g] < tries[g])'
            /\ (lost[g] <= tries[g])'
    BY DEF Attempts, TypeOK
  <2> QED
    BY <2>1, <2>2 DEF Attempts
<1>3. OnePerTry'
  <2>1. \A g \in Requests : Pending(g)' \subseteq Pending(g)
    BY DEF Pending
  <2>2. ASSUME NEW g \in Requests
        PROVE  lost'[g] \in Nat /\ lost[g] + Spent(g) <= lost'[g] + Spent(g)'
    <3>1. CASE g = h
      BY <3>1, RetryAssumption DEF Spent, TypeOK
    <3>2. CASE g # h
      BY <3>2, RetryAssumption DEF Spent, TypeOK
    <3> QED
      BY <3>1, <3>2
  <2> QED
    BY <2>1, <2>2, QuietEffects
<1>4. ASSUME NEW g \in Requests
      PROVE  /\ Cardinality(Adrift(g)') \in Nat
             /\ lost'[g] \in Nat /\ lost[g] <= lost'[g]
             /\ Cardinality(Adrift(g)') + lost[g] <= Cardinality(Adrift(g)) + lost'[g]
  <2>1. /\ IsFiniteSet(Adrift(g)) /\ Cardinality(Adrift(g)) \in Nat
        /\ Cardinality(Pending(g)) <= Cardinality(Adrift(g)) + 1
    BY OneWaits
  <2>2. IsFiniteSet(Pending(g)) /\ Cardinality(Pending(g)) \in Nat /\ lost[g] \in Nat
    BY PendingFinite, RetryAssumption DEF TypeOK
  <2>3. Adrift(g)' \subseteq Pending(g)
    BY DEF Adrift, Pending
  <2>4. CASE g # h
    <3>1. Adrift(g)' \subseteq Adrift(g)
      BY <2>4 DEF Adrift, Pending, Orphan, Waits, TypeOK
    <3>2. lost'[g] = lost[g]
      BY <2>4 DEF TypeOK
    <3>3. Cardinality(Adrift(g)') \in Nat /\ Cardinality(Adrift(g)') <= Cardinality(Adrift(g))
      BY <3>1, FewerAdrift
    <3> HIDE DEF EndsTry
    <3> QED
      BY <2>1, <2>2, <3>2, <3>3
  <2>5. CASE g = h
    <3>1. lost'[g] = m
      BY <2>5 DEF TypeOK
    <3>2. CASE m = lost[g] /\ Pending(g) \subseteq Adrift(g)
      <4>1. Cardinality(Adrift(g)') \in Nat /\ Cardinality(Adrift(g)') <= Cardinality(Adrift(g))
        BY <2>3, <3>2, FewerAdrift
      <4> HIDE DEF EndsTry
      <4> QED
        BY <2>1, <2>2, <3>1, <3>2, <4>1
    <3>3. CASE m = lost[g] + 1
      <4>1. Cardinality(Adrift(g)') \in Nat /\ Cardinality(Adrift(g)') <= Cardinality(Pending(g))
        BY <2>2, <2>3, FS_Subset, FS_CardinalityType
      <4> HIDE DEF EndsTry
      <4> QED
        BY <2>1, <2>2, <3>1, <3>3, <4>1
    <3> QED
      BY <2>5, <3>2, <3>3
  <2> QED
    BY <2>4, <2>5
<1>5. UnusedIsBare' /\ OnePerKey'
  BY <1>4, QuietKeys
<1> QED
  BY <1>1, <1>2, <1>3, <1>5

LEMMA CallEffects ==
    ASSUME GatewayInv, NEW h \in Requests, Call(h)
    PROVE  GatewayInv'
<1>1. GatewayInv /\ Counted'
  BY CallStep DEF GatewayInv
<1>2. /\ tries \in [Requests -> 0..(RetryMax + 1)] /\ tries[h] \in 0..(RetryMax + 1)
      /\ lost \in [Requests -> 0..(RetryMax + 1)] /\ lost[h] \in Nat
      /\ TypeOK
      /\ stage[h] = "send" => tries[h] <= RetryMax
      /\ stage[h] = "wait" => lost[h] < tries[h]
      /\ lost[h] <= tries[h]
      /\ breaks \in 0..MaxBreaks
  BY RetryAssumption DEF GatewayInv, TypeOK, Attempts
<1>3. lost = [lost EXCEPT ![h] = lost[h]] /\ tries = [tries EXCEPT ![h] = tries[h]]
  BY <1>2
<1>4. CASE Send(h)
  BY <1>4, SendEffects
<1>5. CASE Refused(h)
  <2>1. /\ stage[h] = "send" /\ tries' = [tries EXCEPT ![h] = tries[h] + 1]
        /\ Ends(h, "Unavailable", tries[h] + 1)
        /\ UNCHANGED <<req, lost, calls, server, used, took, breaks>>
    BY <1>5 DEF Refused, backend
  <2>2. tries[h] + 1 \in 0..(RetryMax + 1) /\ tries[h] + 1 \in Nat
    BY <1>2, <2>1, RetryAssumption
  <2>3. PICK next \in {"send", "done"} :
            /\ stage' = [stage EXCEPT ![h] = next]
            /\ next = "send" => tries[h] + 1 <= RetryMax
    BY <1>2, <2>1, <2>2, EndsWell
  <2>4. answer' \in [Requests -> {0, 200, 400, 401, 403, 404, 409, 429, 500, 503}]
    BY <1>2, <2>1, <2>2, EndsWell
  <2>5. (\A c \in calls' : ~Waits(h, c)) /\ Pending(h) \subseteq Adrift(h)
    BY <2>1 DEF Waits, Adrift, Pending, Orphan
  <2>6. lost[h] <= tries[h] + 1 /\ lost[h] + Spent(h) <= lost[h] + (IF next = "done" THEN 1 ELSE 0)
    BY <1>2, <2>1 DEF Spent
  <2>7. lost' = [lost EXCEPT ![h] = lost[h]] /\ tries[h] <= tries[h] + 1
    BY <1>2, <1>3, <2>1
  <2> SUFFICES EndsTry(h, next, tries[h] + 1, lost[h])
    BY <1>1, EndEffects
  <2> QED
    BY <1>2, <2>1, <2>2, <2>3, <2>4, <2>5, <2>6, <2>7 DEF EndsTry
<1>6. CASE Receive(h)
  <2>1. PICK c \in calls :
            /\ Waits(h, c) /\ c.at = "replied"
            /\ calls' = calls \ {c}
            /\ Ends(h, c.code, tries[h])
            /\ UNCHANGED <<req, tries, lost, server, used, took, breaks>>
    BY <1>6 DEF Receive
  <2>2. stage[h] = "wait" /\ c.code \notin Retryable
    BY <2>1 DEF GatewayInv, Attempts, Waits
  <2>3. tries[h] \in Nat
    BY <1>2, RetryAssumption
  <2>4. PICK next \in {"send", "done"} : next = "done" /\ stage' = [stage EXCEPT ![h] = next]
    BY <1>2, <2>1, <2>2, <2>3, EndsWell
  <2>5. answer' \in [Requests -> {0, 200, 400, 401, 403, 404, 409, 429, 500, 503}]
    BY <1>2, <2>1, <2>3, EndsWell
  <2>6. \A d \in calls \ {c} : ~Waits(h, d)
    BY <2>1 DEF GatewayInv, Attempts, Waits
  <2>10. Pending(h) \subseteq Adrift(h)
    BY <2>1, <2>6 DEF Pending, Adrift, Orphan
  <2>7. lost[h] <= tries[h] /\ lost[h] + Spent(h) <= lost[h] + (IF next = "done" THEN 1 ELSE 0)
    BY <1>2, <2>2, <2>4 DEF Spent
  <2>8. /\ calls' \subseteq calls /\ breaks' \in 0..MaxBreaks
        /\ lost' = [lost EXCEPT ![h] = lost[h]] /\ tries' = [tries EXCEPT ![h] = tries[h]]
    BY <1>2, <1>3, <2>1
  <2>9. /\ tries[h] \in 0..(RetryMax + 1) /\ tries[h] <= tries[h] /\ lost[h] \in Nat
        /\ next = "send" => tries[h] <= RetryMax
    BY <1>2, <2>3, <2>4
  <2> SUFFICES EndsTry(h, next, tries[h], lost[h])
    BY <1>1, EndEffects
  <2> QED
    BY <1>2, <2>1, <2>4, <2>5, <2>6, <2>7, <2>8, <2>9, <2>10 DEF EndsTry
<1>7. CASE Disconnect(h)
  <2>1. /\ stage[h] = "wait" /\ lost' = [lost EXCEPT ![h] = lost[h] + 1]
        /\ Ends(h, "Unavailable", tries[h])
        /\ UNCHANGED <<req, tries, server, used, took>>
    BY <1>7 DEF Disconnect
  <2>2. calls' \subseteq calls /\ (\A c \in calls' : c.at = "replied" => ~Waits(h, c))
    BY <1>7 DEF Disconnect
  <2>3. breaks' \in 0..MaxBreaks
    BY <1>2, <1>7, RetryAssumption DEF Disconnect, Break
  <2>4. tries[h] \in Nat /\ tries[h] <= tries[h] /\ tries' = [tries EXCEPT ![h] = tries[h]]
    BY <1>2, <1>3, <2>1, RetryAssumption
  <2>5. PICK next \in {"send", "done"} :
            /\ stage' = [stage EXCEPT ![h] = next]
            /\ next = "send" => tries[h] <= RetryMax
    BY <1>2, <2>1, <2>4, EndsWell
  <2>6. answer' \in [Requests -> {0, 200, 400, 401, 403, 404, 409, 429, 500, 503}]
    BY <1>2, <2>1, <2>4, EndsWell
  <2>7. /\ lost[h] + 1 \in Nat /\ lost[h] + 1 <= tries[h]
        /\ lost[h] + Spent(h) <= lost[h] + 1 + (IF next = "done" THEN 1 ELSE 0)
    BY <1>2, <2>1, <2>4 DEF Spent
  <2> SUFFICES EndsTry(h, next, tries[h], lost[h] + 1)
    BY <1>1, EndEffects
  <2> QED
    BY <1>2, <2>1, <2>2, <2>3, <2>4, <2>5, <2>6, <2>7 DEF EndsTry
<1>8. CASE Deadline(h)
  <2> DEFINE m == IF stage[h] = "wait" THEN lost[h] + 1 ELSE lost[h]
  <2>0. PICK next \in {"send", "done"} : next = "done"
    OBVIOUS
  <2>1. /\ stage[h] \in {"send", "wait"}
        /\ stage' = [stage EXCEPT ![h] = next]
        /\ answer' = [answer EXCEPT ![h] = Status(h, "DeadlineExceeded")]
        /\ tries' = [tries EXCEPT ![h] = RetryMax + 1]
        /\ UNCHANGED <<req, server, used, took, breaks>>
    BY <1>8, <2>0 DEF Deadline, Answer
  <2>2. lost' = [lost EXCEPT ![h] = m]
    BY <1>3, <1>8 DEF Deadline
  <2>3. calls' \subseteq calls /\ (\A c \in calls' : c.at = "replied" => ~Waits(h, c))
    BY <1>8 DEF Deadline
  <2>4. answer' \in [Requests -> {0, 200, 400, 401, 403, 404, 409, 429, 500, 503}]
    BY <1>2, <2>1, StatusType DEF TypeOK
  <2>5. RetryMax + 1 \in 0..(RetryMax + 1) /\ tries[h] <= RetryMax + 1
    BY <1>2, RetryAssumption
  <2>6. /\ m \in Nat /\ m <= RetryMax + 1
        /\ lost[h] + Spent(h) <= m + (IF next = "done" THEN 1 ELSE 0)
    BY <1>2, <2>0, <2>1, <2>5, RetryAssumption DEF Spent
  <2>7. next = "send" => RetryMax + 1 <= RetryMax
    BY <2>0
  <2>8. breaks' \in 0..MaxBreaks
    BY <1>2, <2>1
  <2>9. (m = lost[h] /\ Pending(h) \subseteq Adrift(h)) \/ m = lost[h] + 1
    BY DEF Adrift, Pending, Orphan, Waits
  <2> HIDE DEF m
  <2> SUFFICES EndsTry(h, next, RetryMax + 1, m)
    BY <1>1, EndEffects
  <2> QED
    BY <1>2, <2>1, <2>2, <2>3, <2>4, <2>5, <2>6, <2>7, <2>8, <2>9 DEF EndsTry
<1> QED
  BY <1>4, <1>5, <1>6, <1>7, <1>8 DEF Call

(* A replica goes on with a call it has, or is done with it: of c remains  *)
(* at most the reply or the call in its handler.                           *)
Served(c, d) ==
    /\ c \in calls /\ c.at # "replied"
    /\ d \in CallRecord /\ d.request = c.request /\ d.try = c.try
    /\ \/ calls' = calls \ {c}
       \/ /\ calls' = (calls \ {c}) \cup {d}
          /\ d.at = "replied" => Waits(c.request, c) /\ d.code \notin Retryable

LEMMA ReplyServes ==
    ASSUME TypeOK, NEW c \in calls, c.at # "replied", 
           NEW code \in {"OK"} \cup RideErrors \cup LocationErrors \cup MatchingErrors \cup UserErrors,
           Reply(c, code)
    PROVE  \E d : Served(c, d) /\ d.at = "replied" /\ d.code = code
<1> DEFINE d == [c EXCEPT !.at = "replied", !.code = code]
<1>1. /\ d \in CallRecord /\ d.request = c.request /\ d.try = c.try
      /\ d.at = "replied" /\ d.code = code
  <2>1. c \in CallRecord
    BY DEF TypeOK
  <2> QED
    BY <2>1 DEF CallRecord
<1>2. code \notin Retryable
  BY DEF Retryable, RideErrors, LocationErrors, MatchingErrors, UserErrors
<1>3. calls' = calls \ {c} \/ (calls' = (calls \ {c}) \cup {d} /\ Waits(c.request, c))
  BY DEF Reply, Orphan
<1> HIDE DEF d
<1> QED
  BY <1>1, <1>2, <1>3 DEF Served

LEMMA ServeTypes ==
    ASSUME TypeOK, Attempts, NEW c, NEW d, Served(c, d),
           UNCHANGED <<gateway, server>>, took' \in [Requests -> Nat], breaks' \in 0..MaxBreaks
    PROVE  TypeOK' /\ Attempts'
<1> USE DEF Served
<1>1. IsFiniteSet(calls')
  <2>1. IsFiniteSet(calls \ {c})
    BY FS_RemoveElement DEF Attempts
  <2>2. IsFiniteSet((calls \ {c}) \cup {d})
    BY <2>1, OneMore
  <2>3. calls' \in {calls \ {c}, (calls \ {c}) \cup {d}}
    OBVIOUS
  <2> QED
    BY <2>1, <2>2, <2>3
<1>2. \A e \in calls' : e \in calls \/ e = d
  OBVIOUS
<1>3. \A e \in calls' : e # d => e # c
  OBVIOUS
<1>4. \A e \in calls' : e.at = "replied" => Waits(e.request, e)'
  BY <1>2 DEF TypeOK, Waits, gateway
<1>5. TypeOK'
  BY <1>2, <1>4 DEF TypeOK, gateway
<1>6. \A e, f \in calls' : e.request = f.request /\ e.try = f.try => e = f
  BY <1>2, <1>3 DEF Attempts
<1> QED
  BY <1>1, <1>2, <1>5, <1>6 DEF Attempts, gateway

LEMMA ServeCounts ==
    ASSUME TypeOK, Attempts, NEW c, NEW d, Served(c, d)
    PROVE  \A h \in Requests :
               /\ Cardinality(Pending(h)') \in Nat
               /\ Cardinality(Pending(h)') <= Cardinality(Pending(h))
               /\ h = c.request /\ d.at = "replied"
                     => Cardinality(Pending(h)') <= Cardinality(Pending(h)) - 1
<1> USE DEF Served
<1> TAKE h \in Requests
<1>1. IsFiniteSet(Pending(h)) /\ Cardinality(Pending(h)) \in Nat
  BY PendingFinite
<1>2. CASE h # c.request
  <2>1. Pending(h)' = Pending(h)
    BY <1>2 DEF Pending
  <2> QED
    BY <1>1, <1>2, <2>1
<1>3. CASE h = c.request
  <2>1. c \in Pending(h)
    BY <1>3 DEF Pending
  <2>2. /\ IsFiniteSet(Pending(h) \ {c})
        /\ Cardinality(Pending(h) \ {c}) = Cardinality(Pending(h)) - 1
        /\ Cardinality(Pending(h) \ {c}) \in Nat
    BY <1>1, <2>1, FS_RemoveElement, FS_CardinalityType
  <2>3. CASE d.at = "replied"
    <3>1. Pending(h)' \subseteq Pending(h) \ {c}
      BY <2>3 DEF Pending
    <3>2. Cardinality(Pending(h)') \in Nat /\ Cardinality(Pending(h)') <= Cardinality(Pending(h) \ {c})
      BY <2>2, <3>1, FS_Subset, FS_CardinalityType
    <3> QED
      BY <1>1, <2>2, <3>2
  <2>4. CASE d.at # "replied"
    <3>1. Pending(h)' \subseteq (Pending(h) \ {c}) \cup {d}
      BY <2>4 DEF Pending
    <3>2. /\ IsFiniteSet((Pending(h) \ {c}) \cup {d})
          /\ Cardinality((Pending(h) \ {c}) \cup {d}) \in Nat
          /\ Cardinality((Pending(h) \ {c}) \cup {d}) <= Cardinality(Pending(h) \ {c}) + 1
      BY <2>2, OneMore
    <3>3. /\ Cardinality(Pending(h)') \in Nat
          /\ Cardinality(Pending(h)') <= Cardinality((Pending(h) \ {c}) \cup {d})
      BY <3>1, <3>2, FS_Subset, FS_CardinalityType
    <3> QED
      BY <1>1, <2>2, <2>4, <3>2, <3>3
  <2> QED
    BY <2>3, <2>4
<1> QED
  BY <1>2, <1>3

LEMMA ServeAdrift ==
    ASSUME TypeOK, Attempts, NEW c, NEW d, Served(c, d), UNCHANGED gateway
    PROVE  \A h \in Requests :
               /\ Cardinality(Adrift(h)') \in Nat
               /\ Cardinality(Adrift(h)') <= Cardinality(Adrift(h))
               /\ h = c.request /\ d.at = "replied" /\ Orphan(c)
                     => Cardinality(Adrift(h)') <= Cardinality(Adrift(h)) - 1
<1> TAKE h \in Requests
<1>1. IsFiniteSet(Adrift(h)) /\ Cardinality(Adrift(h)) \in Nat
  BY OneWaits
<1>2. \A e : Orphan(e)' = Orphan(e)
  BY DEF Orphan, Waits, gateway
<1>3. d.at # "replied" /\ Orphan(d) => Orphan(c)
  BY DEF Served, Orphan, Waits
<1>4. c \notin Adrift(h)' \/ c = d
  BY DEF Served, Adrift, Pending
<1>5. \A e \in Adrift(h)' : e \in Adrift(h) \/ e = d
  BY <1>2 DEF Served, Adrift, Pending
<1>6. d.request = c.request /\ (d \in Adrift(h)' => h = c.request /\ d.at # "replied" /\ Orphan(d))
  BY <1>2 DEF Served, Adrift, Pending
<1>7. c \in Adrift(h) <=> h = c.request /\ Orphan(c)
  BY DEF Served, Adrift, Pending
<1>8. CASE c \in Adrift(h)
  <2>1. /\ IsFiniteSet(Adrift(h) \ {c})
        /\ Cardinality(Adrift(h) \ {c}) = Cardinality(Adrift(h)) - 1
        /\ Cardinality(Adrift(h) \ {c}) \in Nat
    BY <1>1, <1>8, FS_RemoveElement, FS_CardinalityType
  <2>2. CASE d.at = "replied"
    <3>1. c # d
      BY <2>2 DEF Served
    <3>2. Adrift(h)' \subseteq Adrift(h) \ {c}
      BY <1>4, <1>5, <1>6, <2>2, <3>1
    <3>3. Cardinality(Adrift(h)') \in Nat /\ Cardinality(Adrift(h)') <= Cardinality(Adrift(h) \ {c})
      BY <2>1, <3>2, FS_Subset, FS_CardinalityType
    <3> QED
      BY <1>1, <2>1, <3>3
  <2>3. CASE d.at # "replied"
    <3>1. Adrift(h)' \subseteq (Adrift(h) \ {c}) \cup {d}
      BY <1>4, <1>5
    <3>2. /\ IsFiniteSet((Adrift(h) \ {c}) \cup {d})
          /\ Cardinality((Adrift(h) \ {c}) \cup {d}) \in Nat
          /\ Cardinality((Adrift(h) \ {c}) \cup {d}) <= Cardinality(Adrift(h) \ {c}) + 1
      BY <2>1, OneMore
    <3>3. /\ Cardinality(Adrift(h)') \in Nat
          /\ Cardinality(Adrift(h)') <= Cardinality((Adrift(h) \ {c}) \cup {d})
      BY <3>1, <3>2, FS_Subset, FS_CardinalityType
    <3> QED
      BY <1>1, <2>1, <2>3, <3>2, <3>3
  <2> QED
    BY <2>2, <2>3
<1>9. CASE c \notin Adrift(h)
  <2>1. d \notin Adrift(h)'
    BY <1>3, <1>6, <1>7, <1>9
  <2>2. Adrift(h)' \subseteq Adrift(h)
    BY <1>5, <2>1
  <2>3. Cardinality(Adrift(h)') \in Nat /\ Cardinality(Adrift(h)') <= Cardinality(Adrift(h))
    BY <2>2, FewerAdrift
  <2> QED
    BY <1>7, <1>9, <2>3
<1> QED
  BY <1>8, <1>9

LEMMA ServeQuietly ==
    ASSUME GatewayInv, NEW c, NEW d, Served(c, d),
           UNCHANGED <<gateway, server, used, took>>, breaks' \in 0..MaxBreaks
    PROVE  TypeOK' /\ Attempts' /\ OnePerTry' /\ UnusedIsBare' /\ OnePerKey'
<1>1. TypeOK /\ Attempts /\ OnePerTry /\ UnusedIsBare /\ OnePerKey
  BY DEF GatewayInv
<1>2. TypeOK' /\ Attempts'
  BY <1>1, ServeTypes DEF TypeOK
<1>3. UnusedIsBare' /\ OnePerKey'
  <2>1. UNCHANGED <<req, lost>>
    BY DEF gateway
  <2>2. \A h \in Requests : /\ Cardinality(Adrift(h)') \in Nat
                            /\ Cardinality(Adrift(h)') <= Cardinality(Adrift(h))
    BY <1>1, ServeAdrift
  <2>3. \A h \in Requests : Cardinality(Adrift(h)) \in Nat /\ lost[h] \in Nat
    BY <1>1, OneWaits, RetryAssumption DEF TypeOK
  <2>4. \A h \in Requests : Cardinality(Adrift(h)') + lost[h] <= Cardinality(Adrift(h)) + lost[h]
    BY <2>2, <2>3
  <2> QED
    BY <1>1, <2>1, <2>2, <2>3, <2>4, QuietKeys
<1>4. OnePerTry'
  <2> SUFFICES ASSUME NEW h \in Requests
               PROVE  took[h] + Cardinality(Pending(h)') <= lost[h] + Spent(h)
    BY DEF OnePerTry, Spent, gateway
  <2>1. Cardinality(Pending(h)') \in Nat /\ Cardinality(Pending(h)') <= Cardinality(Pending(h))
    BY <1>1, ServeCounts
  <2>2. took[h] \in Nat /\ lost[h] \in Nat /\ Spent(h) \in Nat /\ Cardinality(Pending(h)) \in Nat
    BY <1>1, PendingFinite, RetryAssumption DEF TypeOK, Spent
  <2>3. took[h] + Cardinality(Pending(h)) <= lost[h] + Spent(h)
    BY <1>1 DEF OnePerTry
  <2> QED
    BY <2>1, <2>2, <2>3
<1> QED
  BY <1>2, <1>3, <1>4

(* The handler's effect uses up one pending call, and either the key or a  *)
(* call that was lost.                                                     *)
LEMMA ServeWithEffect ==
    ASSUME GatewayInv, NEW c, NEW d, Served(c, d), d.at = "replied",
           Key(c.request) \notin used, Effect(c),
           UNCHANGED <<gateway, server>>, breaks' \in 0..MaxBreaks
    PROVE  TypeOK' /\ Attempts' /\ OnePerTry' /\ UnusedIsBare' /\ OnePerKey'
<1> DEFINE r == c.request
<1>1. TypeOK /\ Attempts /\ OnePerTry /\ UnusedIsBare /\ OnePerKey /\ Counted
  BY DEF GatewayInv
<1>2. r \in Requests /\ req[r] # Absent
  BY <1>1 DEF Served, TypeOK, CallRecord, Counted
<1>3. took \in [Requests -> Nat] /\ took' = [took EXCEPT ![r] = @ + 1] /\ took' \in [Requests -> Nat]
  BY <1>1, <1>2 DEF TypeOK, Effect
<1>4. TypeOK' /\ Attempts'
  BY <1>1, <1>3, ServeTypes
<1>5. \A h \in Requests : took'[h] = IF h = r THEN took[h] + 1 ELSE took[h]
  BY <1>3
<1>6. OnePerTry'
  <2> SUFFICES ASSUME NEW h \in Requests
               PROVE  took'[h] + Cardinality(Pending(h)') <= lost[h] + Spent(h)
    BY DEF OnePerTry, Spent, gateway
  <2>1. /\ Cardinality(Pending(h)') \in Nat /\ Cardinality(Pending(h)') <= Cardinality(Pending(h))
        /\ h = r => Cardinality(Pending(h)') <= Cardinality(Pending(h)) - 1
    BY <1>1, ServeCounts
  <2>2. took[h] \in Nat /\ lost[h] \in Nat /\ Spent(h) \in Nat /\ Cardinality(Pending(h)) \in Nat
    BY <1>1, PendingFinite, RetryAssumption DEF TypeOK, Spent
  <2>3. took[h] + Cardinality(Pending(h)) <= lost[h] + Spent(h)
    BY <1>1 DEF OnePerTry
  <2> HIDE DEF r
  <2> QED
    BY <1>5, <2>1, <2>2, <2>3
<1>7. /\ \A h : Key(h)' = Key(h)
      /\ Made' = Made /\ Made \subseteq Requests /\ lost' = lost
  BY DEF gateway, Key, Route, Made
<1>8. \A h \in Requests : took[h] \in Nat /\ lost[h] \in Nat /\ Cardinality(Adrift(h)) \in Nat
  BY <1>1, OneWaits, RetryAssumption DEF TypeOK
<1>9. used \subseteq used' /\ (Orphan(c) \/ Key(r) = NoKey \/ Key(r) \in used')
  BY DEF Effect
<1>10. ASSUME NEW h \in Made, Key(h) # NoKey, Key(h) \notin used' PROVE Bare(h)'
  <2>1. h \in Requests /\ Bare(h)
    BY <1>1, <1>7, <1>9, <1>10 DEF UnusedIsBare
  <2>2. took[h] + Cardinality(Adrift(h)) <= lost[h]
    BY <2>1 DEF Bare
  <2>3. h = r => Orphan(c)
    BY <1>9, <1>10
  <2>4. /\ Cardinality(Adrift(h)') \in Nat /\ Cardinality(Adrift(h)') <= Cardinality(Adrift(h))
        /\ h = r => Cardinality(Adrift(h)') <= Cardinality(Adrift(h)) - 1
    BY <1>1, <2>1, <2>3, ServeAdrift
  <2>5. took'[h] + Cardinality(Adrift(h)') <= lost[h]
    <3> HIDE DEF r
    <3> QED
      BY <1>5, <1>8, <2>1, <2>2, <2>4
  <2> QED
    BY <1>7, <2>5 DEF Bare
<1>11. UnusedIsBare'
  BY <1>7, <1>10 DEF UnusedIsBare
<1>12. ASSUME NEW h \in Made, h # r, Key(h) = Key(r), Key(h) # NoKey PROVE took'[h] <= lost[h]
  <2>1. h \in Requests /\ Bare(h)
    BY <1>1, <1>7, <1>12 DEF UnusedIsBare
  <2>2. took[h] + Cardinality(Adrift(h)) <= lost[h] /\ took'[h] = took[h]
    BY <1>5, <1>12, <2>1 DEF Bare
  <2> QED
    BY <1>8, <2>1, <2>2
<1>13. OnePerKey'
  <2> SUFFICES ASSUME NEW g \in Made, NEW h \in Made, g # h, Key(g) = Key(h), Key(h) # NoKey
               PROVE  took'[g] <= lost[g] \/ took'[h] <= lost[h]
    BY <1>7 DEF OnePerKey
  <2>1. took[g] <= lost[g] \/ took[h] <= lost[h]
    BY <1>1 DEF OnePerKey
  <2>2. CASE g = r
    BY <1>12, <2>2
  <2>3. CASE h = r
    BY <1>12, <2>3
  <2>4. CASE g # r /\ h # r
    <3> HIDE DEF r
    <3> QED
      BY <1>5, <1>7, <2>1, <2>4
  <2> QED
    BY <2>2, <2>3, <2>4
<1> QED
  BY <1>4, <1>6, <1>11, <1>13

LEMMA RouteKinds ==
    ASSUME Counted, NEW h \in Requests, req[h] # Absent
    PROVE  /\ Route(h).again \in {"repeat", "revoke", "Unauthenticated", "ResourceExhausted", "AlreadyExists"}
           /\ Route(h).partial \subseteq {"Internal", "Unauthenticated"}
           /\ req[h].route # "verify" => Route(h).partial \subseteq {"Internal"}
           /\ Route(h).service \in {"ride", "location", "matching", "user"}
<1>1. req[h].route \in DOMAIN Routes
  BY MixesAssumption DEF Counted
<1> USE DEF CreateRide, CancelRide, CreateOffer, offerAction, UpdateDriverStatus, UpdateDriverStatusFor,
        UpdateDriverLocation, UpdateDriverLocationFor, ListNearbyDrivers, RegisterAuth, LoginAuth,
        RefreshAuth, LogoutAuth, VerifyAuth, LogoutAllAuth, LogoutDeviceAuth, ListSessionsAuth, MeAuth,
        RideRoute, DriverRoute, UserRoute
<1>2. /\ Route(h).again \in {"repeat", "revoke", "Unauthenticated", "ResourceExhausted", "AlreadyExists"}
      /\ Route(h).service \in {"ride", "location", "matching", "user"}
  BY <1>1 DEF Route, Routes
<1>3. req[h].route \in {"create_ride", "cancel_ride", "create_offer", "offer", "logout", "logout_all",
                       "logout_device", "sessions", "me"} => Route(h).partial = {}
  BY DEF Route, Routes
<1>4. req[h].route \in {"status", "status_for", "nearby"} => Route(h).partial = {}
  BY DEF Route, Routes
<1>5. req[h].route \in {"location", "location_for", "register", "login", "refresh"}
        => Route(h).partial = {"Internal"}
  BY DEF Route, Routes
<1>6. req[h].route = "verify" => Route(h).partial = {"Internal", "Unauthenticated"}
  BY DEF Route, Routes
<1>7. req[h].route \in {"create_ride", "cancel_ride", "create_offer", "offer", "logout", "logout_all",
                       "logout_device", "sessions", "me", "status", "status_for", "nearby", "location",
                       "location_for", "register", "login", "refresh", "verify"}
  BY <1>1 DEF Routes
<1> QED
  BY <1>2, <1>3, <1>4, <1>5, <1>6, <1>7

LEMMA ServiceErrors ==
    ASSUME NEW s \in {"ride", "location", "matching", "user"}
    PROVE  ErrorsOf(s) \subseteq RideErrors \cup LocationErrors \cup MatchingErrors \cup UserErrors
  BY DEF ErrorsOf

LEMMA ServeEffects ==
    ASSUME GatewayInv, NEW c \in calls, Serve(c)
    PROVE  GatewayInv'
<1>1. Counted' /\ TypeOK /\ Counted
  BY ServeStep DEF GatewayInv
<1>2. breaks \in 0..MaxBreaks /\ c \in CallRecord
  BY <1>1 DEF TypeOK
<1> SUFFICES TypeOK' /\ Attempts' /\ OnePerTry' /\ UnusedIsBare' /\ OnePerKey'
  BY <1>1 DEF GatewayInv
<1>3. CASE authInterceptor(c)
  <2>1. c.at = "arrived" /\ UNCHANGED <<gateway, server, used, took, breaks>>
    BY <1>3 DEF authInterceptor
  <2>2. \E d : Served(c, d)
    <3> DEFINE d == [c EXCEPT !.at = "handler"]
    <3>1. CASE \E code \in {"Unauthenticated", "ResourceExhausted"} : Reply(c, code)
      BY <1>1, <2>1, <3>1, ReplyServes DEF UserErrors
    <3>2. CASE calls' = (calls \ {c}) \cup {d}
      <4>1. d \in CallRecord /\ d.request = c.request /\ d.try = c.try /\ d.at # "replied"
        BY <1>2 DEF CallRecord
      <4> QED
        BY <2>1, <3>2, <4>1 DEF Served
    <3> QED
      BY <1>3, <3>1, <3>2 DEF authInterceptor
  <2> QED
    BY <1>2, <2>1, <2>2, ServeQuietly
<1>4. CASE Replay(c) \/ Repeat(c)
  <2>1. c.at = "handler" /\ UNCHANGED <<gateway, server, used, took, breaks>>
    BY <1>4 DEF Replay, Repeat
  <2>2. \E code \in {"OK", "Internal", "Unauthenticated", "ResourceExhausted", "AlreadyExists"} :
            Reply(c, code)
    <3>1. CASE Replay(c)
      BY <3>1 DEF Replay
    <3>2. CASE Repeat(c)
      <4>1. Route(c.request).again # "repeat"
        BY <3>2 DEF Repeat
      <4>2. Route(c.request).again
               \in {"repeat", "revoke", "Unauthenticated", "ResourceExhausted", "AlreadyExists"}
        BY <1>1, RouteKinds DEF Counted
      <4> QED
        BY <3>2, <4>1, <4>2 DEF Repeat
    <3> QED
      BY <1>4, <3>1, <3>2
  <2>3. PICK code \in {"OK"} \cup RideErrors \cup LocationErrors \cup MatchingErrors \cup UserErrors : Reply(c, code)
    BY <2>2 DEF RideErrors, UserErrors
  <2>4. \E d : Served(c, d)
    BY <1>1, <2>1, <2>3, ReplyServes
  <2> QED
    BY <1>2, <2>1, <2>4, ServeQuietly
<1>5. CASE Handle(c)
  <2>1. /\ c.at = "handler" /\ Key(c.request) \notin used /\ Effect(c) /\ Reply(c, "OK")
        /\ UNCHANGED <<gateway, server, breaks>>
    BY <1>5 DEF Handle
  <2>2. \E d : Served(c, d) /\ d.at = "replied"
    BY <1>1, <2>1, ReplyServes
  <2> QED
    BY <1>2, <2>1, <2>2, ServeWithEffect
<1>6. CASE HandleFails(c)
  <2>1. c.at = "handler" /\ UNCHANGED <<gateway, server>> /\ breaks' \in 0..MaxBreaks
    BY <1>2, <1>6, RetryAssumption DEF HandleFails, Break
  <2>2. CASE (\E code \in ErrorsOf(Route(c.request).service) : Reply(c, code)) /\ UNCHANGED <<used, took>>
    <3>1. PICK code \in ErrorsOf(Route(c.request).service) : Reply(c, code)
      BY <2>2
    <3>2. code \in {"OK"} \cup RideErrors \cup LocationErrors \cup MatchingErrors \cup UserErrors
      <4>1. Route(c.request).service \in {"ride", "location", "matching", "user"}
        BY <1>1, RouteKinds DEF Counted
      <4> QED
        BY <3>1, <4>1, ServiceErrors
    <3>3. \E d : Served(c, d)
      BY <1>1, <2>1, <3>1, <3>2, ReplyServes
    <3> QED
      BY <2>1, <2>2, <3>3, ServeQuietly
  <2>3. CASE /\ Key(c.request) \notin used /\ Effect(c)
             /\ \E code \in Route(c.request).partial : Reply(c, code)
    <3>1. PICK code \in {"Internal", "Unauthenticated"} : Reply(c, code)
      BY <1>1, <2>3, RouteKinds DEF Counted
    <3>2. \E d : Served(c, d) /\ d.at = "replied"
      BY <1>1, <2>1, <3>1, ReplyServes DEF UserErrors
    <3> QED
      BY <2>1, <2>3, <3>2, ServeWithEffect
  <2> QED
    BY <1>6, <2>2, <2>3 DEF HandleFails
<1> QED
  BY <1>3, <1>4, <1>5, <1>6 DEF Serve

LEMMA ReplicaEffects ==
    ASSUME GatewayInv, NEW s \in Servers, Replica(s)
    PROVE  GatewayInv'
<1> USE DEF GatewayInv
<1>1. UNCHANGED <<limiter, gateway, used, took>> /\ calls' \subseteq calls
  BY DEF Replica, waitForShutdown, Crash, Restart, CallsAt
<1>2. server' \in [Servers -> {"up", "draining", "down"}] /\ breaks' \in 0..MaxBreaks
  BY RetryAssumption DEF Replica, waitForShutdown, Crash, Restart, Break, TypeOK
<1>3. Counted'
  BY <1>1 DEF Counted, Route, gateway
<1>4. TypeOK'
  BY <1>1, <1>2 DEF TypeOK, Waits, gateway
<1>5. Attempts'
  <2>1. IsFiniteSet(calls')
    BY <1>1, FS_Subset DEF Attempts
  <2> QED
    BY <1>1, <2>1 DEF Attempts, gateway
<1>6. OnePerTry'
  <2>1. \A h \in Requests : Pending(h)' \subseteq Pending(h)
    BY <1>1 DEF Pending
  <2>2. \A h \in Requests : lost'[h] \in Nat /\ lost[h] + Spent(h) <= lost'[h] + Spent(h)'
    BY <1>1, RetryAssumption DEF Spent, TypeOK, gateway
  <2> QED
    BY <1>1, <2>1, <2>2, QuietEffects DEF gateway
<1>7. UnusedIsBare' /\ OnePerKey'
  <2>1. \A h \in Requests : Adrift(h)' \subseteq Adrift(h)
    BY <1>1 DEF Adrift, Pending, Orphan, Waits, gateway
  <2>2. \A h \in Requests : /\ Cardinality(Adrift(h)') \in Nat
                            /\ Cardinality(Adrift(h)') <= Cardinality(Adrift(h))
    BY <2>1, FewerAdrift
  <2>3. \A h \in Requests : Cardinality(Adrift(h)) \in Nat /\ lost[h] \in Nat
    BY OneWaits, RetryAssumption DEF TypeOK
  <2>4. \A h \in Requests : Cardinality(Adrift(h)') + lost[h] <= Cardinality(Adrift(h)) + lost[h]
    BY <2>2, <2>3
  <2> QED
    BY <1>1, <2>2, <2>3, <2>4, QuietKeys DEF gateway
<1> QED
  BY <1>1, <1>3, <1>4, <1>5, <1>6, <1>7

LEMMA GatewayInvStep == GatewayInv /\ [Next]_vars => GatewayInv'
<1> SUFFICES ASSUME GatewayInv, [Next]_vars PROVE GatewayInv'
  OBVIOUS
<1>1. CASE Time \/ UNCHANGED vars
  <2>1. UNCHANGED <<gateway, backend, breaks>>
    BY <1>1 DEF Time, vars
  <2>2. /\ \A h : Key(h)' = Key(h) /\ Pending(h)' = Pending(h) /\ Adrift(h)' = Adrift(h)
        /\ Made' = Made
    BY <2>1 DEF Key, Route, Pending, Adrift, Orphan, Waits, Made, gateway, backend
  <2>3. Counted' /\ TypeOK' /\ Attempts'
    BY <2>1 DEF GatewayInv, Counted, TypeOK, Attempts, Waits, Route, gateway, backend
  <2>4. OnePerTry' /\ UnusedIsBare' /\ OnePerKey'
    BY <2>1, <2>2 DEF GatewayInv, OnePerTry, UnusedIsBare, Bare, OnePerKey, Spent, gateway, backend
  <2> QED
    BY <2>3, <2>4 DEF GatewayInv
<1> QED
  BY <1>1, FrontEffects, CallEffects, ServeEffects, ReplicaEffects DEF Next

LEMMA GatewayInvHolds == Spec => []GatewayInv
  BY GatewayInvInit, GatewayInvStep, PTL DEF Spec

(* Type correctness, for any number of requests, retries and replicas.     *)
THEOREM GatewayTypes == Spec => []TypeOK
  BY GatewayInvHolds, PTL DEF GatewayInv

(* However often the gateway retries and the client repeats, a request     *)
(* takes effect at most once more than calls of it were lost; and of the   *)
(* requests under one idempotency key all but one take effect no more      *)
(* often than calls of theirs were lost, although the key may be missing   *)
(* after an effect whose caller was gone.                                  *)
THEOREM GatewayEffects == Spec => []EffectsBounded
<1>0. ASSUME GatewayInv, NEW g \in Made, NEW h \in Made, g # h, UnderOneKey(g, h)
      PROVE  took[g] <= lost[g] \/ took[h] <= lost[h]
  BY <1>0 DEF GatewayInv, OnePerKey, UnderOneKey, Key
<1>1. GatewayInv => EffectsBounded
  <2> SUFFICES ASSUME GatewayInv, NEW h \in Made PROVE took[h] <= lost[h] + 1
    BY <1>0 DEF EffectsBounded
  <2>1. h \in Requests
    BY DEF Made
  <2>2. Cardinality(Pending(h)) \in Nat /\ took[h] \in Nat /\ lost[h] \in Nat /\ Spent(h) \in {0, 1}
    BY <2>1, PendingFinite, RetryAssumption DEF GatewayInv, TypeOK, Spent
  <2>3. took[h] + Cardinality(Pending(h)) <= lost[h] + Spent(h)
    BY <2>1 DEF GatewayInv, OnePerTry
  <2> QED
    BY <2>2, <2>3
<1> QED
  BY <1>1, GatewayInvHolds, PTL

------------------------------------------------------------------------------
(* What the answers say.  A refusal comes from a try without effect, which *)
(* leaves one effect less than the tries allow.                            *)

TurnsDown == {"InvalidArgument", "NotFound", "AlreadyExists", "FailedPrecondition",
              "Unauthenticated", "ResourceExhausted"}

Replied(h, codes) == \E c \in calls : c.request = h /\ c.at = "replied" /\ c.code \in codes

Short(h) == took[h] + Cardinality(Pending(h)) <= lost[h]

Unanswered == \A h \in Requests : stage[h] # "done" => answer[h] = 0

Refusals ==
    \A h \in Requests :
        req[h].route # "verify" /\ (Replied(h, TurnsDown) \/ answer[h] \in 400..499) => Short(h)

(* What a client is told by 200: the operation, or another under its key.  *)
Done(h) == Happened(h) \/ \E g \in Made : UnderOneKey(g, h) /\ took[g] > 0

Successes == \A h \in Requests : Replied(h, {"OK"}) \/ answer[h] = 200 => Done(h)

UsedKeys ==
    \A k \in used : \E g \in Requests : req[g] # Absent /\ took[g] > 0 /\ Key(g) = k /\ k # NoKey

Alarms ==
    \A op \in revoked : \E f, g \in Requests :
        /\ req[f] # Absent /\ req[f].op = op
        /\ req[g] # Absent /\ req[g].op = op
        /\ f # g \/ lost[f] > 0

Truth == Unanswered /\ Refusals /\ Successes /\ UsedKeys /\ Alarms

LEMMA TruthInit == Init => Truth
  BY DEF Init, Truth, Unanswered, Refusals, Successes, UsedKeys, Alarms, Replied

LEMMA StatusOfCode ==
    ASSUME NEW h, NEW code
    PROVE  /\ Status(h, code) \in 400..499 => code \in TurnsDown
           /\ Status(h, code) = 200 => code = "OK"
           /\ Status(h, "Unavailable") \notin 400..499 /\ Status(h, "Unavailable") # 200
           /\ Status(h, "DeadlineExceeded") \notin 400..499 /\ Status(h, "DeadlineExceeded") # 200
  BY DEF Status, MapGRPCError, respondAuthError, TurnsDown

(* Short is kept by a step that adds neither a pending call nor an effect. *)
LEMMA StaysShort ==
    ASSUME TypeOK, Attempts, NEW h \in Requests, Short(h), Pending(h)' \subseteq Pending(h),
           took' = took, lost'[h] \in Nat, lost[h] <= lost'[h]
    PROVE  Short(h)'
<1>1. Cardinality(Pending(h)') \in Nat /\ Cardinality(Pending(h)') <= Cardinality(Pending(h))
  BY FewerPending
<1>2. took[h] \in Nat /\ lost[h] \in Nat /\ Cardinality(Pending(h)) \in Nat
  BY PendingFinite, RetryAssumption DEF TypeOK
<1> QED
  BY <1>1, <1>2 DEF Short

(* The facts about req, took, used and revoked outlive a step that leaves  *)
(* them alone and loses nothing.                                           *)
LEMMA PastStays ==
    ASSUME TypeOK, UsedKeys, Alarms, UNCHANGED <<req, took, used, revoked>>,
           \A h \in Requests : lost'[h] \in Nat /\ lost[h] <= lost'[h]
    PROVE  UsedKeys' /\ Alarms' /\ \A h : Done(h)' = Done(h)
<1>1. \A h : Key(h)' = Key(h) /\ Done(h)' = Done(h)
  BY DEF Key, Route, Done, Happened, Same, UnderOneKey, Made
<1>2. \A h \in Requests : lost[h] \in Nat
  BY RetryAssumption DEF TypeOK
<1> QED
  BY <1>1, <1>2 DEF UsedKeys, Alarms

LEMMA FrontTruth ==
    ASSUME GatewayInv, Truth, NEW h \in Requests, Front(h)
    PROVE  Truth'
<1> USE DEF Truth
<1>1. UNCHANGED <<req, tries, lost, calls, server, used, took, revoked>> /\ TypeOK /\ Attempts
  BY DEF Front, GlobalLimit, Authorize, RouteLimit, RateLimit, BindAndValidate, backend, GatewayInv
<1>2. \/ UNCHANGED answer /\ \E next : stage' = [stage EXCEPT ![h] = next]
      \/ \E a \in {400, 401, 403, 429} :
             answer' = [answer EXCEPT ![h] = a] /\ stage' = [stage EXCEPT ![h] = "done"]
  BY DEF Front, GlobalLimit, Authorize, RouteLimit, RateLimit, BindAndValidate, Goto, Answer
<1>3. stage[h] \in {"new", "authorize", "limit", "check"}
  BY DEF Front, GlobalLimit, Authorize, RouteLimit, BindAndValidate
<1>4. \A g \in Requests : lost[g] \in Nat /\ lost[g] <= lost[g]
  BY <1>1, RetryAssumption DEF TypeOK
<1>5. UsedKeys' /\ Alarms' /\ \A g : Done(g)' = Done(g)
  BY <1>1, <1>4, PastStays
<1>6. \A g : Pending(g)' = Pending(g) /\ \A codes : Replied(g, codes)' = Replied(g, codes)
  BY <1>1 DEF Pending, Replied
<1>7. Short(h)
  BY <1>1, <1>3, <1>4, PendingFinite DEF GatewayInv, OnePerTry, Spent, Short, TypeOK
<1>8. \A g \in Requests : Short(g)' = Short(g)
  BY <1>1, <1>6 DEF Short
<1>9. answer[h] = 0 /\ answer' \in [Requests -> {0, 200, 400, 401, 403, 404, 409, 429, 500, 503}]
  BY <1>1, <1>2, <1>3 DEF Unanswered, TypeOK
<1>10. Unanswered'
  BY <1>1, <1>2, <1>3, <1>9 DEF Unanswered, TypeOK
<1>11. \A g \in Requests : g # h => answer'[g] = answer[g]
  BY <1>1, <1>2 DEF TypeOK
<1>12. Refusals'
  BY <1>1, <1>6, <1>7, <1>8, <1>11 DEF Refusals
<1>13. answer'[h] # 200
  BY <1>1, <1>2, <1>9 DEF TypeOK
<1>14. Successes'
  BY <1>5, <1>6, <1>11, <1>13 DEF Successes
<1> QED
  BY <1>5, <1>10, <1>12, <1>14

(* A try ends; a is what its outcome would be answered with.               *)
LEMMA EndTruth ==
    ASSUME GatewayInv, Truth, NEW h \in Requests, NEW code, NEW made, Ends(h, code, made),
           stage[h] # "done",
           UNCHANGED <<req, took, used, revoked>>, calls' \subseteq calls,
           \A g \in Requests : lost'[g] \in Nat /\ lost[g] <= lost'[g],
           req[h].route # "verify" /\ Status(h, code) \in 400..499 => Short(h),
           Status(h, code) = 200 => Done(h)
    PROVE  Truth'
<1> USE DEF Truth
<1>1. TypeOK /\ Attempts
  BY DEF GatewayInv
<1>2. UsedKeys' /\ Alarms' /\ \A g : Done(g)' = Done(g)
  BY <1>1, PastStays
<1>3. \A g \in Requests : Pending(g)' \subseteq Pending(g) /\ (Short(g) => Short(g)')
  BY <1>1, StaysShort DEF Pending
<1>4. \A g, codes : Replied(g, codes)' => Replied(g, codes)
  BY DEF Replied
<1>5. \/ UNCHANGED answer /\ stage' = [stage EXCEPT ![h] = "send"]
      \/ answer' = [answer EXCEPT ![h] = Status(h, code)] /\ stage' = [stage EXCEPT ![h] = "done"]
  BY DEF Ends, Goto, Answer
<1>6. Unanswered'
  BY <1>1, <1>5 DEF Unanswered, TypeOK
<1>7. \A g \in Requests : answer'[g] = answer[g] \/ (g = h /\ answer'[g] = Status(h, code))
  BY <1>1, <1>5 DEF TypeOK
<1>8. Refusals'
  BY <1>3, <1>4, <1>7 DEF Refusals
<1>9. Successes'
  BY <1>2, <1>4, <1>7 DEF Successes
<1> QED
  BY <1>2, <1>6, <1>8, <1>9

LEMMA CallTruth ==
    ASSUME GatewayInv, Truth, NEW h \in Requests, Call(h)
    PROVE  Truth'
<1>1. TypeOK /\ Attempts
  BY DEF GatewayInv
<1>2. \A g \in Requests : lost[g] \in Nat /\ lost[g] <= lost[g]
  BY <1>1, RetryAssumption DEF TypeOK
<1>3. CASE Send(h)
  <2> USE DEF Truth
  <2>1. /\ stage[h] = "send" /\ stage' = [stage EXCEPT ![h] = "wait"]
        /\ UNCHANGED <<answer, req, lost, used, took, revoked>>
    BY <1>3 DEF Send, Goto
  <2>2. UsedKeys' /\ Alarms' /\ \A g : Done(g)' = Done(g)
    BY <1>1, <1>2, <2>1, PastStays
  <2>3. \A g, codes : Replied(g, codes)' = Replied(g, codes)
    BY <1>3 DEF Send, Replied
  <2>4. ~Replied(h, TurnsDown) /\ answer[h] = 0
    BY <1>1, <2>1 DEF Replied, TypeOK, Waits, Unanswered
  <2>5. \A g \in Requests : g # h => Pending(g)' = Pending(g)
    BY <1>3 DEF Send, Pending
  <2>6. Refusals'
    BY <2>1, <2>3, <2>4, <2>5 DEF Refusals, Short
  <2>7. Unanswered' /\ Successes'
    BY <1>1, <2>1, <2>2, <2>3 DEF Unanswered, Successes, TypeOK
  <2> QED
    BY <2>2, <2>6, <2>7
<1>4. CASE Refused(h)
  <2>1. /\ stage[h] = "send" /\ Ends(h, "Unavailable", tries[h] + 1)
        /\ UNCHANGED <<req, lost, calls, used, took, revoked>>
    BY <1>4 DEF Refused, backend
  <2>2. Status(h, "Unavailable") \notin 400..499 /\ Status(h, "Unavailable") # 200
    BY StatusOfCode
  <2> QED
    BY <1>2, <2>1, <2>2, EndTruth
<1>5. CASE Receive(h)
  <2>1. PICK c \in calls :
            /\ Waits(h, c) /\ c.at = "replied" /\ calls' = calls \ {c}
            /\ Ends(h, c.code, tries[h])
            /\ UNCHANGED <<req, lost, used, took, revoked>>
    BY <1>5 DEF Receive
  <2>2. stage[h] # "done" /\ c.request = h
    BY <2>1 DEF Waits
  <2>3. /\ req[h].route # "verify" /\ c.code \in TurnsDown => Short(h)
        /\ c.code = "OK" => Done(h)
    BY <2>1, <2>2 DEF Truth, Refusals, Successes, Replied
  <2>4. /\ req[h].route # "verify" /\ Status(h, c.code) \in 400..499 => Short(h)
        /\ Status(h, c.code) = 200 => Done(h)
    BY <2>3, StatusOfCode
  <2>5. calls' \subseteq calls /\ (\A g \in Requests : lost'[g] \in Nat /\ lost[g] <= lost'[g])
    BY <1>2, <2>1
  <2> QED
    BY <2>1, <2>2, <2>4, <2>5, EndTruth
<1>6. CASE Disconnect(h)
  <2>1. /\ stage[h] = "wait" /\ Ends(h, "Unavailable", tries[h]) /\ calls' \subseteq calls
        /\ lost' = [lost EXCEPT ![h] = @ + 1] /\ UNCHANGED <<req, used, took, revoked>>
    BY <1>6 DEF Disconnect
  <2>2. Status(h, "Unavailable") \notin 400..499 /\ Status(h, "Unavailable") # 200
    BY StatusOfCode
  <2>3. \A g \in Requests : lost'[g] \in Nat /\ lost[g] <= lost'[g]
    BY <1>1, <1>2, <2>1 DEF TypeOK
  <2> QED
    BY <2>1, <2>2, <2>3, EndTruth
<1>7. CASE Deadline(h)
  <2>1. /\ stage[h] # "done" /\ Answer(h, Status(h, "DeadlineExceeded")) /\ calls' \subseteq calls
        /\ UNCHANGED <<req, used, took, revoked>>
    BY <1>7 DEF Deadline
  <2>2. Status(h, "DeadlineExceeded") \notin 400..499 /\ Status(h, "DeadlineExceeded") # 200
    BY StatusOfCode
  <2>3. \A g \in Requests : lost'[g] \in Nat /\ lost[g] <= lost'[g]
    BY <1>1, <1>2, <1>7 DEF TypeOK, Deadline
  <2>4. Ends(h, "DeadlineExceeded", RetryMax + 1)
    BY <2>1, RetryAssumption DEF Ends
  <2> QED
    BY <2>1, <2>2, <2>3, <2>4, EndTruth
<1> QED
  BY <1>3, <1>4, <1>5, <1>6, <1>7 DEF Call

(* The other steps of replicas leave the gateway and, all but Handle, the  *)
(* past alone; replies become fewer, or one more that is as it should be.  *)
LEMMA ReplicaTruth ==
    ASSUME GatewayInv, Truth, NEW s \in Servers, Replica(s)
    PROVE  Truth'
<1> USE DEF Truth
<1>1. UNCHANGED <<gateway, used, took, revoked>> /\ calls' \subseteq calls
  BY DEF Replica, waitForShutdown, Crash, Restart, CallsAt
<1>2. TypeOK /\ Attempts /\ \A g \in Requests : lost'[g] \in Nat /\ lost[g] <= lost'[g]
  BY <1>1, RetryAssumption DEF GatewayInv, TypeOK, gateway
<1>3. UsedKeys' /\ Alarms' /\ \A g : Done(g)' = Done(g)
  BY <1>1, <1>2, PastStays DEF gateway
<1>4. \A g \in Requests : Short(g) => Short(g)'
  BY <1>1, <1>2, StaysShort DEF Pending
<1>5. \A g, codes : Replied(g, codes)' => Replied(g, codes)
  BY <1>1 DEF Replied
<1> QED
  BY <1>1, <1>3, <1>4, <1>5 DEF Unanswered, Refusals, Successes, gateway

LEMMA ServedCounts ==
    ASSUME GatewayInv, NEW c, NEW d, Served(c, d), UNCHANGED gateway,
           \/ took' = took
           \/ d.at = "replied" /\ took' = [took EXCEPT ![c.request] = @ + 1]
    PROVE  /\ \A h \in Requests : Short(h) => Short(h)'
           /\ took' = took /\ d.at = "replied" => Short(c.request)'
<1>1. TypeOK /\ Attempts /\ OnePerTry
  BY DEF GatewayInv
<1>2. c.request \in Requests
  BY <1>1 DEF Served, TypeOK, CallRecord
<1> SUFFICES ASSUME NEW h \in Requests
             PROVE  (Short(h) => Short(h)') /\ (took' = took /\ d.at = "replied" /\ h = c.request => Short(h)')
  BY <1>2
<1>3. /\ Cardinality(Pending(h)') \in Nat /\ Cardinality(Pending(h)') <= Cardinality(Pending(h))
      /\ h = c.request /\ d.at = "replied" => Cardinality(Pending(h)') <= Cardinality(Pending(h)) - 1
  BY <1>1, ServeCounts
<1>4. took[h] \in Nat /\ lost[h] \in Nat /\ Spent(h) \in {0, 1} /\ Cardinality(Pending(h)) \in Nat
  BY <1>1, PendingFinite, RetryAssumption DEF TypeOK, Spent
<1>5. took[h] + Cardinality(Pending(h)) <= lost[h] + Spent(h)
  BY <1>1 DEF OnePerTry
<1>6. \/ took' = took
      \/ d.at = "replied" /\ took'[h] = IF h = c.request THEN took[h] + 1 ELSE took[h]
  BY <1>1 DEF TypeOK
<1>7. lost' = lost
  BY DEF gateway
<1> QED
  BY <1>3, <1>4, <1>5, <1>6, <1>7 DEF Short

LEMMA ServedReplies ==
    ASSUME NEW c, NEW d, Served(c, d), NEW h, NEW codes, Replied(h, codes)'
    PROVE  Replied(h, codes) \/ (h = c.request /\ d.at = "replied" /\ d.code \in codes)
  BY DEF Served, Replied

(* A reply without effect: if it says OK, it is true.                      *)
LEMMA ServedTruth ==
    ASSUME GatewayInv, Truth, NEW c, NEW d, Served(c, d), UNCHANGED <<gateway, used, took>>,
           d.at = "replied" /\ d.code = "OK" => Done(c.request),
           Alarms'
    PROVE  Truth'
<1> USE DEF Truth
<1>1. /\ \A h \in Requests : Short(h) => Short(h)'
      /\ d.at = "replied" => Short(c.request)'
  BY ServedCounts
<1>2. \A h : Done(h)' = Done(h) /\ Key(h)' = Key(h)
  BY DEF gateway, Done, Happened, Same, Key, Route, UnderOneKey, Made
<1>3. Refusals'
  BY <1>1, ServedReplies DEF Refusals, gateway
<1>4. Successes'
  BY <1>2, ServedReplies DEF Successes, gateway
<1>5. Unanswered' /\ UsedKeys'
  BY <1>2 DEF Unanswered, UsedKeys, gateway
<1> QED
  BY <1>3, <1>4, <1>5

LEMMA EffectTruth ==
    ASSUME GatewayInv, Truth, NEW c, NEW d, Served(c, d), d.at = "replied", 
           d.code \in {"OK", "Internal", "Unauthenticated"},
           req[c.request].route # "verify" => d.code # "Unauthenticated",
           Effect(c), UNCHANGED <<gateway, revoked>>
    PROVE  Truth'
<1> USE DEF Truth
<1>1. TypeOK /\ Counted
  BY DEF GatewayInv
<1>2. /\ c.request \in Requests /\ req[c.request] # Absent
      /\ took' = [took EXCEPT ![c.request] = @ + 1]
      /\ used' \subseteq used \cup ({Key(c.request)} \ {NoKey})
  BY <1>1 DEF Served, TypeOK, CallRecord, Counted, Effect
<1>3. \A h \in Requests : took[h] \in Nat /\ (took[h] > 0 => took'[h] > 0) /\ (h = c.request => took'[h] > 0)
  BY <1>1, <1>2 DEF TypeOK
<1>4. /\ \A h : Key(h)' = Key(h) /\ Same(h)' = Same(h) /\ Same(h) \subseteq Requests
      /\ \A g, h : UnderOneKey(g, h)' = UnderOneKey(g, h)
      /\ Made' = Made /\ Made \subseteq Requests
  BY DEF gateway, Key, Route, Same, UnderOneKey, Made
<1>5. \A h : Done(h) => Done(h)'
  BY <1>3, <1>4 DEF Done, Happened
<1>6. Done(c.request)'
  BY <1>2, <1>3, <1>4 DEF Done, Happened, Same
<1>7. \A h \in Requests : Short(h) => Short(h)'
  BY <1>2, ServedCounts
<1>8. Refusals'
  BY <1>7, ServedReplies DEF Refusals, TurnsDown, gateway
<1>9. Successes'
  BY <1>5, <1>6, ServedReplies DEF Successes, gateway
<1>10. UsedKeys'
  <2> SUFFICES ASSUME NEW k \in used'
               PROVE  \E g \in Requests : req[g] # Absent /\ took'[g] > 0 /\ Key(g) = k /\ k # NoKey
    BY <1>4 DEF UsedKeys, gateway
  <2>1. CASE k \in used
    BY <1>3, <2>1 DEF UsedKeys
  <2>2. CASE k = Key(c.request) /\ k # NoKey
    BY <1>2, <1>3, <2>2
  <2> QED
    BY <1>2, <2>1, <2>2
<1>11. Unanswered' /\ Alarms'
  BY DEF Unanswered, Alarms, gateway
<1> QED
  BY <1>8, <1>9, <1>10, <1>11

(* A key that is used up was used by this request or under its key.        *)
LEMMA UsedByOne ==
    ASSUME Counted, UsedKeys, NEW h \in Requests, req[h] # Absent, Key(h) \in used
    PROVE  Done(h)
<1>1. PICK g \in Requests : req[g] # Absent /\ took[g] > 0 /\ Key(g) = Key(h) /\ Key(h) # NoKey
  BY DEF UsedKeys
<1>2. req[g].key \notin Requests /\ req[h].key \notin Requests
  BY <1>1, MixesAssumption DEF Counted
<1>3. g = h \/ UnderOneKey(g, h)
  BY <1>1, <1>2 DEF Key, UnderOneKey
<1> QED
  BY <1>1, <1>3 DEF Done, Happened, Same, Made

(* A call that finds its own operation done, by itself, is a second try.   *)
LEMMA SecondTry ==
    ASSUME GatewayInv, NEW c \in calls, c.at # "replied", took[c.request] > 0
    PROVE  lost[c.request] > 0
<1> DEFINE h == c.request
<1>1. TypeOK /\ Attempts /\ OnePerTry /\ h \in Requests
  BY DEF GatewayInv, TypeOK, CallRecord
<1>2. c \in Pending(h)
  BY DEF Pending
<1>3. IsFiniteSet(Pending(h)) /\ Cardinality(Pending(h)) \in Nat /\ Cardinality(Pending(h)) # 0
  BY <1>1, <1>2, PendingFinite, FS_EmptySet
<1>4. took[h] \in Nat /\ lost[h] \in Nat /\ Spent(h) \in {0, 1}
  BY <1>1, RetryAssumption DEF TypeOK, Spent
<1>5. took[h] + Cardinality(Pending(h)) <= lost[h] + Spent(h)
  BY <1>1 DEF OnePerTry
<1> QED
  BY <1>3, <1>4, <1>5

LEMMA ServeTruth ==
    ASSUME GatewayInv, Truth, NEW c \in calls, Serve(c)
    PROVE  Truth'
<1>1. TypeOK /\ Counted /\ Alarms /\ UsedKeys
  BY DEF GatewayInv, Truth
<1>2. c \in CallRecord /\ c.request \in Requests /\ req[c.request] # Absent
  BY <1>1 DEF TypeOK, CallRecord, Counted
<1>3. UNCHANGED <<gateway, revoked>> => Alarms'
  BY <1>1 DEF Alarms, gateway
<1>4. CASE authInterceptor(c)
  <2>1. c.at = "arrived" /\ UNCHANGED <<gateway, used, took, revoked>>
    BY <1>4 DEF authInterceptor
  <2>2. \E d : Served(c, d) /\ (d.at = "replied" => d.code # "OK")
    <3> DEFINE d == [c EXCEPT !.at = "handler"]
    <3>1. CASE \E code \in {"Unauthenticated", "ResourceExhausted"} : Reply(c, code)
      BY <1>1, <2>1, <3>1, ReplyServes DEF UserErrors
    <3>2. CASE calls' = (calls \ {c}) \cup {d}
      <4>1. d \in CallRecord /\ d.request = c.request /\ d.try = c.try /\ d.at # "replied"
        BY <1>2 DEF CallRecord
      <4> QED
        BY <2>1, <3>2, <4>1 DEF Served
    <3> QED
      BY <1>4, <3>1, <3>2 DEF authInterceptor
  <2> QED
    BY <1>3, <2>1, <2>2, ServedTruth
<1>5. CASE Replay(c)
  <2>1. /\ c.at = "handler" /\ Key(c.request) \in used
        /\ Reply(c, "OK") \/ Reply(c, "Internal")
        /\ UNCHANGED <<gateway, used, took, revoked>>
    BY <1>5 DEF Replay
  <2>2. Done(c.request)
    BY <1>1, <1>2, <2>1, UsedByOne
  <2>3. \E d : Served(c, d)
    BY <1>1, <2>1, ReplyServes DEF RideErrors
  <2> QED
    BY <1>3, <2>1, <2>2, <2>3, ServedTruth
<1>6. CASE Repeat(c)
  <2>1. /\ c.at = "handler" /\ Happened(c.request) /\ Route(c.request).again # "repeat"
        /\ UNCHANGED <<gateway, used, took>>
    BY <1>6 DEF Repeat
  <2>2. PICK code \in {"Unauthenticated", "ResourceExhausted", "AlreadyExists"} :
            Reply(c, code)
    BY <1>1, <1>2, <1>6, RouteKinds DEF Repeat
  <2>3. \E d : Served(c, d) /\ d.code # "OK"
    <3>1. code \in {"OK"} \cup RideErrors \cup LocationErrors \cup MatchingErrors \cup UserErrors
      BY DEF UserErrors, RideErrors
    <3>2. code # "OK" /\ c.at # "replied"
      BY <2>1
    <3>3. Reply(c, code)
      BY <2>2
    <3>4. \E d : Served(c, d) /\ d.at = "replied" /\ d.code = code
      BY <1>1, <3>1, <3>2, <3>3, ReplyServes
    <3> QED
      BY <3>2, <3>4
  <2>4. Alarms'
    <3> SUFFICES ASSUME NEW op \in revoked'
                 PROVE  \E f, g \in Requests :
                            /\ req[f] # Absent /\ req[f].op = op
                            /\ req[g] # Absent /\ req[g].op = op
                            /\ f # g \/ lost[f] > 0
      BY <2>1 DEF Alarms, gateway
    <3>1. CASE op \in revoked
      BY <1>1, <3>1 DEF Alarms
    <3>2. CASE op = req[c.request].op
      <4>1. PICK g \in Requests : req[g] # Absent /\ req[g].op = op /\ took[g] > 0
        BY <2>1, <3>2 DEF Happened, Same
      <4>2. g = c.request => lost[g] > 0
        BY <2>1, <4>1, SecondTry
      <4> QED
        BY <1>2, <3>2, <4>1, <4>2
    <3> QED
      BY <1>6, <3>1, <3>2 DEF Repeat
  <2> QED
    BY <2>1, <2>3, <2>4, ServedTruth
<1>7. CASE Handle(c)
  <2>1. c.at = "handler" /\ Effect(c) /\ Reply(c, "OK") /\ UNCHANGED <<gateway, revoked>>
    BY <1>7 DEF Handle
  <2>2. \E d : Served(c, d) /\ d.at = "replied" /\ d.code = "OK"
    BY <1>1, <2>1, ReplyServes
  <2> QED
    BY <2>1, <2>2, EffectTruth
<1>8. CASE HandleFails(c)
  <2>1. c.at = "handler" /\ UNCHANGED <<gateway, revoked>>
    BY <1>8 DEF HandleFails
  <2>2. CASE (\E code \in ErrorsOf(Route(c.request).service) : Reply(c, code)) /\ UNCHANGED <<used, took>>
    <3>1. PICK code \in ErrorsOf(Route(c.request).service) : Reply(c, code)
      BY <2>2
    <3>2. code \in RideErrors \cup LocationErrors \cup MatchingErrors \cup UserErrors
      <4>1. Route(c.request).service \in {"ride", "location", "matching", "user"}
        BY <1>1, <1>2, RouteKinds
      <4> QED
        BY <3>1, <4>1, ServiceErrors
    <3>3. code # "OK"
      BY <3>2 DEF RideErrors, LocationErrors, MatchingErrors, UserErrors
    <3>4. \E d : Served(c, d) /\ d.code # "OK"
      <4>1. c.at # "replied"
        BY <2>1
      <4>2. \E d : Served(c, d) /\ d.at = "replied" /\ d.code = code
        BY <1>1, <3>1, <3>2, <4>1, ReplyServes
      <4> QED
        BY <3>3, <4>2
    <3> QED
      BY <1>3, <2>1, <2>2, <3>4, ServedTruth
  <2>3. CASE Effect(c) /\ \E code \in Route(c.request).partial : Reply(c, code)
    <3>1. PICK code \in Route(c.request).partial : Reply(c, code)
      BY <2>3
    <3>2. /\ code \in {"Internal", "Unauthenticated"}
          /\ req[c.request].route # "verify" => code # "Unauthenticated"
      BY <1>1, <1>2, <3>1, RouteKinds
    <3>3. \E d : Served(c, d) /\ d.at = "replied" /\ d.code = code
      BY <1>1, <2>1, <3>1, <3>2, ReplyServes DEF UserErrors
    <3> QED
      BY <2>1, <2>3, <3>2, <3>3, EffectTruth
  <2> QED
    BY <1>8, <2>2, <2>3 DEF HandleFails
<1> QED
  BY <1>4, <1>5, <1>6, <1>7, <1>8 DEF Serve

LEMMA TruthStep == GatewayInv /\ Truth /\ [Next]_vars => Truth'
<1> SUFFICES ASSUME GatewayInv, Truth, [Next]_vars PROVE Truth'
  OBVIOUS
<1>1. CASE Time \/ UNCHANGED vars
  <2>1. UNCHANGED <<gateway, backend>>
    BY <1>1 DEF Time, vars
  <2>2. \A h : /\ Key(h)' = Key(h) /\ Done(h)' = Done(h) /\ Short(h)' = Short(h)
              /\ \A codes : Replied(h, codes)' = Replied(h, codes)
    BY <2>1 DEF Key, Route, Same, Done, Happened, UnderOneKey, Made, Short, Pending, Replied,
         gateway, backend
  <2>3. Alarms' /\ Unanswered'
    BY <2>1 DEF Truth, Alarms, Unanswered, gateway, backend
  <2>4. Refusals' /\ Successes' /\ UsedKeys'
    BY <2>1, <2>2 DEF Truth, Refusals, Successes, UsedKeys, gateway, backend
  <2> QED
    BY <2>3, <2>4 DEF Truth
<1> QED
  BY <1>1, FrontTruth, CallTruth, ServeTruth, ReplicaTruth DEF Next

LEMMA TruthHolds == Spec => [](GatewayInv /\ Truth)
  BY GatewayInvInit, GatewayInvStep, TruthInit, TruthStep, PTL DEF Spec

(* 200 means done, by this request or by one under its key; and a refusal  *)
(* of a request none of whose calls was lost, and which was to verify no   *)
(* code, means that it did nothing, whatever retries, crashes and          *)
(* repetitions.                                                            *)
THEOREM GatewayAnswers == Spec => []AnswersTrue
<1>1. GatewayInv /\ Truth => AnswersTrue
  <2> SUFFICES ASSUME GatewayInv, Truth, NEW h \in Made
               PROVE  /\ answer[h] = 200 => Done(h)
                      /\ answer[h] \in 400..499 /\ lost[h] = 0 /\ req[h].route # "verify" => took[h] = 0
    BY DEF AnswersTrue, Done
  <2>1. h \in Requests
    BY DEF Made
  <2>2. Cardinality(Pending(h)) \in Nat /\ took[h] \in Nat
    BY <2>1, PendingFinite DEF GatewayInv, TypeOK
  <2> QED
    BY <2>1, <2>2 DEF Truth, Successes, Refusals, Short
<1> QED
  BY <1>1, TruthHolds, PTL

(* All sessions of a user are revoked for a repetition only if the client  *)
(* repeated itself or a call was lost.                                     *)
THEOREM GatewayAlarms == Spec => []AlarmNeedsLoss
<1>1. Truth => AlarmNeedsLoss
  BY DEF Truth, Alarms, AlarmNeedsLoss, Made, Same
<1> QED
  BY <1>1, TruthHolds, PTL
==============================================================================
