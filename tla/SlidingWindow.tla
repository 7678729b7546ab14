---------------------------- MODULE SlidingWindow ----------------------------
(***************************************************************************)
(* What a rate limiter promises: of the requests that carry one key, no    *)
(* more than Limit are admitted in any Window of time.                     *)
(***************************************************************************)
EXTENDS Naturals, Sequences

CONSTANTS Keys, Limit, Window

VARIABLES
    now,
    log        \* [Keys -> times of the admissions, in their order]

vars == <<now, log>>

Init ==
    /\ now = 0
    /\ log = [k \in Keys |-> <<>>]

(* The Limit-th last admission is out of the window.                       *)
Room(k) ==
    \/ Len(log[k]) < Limit[k]
    \/ log[k][Len(log[k]) + 1 - Limit[k]] + Window[k] <= now

Admit(k) ==
    /\ Room(k)
    /\ log' = [log EXCEPT ![k] = Append(@, now)]
    /\ UNCHANGED now

Tick ==
    /\ now' = now + 1
    /\ UNCHANGED log

Next == Tick \/ \E k \in Keys : Admit(k)

Spec == Init /\ [][Next]_vars

(* Limit admissions further on, at least a Window has passed: every span   *)
(* shorter than Window holds at most Limit admissions of the key.          *)
Spaced ==
    \A k \in Keys : \A i, j \in 1..Len(log[k]) :
        i + Limit[k] <= j => log[k][i] + Window[k] <= log[k][j]

==============================================================================
