------------------------------ MODULE MCGateway ------------------------------
EXTENDS Gateway

CONSTANTS r1, r2, r3, rider, driver, admin, nobody, ride, trip, key1

MCRoleOf == [c \in Callers |->
    CASE c = rider -> "rider" [] c = driver -> "driver" [] c = admin -> "admin" [] OTHER -> "none"]

Ask(caller, route, op, key, valid) ==
    [caller |-> caller, route |-> route, op |-> op, key |-> key, valid |-> valid]

Mix(a, b, c) == [h \in Requests |-> CASE h = r1 -> a [] h = r2 -> b [] OTHER -> c]
Pair(a, b) == Mix(a, b, Absent)

(* Each route alone; a client that repeats its operation under a key, or   *)
(* uses the key for another; two operations in each other's way at a       *)
(* limiter.                                                                *)
Caller(route) ==
    CASE route \in {"create_ride", "cancel_ride", "create_offer"} -> rider
      [] route \in {"status_for", "location_for"} -> admin
      [] route \in {"register", "login"} -> nobody
      [] OTHER -> driver

Singles == {Pair(Ask(Caller(r), r, ride, NoKey, TRUE), Absent) : r \in DOMAIN Routes}
               \cup {Pair(Ask(driver, "offer", ride, key1, TRUE), Absent)}
Strangers == {Pair(Ask(c, r, ride, NoKey, v), Absent) :
                c \in {rider, nobody}, r \in {"offer", "me"}, v \in BOOLEAN}
Twice(ask) == Pair(ask, ask)
Again == {Twice(Ask(rider, "create_ride", ride, key1, TRUE))}
Reused == {Pair(Ask(rider, "create_ride", ride, key1, TRUE), Ask(rider, "create_ride", trip, key1, TRUE))}
Crowd == {Mix(Ask(driver, "nearby", ride, NoKey, FALSE), Ask(driver, "nearby", trip, NoKey, FALSE),
              Ask(driver, "nearby", ride, NoKey, FALSE))}

MCMixes == Singles \cup Strangers \cup Again \cup Reused \cup Crowd

MCPlain == {<<"register", nobody>>, <<"login", nobody>>, <<"refresh", driver>>, <<"logout", driver>>,
            <<"verify", driver>>}
(* Every mix has an r1, and the others of a mix come from the same client. *)
MCKeys == UNION {KeysOf(mix[r1]) : mix \in MCMixes}
MCLimit == [k \in MCKeys |->
    IF k[1] \in {"rl", "register", "login", "refresh", "verify"} THEN 2 ELSE 1]
MCWindow == [k \in MCKeys |-> 2]
==============================================================================
