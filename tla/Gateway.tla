------------------------------- MODULE Gateway -------------------------------
(***************************************************************************)
(* A request on its way from a client through the gateway to a service and *)
(* back.  The gateway limits it (twice, with the counters of RateLimiter), *)
(* authorizes and checks it, and calls the service over gRPC with retries  *)
(* under one deadline.  The service's replicas are deployed and crash;     *)
(* connections break.  What the service keeps is reduced to what the       *)
(* answers are about: whether the operation of a request took effect, and  *)
(* which idempotency keys are used up.                                     *)
(***************************************************************************)
EXTENDS RateLimiter, FiniteSets

CONSTANTS
    Requests,      \* HTTP requests
    Callers,       \* clients; each has an address and a user id of its own
    RoleOf,        \* [Callers -> role in the access token, "none" without one]
    Mixes,         \* what the requests may be: functions from Requests
    Absent,        \* a request that is not made
    Servers,       \* replicas of the service the requests are for
    InternalAuth,  \* is the internal token asked for
    NoKey,         \* the empty Idempotency-Key
    RetryMax,      \* retries of a gRPC call
    MaxBreaks      \* bound: lost connections, failing handlers, stops and crashes

ASSUME RetryAssumption == RetryMax \in Nat /\ MaxBreaks \in Nat
ASSUME NoKeyAssumption == NoKey \notin Requests

VARIABLES
    req,       \* [Requests -> caller, route, operation, key of the client, body in order]
    stage,     \* [Requests -> how far the gateway is]
    tries,     \* [Requests -> calls made]
    answer,    \* [Requests -> HTTP status, 0 before]
    lost,      \* ghost, [Requests -> calls whose outcome the gateway never learnt]
    calls,     \* calls at the replicas, and replies on their way
    server,    \* [Servers -> "up", "draining" or "down"]
    used,      \* idempotency keys in the service's database
    took,      \* ghost, [Requests -> times its operation took effect]
    revoked,   \* operations whose repetition revoked all sessions of the user
    breaks

gateway == <<req, stage, tries, answer, lost>>
backend == <<calls, server, used, took, revoked>>
vars == <<limiter, gateway, backend, breaks>>

------------------------------------------------------------------------------
(* The routes.  "again" says what a service does with an operation that    *)
(* has taken effect and comes again under no key it knows: repeat it,      *)
(* refuse it with the code given, or revoke the user's sessions.           *)
(* "partial": the codes a handler may fail with after its effect.          *)

RideRoute(role, limit, key) ==
    [service |-> "ride", roles |-> {role}, scope |-> "rides:write", limit |-> limit,
     key |-> key, token |-> TRUE, again |-> "repeat", partial |-> {}]

(* A transition to the status a row has succeeds, and is announced again.  *)
CreateRide == RideRoute("rider", "none", "header")
CancelRide == RideRoute("rider", "none", "request")
CreateOffer == RideRoute("rider", "offers", "header")
offerAction == [RideRoute("driver", "offers", "header") EXCEPT !.scope = "drivers:write"]

DriverRoute(to, role, limit, token, again) ==
    [service |-> to, roles |-> {role}, limit |-> limit, key |-> "none", token |-> token,
     scope |-> IF role = "admin" THEN "admin:drivers:write" ELSE "drivers:write",
     again |-> again, partial |-> IF again = "ResourceExhausted" THEN {"Internal"} ELSE {}]

(* Both status routes leave the internal token out.                        *)
UpdateDriverStatus == DriverRoute("matching", "driver", "none", FALSE, "repeat")
UpdateDriverStatusFor == DriverRoute("matching", "admin", "none", FALSE, "repeat")
UpdateDriverLocation == DriverRoute("location", "driver", "driver_location", TRUE, "ResourceExhausted")
UpdateDriverLocationFor == DriverRoute("location", "admin", "driver_location", TRUE, "ResourceExhausted")
ListNearbyDrivers == DriverRoute("location", "driver", "nearby", TRUE, "repeat")

Anyone == {"none", "rider", "driver", "admin"}

UserRoute(roles, again, partial) ==
    [service |-> "user", roles |-> roles, scope |-> "none", limit |-> "none", key |-> "none",
     token |-> TRUE, again |-> again, partial |-> partial]

RegisterAuth == UserRoute(Anyone, "AlreadyExists", {"Internal"})
LoginAuth == UserRoute(Anyone, "repeat", {"Internal"})
RefreshAuth == UserRoute(Anyone, "revoke", {"Internal"})
LogoutAuth == UserRoute(Anyone, "Unauthenticated", {})
(* Verify uses the code up before it reads the user and compares the target. *)
VerifyAuth == UserRoute(Anyone, "Unauthenticated", {"Internal", "Unauthenticated"})
LogoutAllAuth == UserRoute({"rider", "driver"}, "repeat", {})
LogoutDeviceAuth == UserRoute({"rider", "driver"}, "repeat", {})
ListSessionsAuth == UserRoute({"rider", "driver"}, "repeat", {})
MeAuth == UserRoute({"rider", "driver"}, "repeat", {})

Routes ==
    [create_ride |-> CreateRide, cancel_ride |-> CancelRide, create_offer |-> CreateOffer,
     offer |-> offerAction,
     status |-> UpdateDriverStatus, status_for |-> UpdateDriverStatusFor,
     location |-> UpdateDriverLocation, location_for |-> UpdateDriverLocationFor,
     nearby |-> ListNearbyDrivers,
     register |-> RegisterAuth, login |-> LoginAuth, refresh |-> RefreshAuth,
     logout |-> LogoutAuth, verify |-> VerifyAuth, logout_all |-> LogoutAllAuth,
     logout_device |-> LogoutDeviceAuth, sessions |-> ListSessionsAuth, me |-> MeAuth]

ASSUME MixesAssumption ==
    \A mix \in Mixes : \A h \in Requests :
        mix[h] # Absent => /\ mix[h].route \in DOMAIN Routes
                           /\ mix[h].key \notin Requests

Route(h) == Routes[req[h].route]

(* Register, login, refresh, logout and verify are limited once more.      *)
LimitedByUser == {"register", "login", "refresh", "logout", "verify"}

(* The keys under which a request is counted.                              *)
KeysOf(ask) ==
    {<<"rl", ask.caller>>}
        \cup (IF Routes[ask.route].limit = "none" THEN {} ELSE {<<Routes[ask.route].limit, ask.caller>>})
        \cup (IF ask.route \in LimitedByUser THEN {<<ask.route, ask.caller>>} ELSE {})

ASSUME KeysAssumption ==
    \A mix \in Mixes : \A h \in Requests : mix[h] # Absent => KeysOf(mix[h]) \subseteq Keys

(* The scopes signJWT puts into the token of a role.                       *)
ScopesOf(role) ==
    {"none", "notify:read", "users:read"}
        \cup (IF role = "rider" THEN {"rides:write"} ELSE {})
        \cup (IF role = "driver" THEN {"drivers:write"} ELSE {})

(* Requests of one operation: what a client sends again is the same to the *)
(* service, but for a key it recognises.                                   *)
Same(h) == {g \in Requests : req[g] # Absent /\ req[g].op = req[h].op}

(* Mutant of Key: the gateway draws a key of its own for each request.     *)
KeyOfRequest(h) == IF Route(h).key = "none" THEN NoKey ELSE h

(* The Idempotency-Key header, or the X-Request-Id, which is drawn for a   *)
(* request that has none.  The service does not ask whose key it is, nor   *)
(* for what operation.                                                     *)
Key(h) ==
    IF Route(h).key = "none" THEN NoKey
    ELSE IF Route(h).key = "request" /\ req[h].key = NoKey THEN h
    ELSE req[h].key

------------------------------------------------------------------------------
(* What the services may answer, and what the gateway makes of it.         *)

RideErrors == {"FailedPrecondition", "NotFound", "Aborted", "Internal"}
LocationErrors == {"InvalidArgument", "NotFound", "ResourceExhausted", "Internal"}
MatchingErrors == {"InvalidArgument", "Internal"}
UserErrors ==
    {"InvalidArgument", "AlreadyExists", "Unauthenticated", "NotFound", "ResourceExhausted", "Internal"}

ErrorsOf(s) ==
    [ride |-> RideErrors, location |-> LocationErrors,
     matching |-> MatchingErrors, user |-> UserErrors][s]

(* Status 500 stands for every code the switch does not name.              *)
MapGRPCError(code) ==
    CASE code = "OK" -> 200
      [] code = "InvalidArgument" -> 400
      [] code = "Unauthenticated" -> 401
      [] code = "NotFound" -> 404
      [] code \in {"AlreadyExists", "FailedPrecondition"} -> 409
      [] code = "ResourceExhausted" -> 429
      [] code = "Unavailable" -> 503
      [] OTHER -> 500

(* Mutant: what is not known is the client's fault.                        *)
respondAuthErrorAsInvalid(code) ==
    CASE code = "OK" -> 200
      [] code = "Unauthenticated" -> 401
      [] code = "AlreadyExists" -> 409
      [] OTHER -> 400

respondAuthError(code) ==
    CASE code = "OK" -> 200
      [] code = "InvalidArgument" -> 400
      [] code = "Unauthenticated" -> 401
      [] code = "NotFound" -> 404
      [] code = "AlreadyExists" -> 409
      [] code = "ResourceExhausted" -> 429
      [] OTHER -> 500

Status(h, code) ==
    IF Route(h).service = "user" THEN respondAuthError(code) ELSE MapGRPCError(code)

Answer(h, status) ==
    /\ stage' = [stage EXCEPT ![h] = "done"]
    /\ answer' = [answer EXCEPT ![h] = status]

Goto(h, next) ==
    /\ stage' = [stage EXCEPT ![h] = next]
    /\ UNCHANGED answer

------------------------------------------------------------------------------
Init ==
    /\ LimiterInit
    /\ req \in Mixes
    /\ stage = [h \in Requests |-> IF req[h] = Absent THEN "done" ELSE "new"]
    /\ tries = [h \in Requests |-> 0]
    /\ answer = [h \in Requests |-> 0]
    /\ lost = [h \in Requests |-> 0]
    /\ calls = {}
    /\ server = [s \in Servers |-> "up"]
    /\ used = {}
    /\ took = [h \in Requests |-> 0]
    /\ revoked = {}
    /\ breaks = 0

Break == breaks < MaxBreaks /\ breaks' = breaks + 1

(* A limiter that cannot be asked refuses.                                 *)
RateLimit(h, k, next) ==
    /\ \/ /\ Allow(k)
          /\ IF Admits(k) THEN Goto(h, next) ELSE Answer(h, 429)
       \/ AllowFails(k) /\ Answer(h, 429)
    /\ UNCHANGED <<req, tries, lost, backend, breaks>>

(* The first limiter runs before the client is known: by address.          *)
GlobalLimit(h) ==
    /\ stage[h] = "new"
    /\ RateLimit(h, <<"rl", req[h].caller>>, "authorize")

(* Token, role and scope.                                                  *)
Authorize(h) ==
    /\ stage[h] = "authorize"
    /\ LET role == RoleOf[req[h].caller] IN
       \/ role = "none" /\ Route(h).roles # Anyone /\ Answer(h, 401)
       \/ role # "none" /\ role \notin Route(h).roles /\ Answer(h, 403)
       \/ role \in Route(h).roles /\ Route(h).scope \notin ScopesOf(role) /\ Answer(h, 403)
       \/ /\ role \in Route(h).roles
          /\ Route(h).scope \in ScopesOf(role)
          /\ Goto(h, IF Route(h).limit = "none" THEN "check" ELSE "limit")
    /\ UNCHANGED <<limiter, req, tries, lost, backend, breaks>>

(* The route's own limiter, by user id.                                    *)
RouteLimit(h) ==
    /\ stage[h] = "limit"
    /\ RateLimit(h, <<Route(h).limit, req[h].caller>>, "check")

BindAndValidate(h) ==
    /\ stage[h] = "check"
    /\ IF req[h].valid THEN Goto(h, "send") ELSE Answer(h, 400)
    /\ UNCHANGED <<limiter, req, tries, lost, backend, breaks>>

------------------------------------------------------------------------------
(* The call and its retries.                                               *)

Waits(h, c) == stage[h] = "wait" /\ c.request = h /\ c.try = tries[h]
Orphan(c) == ~Waits(c.request, c)

RetryableInternal == {"Unavailable", "DeadlineExceeded", "Internal"}

Retryable == {"Unavailable", "DeadlineExceeded"}

Ends(h, code, made) ==
    IF code \in Retryable /\ made <= RetryMax
    THEN Goto(h, "send")
    ELSE Answer(h, Status(h, code))

Send(h) ==
    /\ stage[h] = "send"
    /\ \E s \in Servers :
        /\ server[s] = "up"
        /\ calls' = calls \cup
              {[request |-> h, try |-> tries[h] + 1, server |-> s, at |-> "arrived", code |-> "none"]}
    /\ tries' = [tries EXCEPT ![h] = @ + 1]
    /\ Goto(h, "wait")
    /\ UNCHANGED <<limiter, req, lost, server, used, took, revoked, breaks>>

(* No replica takes connections.                                           *)
Refused(h) ==
    /\ stage[h] = "send"
    /\ \A s \in Servers : server[s] # "up"
    /\ tries' = [tries EXCEPT ![h] = @ + 1]
    /\ Ends(h, "Unavailable", tries[h] + 1)
    /\ UNCHANGED <<limiter, req, lost, backend, breaks>>

Receive(h) ==
    \E c \in calls :
        /\ Waits(h, c)
        /\ c.at = "replied"
        /\ calls' = calls \ {c}
        /\ Ends(h, c.code, tries[h])
        /\ UNCHANGED <<limiter, req, tries, lost, server, used, took, revoked, breaks>>

(* The connection breaks, with the replica (the call is gone) or under a   *)
(* call that goes on, to an answer that nobody gets.                       *)
Disconnect(h) ==
    /\ stage[h] = "wait"
    /\ \/ (\A c \in calls : ~Waits(h, c)) /\ UNCHANGED <<calls, breaks>>
       \/ /\ \E c \in calls : Waits(h, c)
          /\ Break
          /\ calls' = {c \in calls : ~(Waits(h, c) /\ c.at = "replied")}
    /\ lost' = [lost EXCEPT ![h] = @ + 1]
    /\ Ends(h, "Unavailable", tries[h])
    /\ UNCHANGED <<limiter, req, tries, server, used, took, revoked>>

(* Without RequestTimeout, and without the client interceptor's timeout.   *)
DeadlineOff(h) == FALSE /\ UNCHANGED vars

(* The deadline of RequestTimeout's context, which all tries share, passes *)
(* while the call is out or is about to be made: this try and whatever     *)
(* retries are left fail at once.                                          *)
Deadline(h) ==
    /\ stage[h] \in {"send", "wait"}
    /\ lost' = IF stage[h] = "wait" THEN [lost EXCEPT ![h] = @ + 1] ELSE lost
    /\ calls' = {c \in calls : ~(Waits(h, c) /\ c.at = "replied")}
    /\ tries' = [tries EXCEPT ![h] = RetryMax + 1]
    /\ Answer(h, Status(h, "DeadlineExceeded"))
    /\ UNCHANGED <<limiter, req, server, used, took, revoked, breaks>>

------------------------------------------------------------------------------
(* The replicas.                                                           *)

Reply(c, code) ==
    calls' = (calls \ {c}) \cup
        (IF Orphan(c) THEN {} ELSE {[c EXCEPT !.at = "replied", !.code = code]})

Limited(h) == req[h].route \in LimitedByUser
UserKey(h) == <<req[h].route, req[h].caller>>

authInterceptor(c) ==
    /\ c.at = "arrived"
    /\ \/ /\ InternalAuth /\ ~Route(c.request).token
          /\ Reply(c, "Unauthenticated")
          /\ UNCHANGED limiter
       \/ /\ ~InternalAuth \/ Route(c.request).token
          /\ ~Limited(c.request)
          /\ calls' = (calls \ {c}) \cup {[c EXCEPT !.at = "handler"]}
          /\ UNCHANGED limiter
       \/ /\ ~InternalAuth \/ Route(c.request).token
          /\ Limited(c.request)
          /\ LET k == UserKey(c.request) IN
             \/ /\ Allow(k)
                /\ IF Admits(k)
                   THEN calls' = (calls \ {c}) \cup {[c EXCEPT !.at = "handler"]}
                   ELSE Reply(c, "ResourceExhausted")
             \/ AllowFails(k) /\ Reply(c, "ResourceExhausted")
    /\ UNCHANGED <<gateway, server, used, took, revoked, breaks>>

Happened(h) == \E g \in Same(h) : took[g] > 0

(* The key is stored in the transaction of the effect, but the error of    *)
(* Save is dropped: once the caller's context is over, the effect may be   *)
(* committed without it.                                                   *)
Effect(c) ==
    /\ took' = [took EXCEPT ![c.request] = @ + 1]
    /\ \/ used' = used \cup ({Key(c.request)} \ {NoKey})
       \/ Orphan(c) /\ UNCHANGED used

(* The reply stored under the key, or the end of a transaction that looked *)
(* the key up before it was stored.                                        *)
Replay(c) ==
    /\ c.at = "handler"
    /\ Key(c.request) \in used
    /\ Reply(c, "OK") \/ Reply(c, "Internal")
    /\ UNCHANGED <<limiter, gateway, server, used, took, revoked, breaks>>

Repeat(c) ==
    /\ c.at = "handler"
    /\ Key(c.request) \notin used
    /\ Happened(c.request)
    /\ Route(c.request).again # "repeat"
    /\ IF Route(c.request).again = "revoke"
       THEN revoked' = revoked \cup {req[c.request].op} /\ Reply(c, "Unauthenticated")
       ELSE UNCHANGED revoked /\ Reply(c, Route(c.request).again)
    /\ UNCHANGED <<limiter, gateway, server, used, took, breaks>>

(* The gap between two reports of a driver may be over.                    *)
Repeatable(h) == Route(h).again \in {"repeat", "ResourceExhausted"}

Handle(c) ==
    /\ c.at = "handler"
    /\ Key(c.request) \notin used
    /\ Happened(c.request) => Repeatable(c.request)
    /\ Effect(c)
    /\ Reply(c, "OK")
    /\ UNCHANGED <<limiter, gateway, server, revoked, breaks>>

(* The handler refuses or fails, by itself or because the caller's context *)
(* is over; some fail after the effect.                                    *)
HandleFails(c) ==
    /\ c.at = "handler"
    /\ IF Orphan(c) THEN UNCHANGED breaks ELSE Break
    /\ \/ /\ \E code \in ErrorsOf(Route(c.request).service) : Reply(c, code)
          /\ UNCHANGED <<used, took>>
       \/ /\ Key(c.request) \notin used
          /\ Happened(c.request) => Repeatable(c.request)
          /\ Effect(c)
          /\ \E code \in Route(c.request).partial : Reply(c, code)
    /\ UNCHANGED <<limiter, gateway, server, revoked>>

CallsAt(s) == {c \in calls : c.server = s}

(* SIGTERM: GracefulStop takes no new calls and waits for those it has;    *)
(* after the timeout Stop breaks them off.                                 *)
waitForShutdown(s) ==
    \/ /\ server[s] = "up"
       /\ Break
       /\ server' = [server EXCEPT ![s] = "draining"]
       /\ UNCHANGED calls
    \/ /\ server[s] = "draining"
       /\ \A c \in CallsAt(s) : c.at = "replied"
       /\ server' = [server EXCEPT ![s] = "down"]
       /\ UNCHANGED <<calls, breaks>>
    \/ /\ server[s] = "draining"
       /\ CallsAt(s) # {}
       /\ UNCHANGED breaks
       /\ server' = [server EXCEPT ![s] = "down"]
       /\ calls' = calls \ CallsAt(s)

Crash(s) ==
    /\ server[s] = "up"
    /\ Break
    /\ server' = [server EXCEPT ![s] = "down"]
    /\ calls' = calls \ CallsAt(s)

Restart(s) ==
    /\ server[s] = "down"
    /\ server' = [server EXCEPT ![s] = "up"]
    /\ UNCHANGED <<calls, breaks>>

Replica(s) ==
    /\ waitForShutdown(s) \/ Crash(s) \/ Restart(s)
    /\ UNCHANGED <<limiter, gateway, used, took, revoked>>

Serve(c) == authInterceptor(c) \/ Replay(c) \/ Repeat(c) \/ Handle(c) \/ HandleFails(c)

Front(h) == GlobalLimit(h) \/ Authorize(h) \/ RouteLimit(h) \/ BindAndValidate(h)
Call(h) == Send(h) \/ Refused(h) \/ Receive(h) \/ Disconnect(h) \/ Deadline(h)

Time == Tick /\ UNCHANGED <<gateway, backend, breaks>>

Next ==
    \/ Time
    \/ \E h \in Requests : Front(h) \/ Call(h)
    \/ \E c \in calls : Serve(c)
    \/ \E s \in Servers : Replica(s)

(* The goroutine of a request works on, or its deadline passes; no replica *)
(* need do anything.                                                       *)
Fairness == \A h \in Requests : WF_vars(Front(h) \/ Call(h))

Spec == Init /\ [][Next]_vars
FairSpec == Spec /\ Fairness

------------------------------------------------------------------------------
CallRecord ==
    [request : Requests, try : Nat, server : Servers, at : {"arrived", "handler", "replied"},
     code : {"none", "OK"} \cup RideErrors \cup LocationErrors \cup MatchingErrors \cup UserErrors]

TypeOK ==
    /\ req \in Mixes
    /\ stage \in [Requests -> {"new", "authorize", "limit", "check", "send", "wait", "done"}]
    /\ tries \in [Requests -> 0..(RetryMax + 1)]
    /\ answer \in [Requests -> {0, 200, 400, 401, 403, 404, 409, 429, 500, 503}]
    /\ lost \in [Requests -> 0..(RetryMax + 1)]
    /\ \A c \in calls :
        /\ c \in CallRecord
        /\ c.try \in 1..tries[c.request]
        /\ c.at = "replied" => Waits(c.request, c)
    /\ server \in [Servers -> {"up", "draining", "down"}]
    /\ took \in [Requests -> Nat]
    /\ breaks \in 0..MaxBreaks

Made == {h \in Requests : req[h] # Absent}

(* The client sent both under one key.                                     *)
UnderOneKey(g, h) ==
    /\ Route(g).key # "none" /\ Route(h).key # "none"
    /\ req[g].key = req[h].key /\ req[h].key # NoKey

(* A retry is made only for a call whose outcome is unknown: a request     *)
(* takes effect at most once more than calls of it were lost.  Under one   *)
(* idempotency key all requests together take effect at most once more     *)
(* than calls were lost: however often the client sends them, only a call  *)
(* that outlived its caller can leave an effect without the key.           *)
EffectsBounded ==
    \A h \in Made :
        /\ took[h] <= lost[h] + 1
        /\ \A g \in Made \ {h} :
              UnderOneKey(g, h) => took[g] <= lost[g] \/ took[h] <= lost[h]

(* 200 means done, unless the client used its key for something else.  A   *)
(* refusal (4xx) of a request none of whose calls was lost means that it   *)
(* did nothing, but for a verification code, which a refused request may   *)
(* have used up; after a lost call it may be the reply to a repetition.    *)
AnswersTrue ==
    \A h \in Made :
        /\ answer[h] = 200 => \/ Happened(h)
                              \/ \E g \in Made : UnderOneKey(g, h) /\ took[g] > 0
        /\ answer[h] \in 400..499 /\ lost[h] = 0 /\ req[h].route # "verify" => took[h] = 0

(* A rotated refresh token is presented again, and all sessions of the     *)
(* user are revoked, only if the client sent it twice or a call was lost:  *)
(* the gateway's retries do not do it by themselves.                       *)
AlarmNeedsLoss ==
    \A h \in Made : req[h].op \in revoked => \E g \in Same(h) : lost[g] > 0 \/ g # h

(* Every request gets an answer, even if no replica ever replies.          *)
Answered == <>(\A h \in Requests : stage[h] = "done")

==============================================================================
