----------------------------- MODULE UserSessions -----------------------------
(***************************************************************************)
(* One user's sessions in the user service: login with its lockout and its *)
(* limit of sessions, refresh with rotation and reuse detection, and the   *)
(* three logouts, as the gateway calls them.  A session is a row of        *)
(* refresh_tokens; every statement on it and on users is a transaction of  *)
(* its own (IncrementFailedLogin is one with a plain read and a write), so *)
(* calls interleave between any two, on one replica or several.  The       *)
(* errors of most statements are dropped.  The gateway repeats a call      *)
(* whose connection breaks, whatever the call is.                          *)
(***************************************************************************)
EXTENDS Naturals, Sequences, FiniteSets

CONSTANTS
    Devices,
    Calls,        \* calls the user's clients can have under way at once
    Limit,        \* sessionLimitForRole: 3 for a rider, 1 for a driver
    LockAfter,    \* wrong passwords that lock the account: 5
    RetryMax,     \* retry_max of the gateway's clients
    MaxCalls,     \* bound: calls
    MaxFaults,    \* bound: failing statements and broken connections
    MaxLapses     \* bound: expired tokens and locks that run out

ASSUME DevicesAssumption == Devices # {}
ASSUME LimitsAssumption == Limit \in Nat \ {0} /\ LockAfter \in Nat \ {0} /\ RetryMax \in Nat

VARIABLES
    sessions, \* rows of refresh_tokens in the order of created_at
    account,  \* failed_login_count, and whether locked_until is ahead
    held,     \* [Devices -> row of the token the client on it has, or 0]
    call,     \* [Calls -> the call and the statement it is at]
    made, faults, lapses, \* how often, for the bounds
    tally     \* what the properties remember of the past

vars == <<sessions, account, held, call, made, faults, lapses, tally>>

NoCall == [op |-> "none", stage |-> "idle", device |-> CHOOSE d \in Devices : TRUE, token |-> 0,
           right |-> FALSE, seen |-> 0, victims |-> {}, tries |-> 0, began |-> 0, new |-> 0]

(* ended: why a session was revoked; shown: refreshes that presented its   *)
(* token; root: how many logouts of all sessions had been when the login   *)
(* behind it began; late: such a logout came between the start of a call   *)
(* on the way from that login and the row it inserted.                     *)
(* n calls were made before.                                               *)
InitAfter(n) ==
    /\ sessions = <<>>
    /\ account = [failed |-> 0, locked |-> FALSE]
    /\ held = [d \in Devices |-> 0]
    /\ call = [c \in Calls |-> NoCall]
    /\ made = n /\ faults = 0 /\ lapses = 0
    /\ tally = [wrong |-> 0, raced |-> FALSE, unpruned |-> FALSE, logouts |-> 0]

Init == InitAfter(0)

Rows == DOMAIN sessions
Unrevoked == {i \in Rows : sessions[i].ended = "no"}
Active == {i \in Unrevoked : ~sessions[i].expired}
OfDevice(d) == {i \in Rows : sessions[i].device = d}
(* UPDATE refresh_tokens SET revoked_at for the rows of S.                 *)
Revoked(S, why) ==
    [i \in Rows |-> IF i \in S \cap Unrevoked THEN [sessions[i] EXCEPT !.ended = why] ELSE sessions[i]]

------------------------------------------------------------------------------
(* Calls, and the client's side of them                                    *)

(* Register and verify are the calls of UserAccounts.                      *)
FirstStage(op) == CASE op = "login" -> "user"
                    [] op = "register" -> "taken"
                    [] op = "verify" -> "find"
                    [] op \in {"refresh", "logout"} -> "lookup"
                    [] op = "logout_all" -> "all"
                    [] op = "logout_device" -> "device"

Start(c, op, d, token, right) ==
    /\ call[c].stage = "idle"
    /\ made < MaxCalls
    /\ made' = made + 1
    /\ call' = [call EXCEPT ![c] =
         [NoCall EXCEPT !.op = op, !.stage = FirstStage(op), !.device = d, !.token = token,
                        !.right = right, !.began = tally.logouts]]
    /\ UNCHANGED <<sessions, account, held, faults, lapses, tally>>

(* A client presents the token of its device; after its device id changed, *)
(* that of another.                                                        *)
Request(c) ==
    \E d \in Devices :
        \/ \E right \in BOOLEAN : Start(c, "login", d, 0, right)
        \/ \E e \in Devices : held[e] # 0 /\ Start(c, "refresh", d, held[e], FALSE)
        \/ held[d] # 0 /\ Start(c, "logout", d, held[d], FALSE)
        \/ Start(c, "logout_device", d, 0, FALSE)
        \/ d = NoCall.device /\ Start(c, "logout_all", d, 0, FALSE)

(* The answer arrives: tokens replace what the device had.                 *)
Deliver(c) ==
    /\ call[c].stage = "reply"
    /\ held' = IF call[c].new = 0 THEN held ELSE [held EXCEPT ![call[c].device] = call[c].new]
    /\ call' = [call EXCEPT ![c] = NoCall]
    /\ UNCHANGED <<sessions, account, made, faults, lapses, tally>>

(* The connection breaks, which ends the handler's context: the gateway    *)
(* sends the same request again, until it runs out of retries or time.     *)
Break(c) ==
    /\ call[c].stage # "idle"
    /\ faults < MaxFaults
    /\ faults' = faults + 1
    /\ \/ /\ call[c].tries < RetryMax
          /\ call' = [call EXCEPT ![c] =
               [NoCall EXCEPT !.op = call[c].op, !.stage = FirstStage(call[c].op),
                 !.device = call[c].device, !.token = call[c].token, !.right = call[c].right,
                 !.tries = call[c].tries + 1, !.began = tally.logouts]]
       \/ call' = [call EXCEPT ![c] = NoCall]
    /\ UNCHANGED <<sessions, account, held, made, lapses, tally>>

Goto(c, stage) == call' = [call EXCEPT ![c].stage = stage]

(* A statement whose failure the handler does not look at, or that is its  *)
(* last: it takes effect or not, and the handler goes on.                  *)
Statement(c, next, rows, user, past) ==
    /\ Goto(c, next)
    /\ \/ sessions' = rows /\ account' = user /\ tally' = past /\ UNCHANGED faults
       \/ /\ faults < MaxFaults
          /\ faults' = faults + 1
          /\ tally' = [tally EXCEPT !.unpruned = @ \/ call[c].stage = "prune"]
          /\ UNCHANGED <<sessions, account>>
    /\ UNCHANGED <<held, made, lapses>>

------------------------------------------------------------------------------
(* Login                                                                   *)

(* The row of the user as it is now decides whether the login goes on.     *)
ReadUser(c) ==
    /\ call[c].stage = "user"
    /\ Goto(c, CASE account.locked -> "reply"
                 [] ~account.locked /\ call[c].right -> "reset"
                 [] OTHER -> "count")
    /\ UNCHANGED <<sessions, account, held, made, faults, lapses, tally>>

(* IncrementFailedLogin reads the count without a lock ...                 *)
ReadCount(c) ==
    /\ call[c].stage = "count"
    /\ call' = [call EXCEPT ![c].stage = "write", ![c].seen = account.failed]
    /\ UNCHANGED <<sessions, account, held, made, faults, lapses, tally>>

(* Mutant of Locks: one wrong password too many.                           *)
LocksLate(count) == count > LockAfter
Locks(count) == count >= LockAfter

(* ... and writes one more than it read.                                   *)
WriteCount(c) ==
    LET count == call[c].seen + 1
    IN  /\ call[c].stage = "write"
        /\ Statement(c, "reply", sessions,
             [failed |-> count, locked |-> account.locked \/ Locks(count)],
             [tally EXCEPT !.wrong = IF @ < LockAfter THEN @ + 1 ELSE @,
                           !.raced = @ \/ account.failed # call[c].seen])

(* ResetFailedLogin: count and lock, whoever set them meanwhile.           *)
Reset(c) ==
    /\ call[c].stage = "reset"
    /\ Statement(c, "list", sessions, [failed |-> 0, locked |-> FALSE],
                 [tally EXCEPT !.wrong = 0, !.raced = FALSE])

(* Mutant of Keep: the limit is applied before the new session.            *)
KeepLimit == Limit
(* What RevokeOldestSessions leaves.                                       *)
Keep == Limit - 1

(* RevokeOldestSessions first selects ...                                  *)
ListOldest(c) ==
    LET newer(i) == Cardinality({j \in Active : j > i})
    IN  /\ call[c].stage = "list"
        /\ call' = [call EXCEPT ![c].stage = "prune", ![c].seen = Len(sessions),
                                ![c].victims = {i \in Active : newer(i) >= Keep}]
        /\ UNCHANGED <<sessions, account, held, made, faults, lapses, tally>>

(* ... and then revokes what it found.                                     *)
Prune(c) ==
    /\ call[c].stage = "prune"
    /\ Statement(c, "device", Revoked(call[c].victims, "other"), account, tally)

(* RevokeDeviceSessions, before the new session or as logout_device.       *)
RevokeDevice(c) ==
    /\ call[c].stage = "device"
    /\ Statement(c, IF call[c].op = "login" THEN "insert" ELSE "reply",
                 Revoked(OfDevice(call[c].device), "other"), account, tally)

(* The unique index admits one unrevoked row per device.                   *)
MayInsert(d) == OfDevice(d) \cap Unrevoked = {}

(* issueTokens                                                             *)
Insert(c) ==
    LET parent == call[c].token
        late == call[c].began < tally.logouts
        row == [device |-> call[c].device, ended |-> "no", expired |-> FALSE, shown |-> 0,
                root |-> IF parent = 0 THEN call[c].began ELSE sessions[parent].root,
                late |-> late \/ (parent # 0 /\ sessions[parent].late)]
    IN  /\ call[c].stage = "insert"
        /\ \/ /\ MayInsert(call[c].device)
              /\ sessions' = Append(sessions, row)
              /\ call' = [call EXCEPT ![c].stage = "reply", ![c].new = Len(sessions) + 1]
              /\ UNCHANGED faults
           \/ /\ ~MayInsert(call[c].device)
              /\ Goto(c, "reply")
              /\ UNCHANGED <<sessions, faults>>
           \/ /\ faults < MaxFaults
              /\ faults' = faults + 1
              /\ Goto(c, "reply")
              /\ UNCHANGED sessions
        /\ UNCHANGED <<account, held, made, lapses, tally>>

------------------------------------------------------------------------------
(* Refresh and the logouts                                                 *)

(* Mutant of Valid: a revoked token is as good.                            *)
ValidUnlessExpired(i, d) == sessions[i].device = d /\ ~sessions[i].expired
(* GetRefreshTokenForDevice                                                *)
Valid(i, d) == sessions[i].device = d /\ i \in Active

(* A refresh takes any error of the query for a token that is not valid.   *)
Lookup(c) ==
    LET i == call[c].token
        next(found) == CASE found -> "revoke"
                         [] ~found /\ call[c].op = "refresh" -> "reuse"
                         [] OTHER -> "reply"
    IN  /\ call[c].stage = "lookup"
        /\ \/ Goto(c, next(Valid(i, call[c].device))) /\ UNCHANGED faults
           \/ faults < MaxFaults /\ faults' = faults + 1 /\ Goto(c, next(FALSE))
        /\ sessions' = IF call[c].op = "refresh"
                       THEN [sessions EXCEPT ![i].shown = IF @ < 2 THEN @ + 1 ELSE @] ELSE sessions
        /\ UNCHANGED <<account, held, made, lapses, tally>>

(* RevokeRefreshToken; the number of rows it changed is not looked at.     *)
Revoke(c) ==
    /\ call[c].stage = "revoke"
    /\ IF call[c].op = "refresh"
       THEN Statement(c, "insert", Revoked({call[c].token}, "exchange"), account, tally)
       ELSE Statement(c, "reply", Revoked({call[c].token}, "other"), account, tally)

(* Mutant of Reused: a token that is no longer valid counts as reused.     *)
Stale(i) == sessions[i].ended # "no" \/ sessions[i].expired
(* A revoked token is presented.                                           *)
Reused(i) == sessions[i].ended # "no"

(* A token that is not valid: was it reused, is it another device's?  A    *)
(* first query that fails leaves the second question.                      *)
DetectReuse(c) ==
    LET i == call[c].token
        moved == IF sessions[i].device # call[c].device THEN "foreign" ELSE "reply"
    IN  /\ call[c].stage = "reuse"
        /\ \/ Reused(i) /\ Goto(c, "alarm") /\ UNCHANGED faults
           \/ ~Reused(i) /\ Goto(c, moved) /\ UNCHANGED faults
           \/ faults < MaxFaults /\ faults' = faults + 1 /\ Goto(c, moved)
        /\ UNCHANGED <<sessions, account, held, made, lapses, tally>>

(* RevokeAllRefreshTokens: logout_all, or reuse detection, which asks for  *)
(* it a second time if the device is another one too.                      *)
RevokeAll(c) ==
    LET foreign == call[c].stage = "alarm" /\ sessions[call[c].token].device # call[c].device
    IN  /\ call[c].stage \in {"all", "alarm", "foreign"}
        /\ Statement(c, IF foreign THEN "foreign" ELSE "reply", Revoked(Rows, "other"), account,
                     [tally EXCEPT !.logouts = @ + 1])

------------------------------------------------------------------------------
(* Time                                                                    *)

(* All tokens live equally long: the oldest expires first.                 *)
Expire ==
    /\ lapses < MaxLapses
    /\ lapses' = lapses + 1
    /\ \E i \in Rows : /\ ~sessions[i].expired
                       /\ \A j \in 1..(i - 1) : sessions[j].expired
                       /\ sessions' = [sessions EXCEPT ![i].expired = TRUE]
    /\ UNCHANGED <<account, held, call, made, faults, tally>>

(* locked_until passes; the count stays where it was.                      *)
LockEnds ==
    /\ account.locked
    /\ lapses < MaxLapses
    /\ lapses' = lapses + 1
    /\ account' = [account EXCEPT !.locked = FALSE]
    /\ tally' = [tally EXCEPT !.wrong = IF @ = LockAfter THEN LockAfter - 1 ELSE @]
    /\ UNCHANGED <<sessions, held, call, made, faults>>

Statements(c) ==
    \/ ReadUser(c) \/ ReadCount(c) \/ WriteCount(c) \/ Reset(c)
    \/ ListOldest(c) \/ Prune(c) \/ RevokeDevice(c) \/ Insert(c)
    \/ Lookup(c) \/ Revoke(c) \/ DetectReuse(c) \/ RevokeAll(c)

Next ==
    \/ \E c \in Calls : Request(c) \/ Deliver(c) \/ Break(c) \/ Statements(c)
    \/ Expire
    \/ LockEnds

Spec == Init /\ [][Next]_vars

------------------------------------------------------------------------------
(* Properties                                                              *)

SessionRow == [device : Devices, ended : {"no", "exchange", "other"}, expired : BOOLEAN,
               shown : 0..2, root : Nat, late : BOOLEAN]
CallRecord ==
    [op : {"none", "login", "refresh", "logout", "logout_all", "logout_device", "register", "verify"},
     stage : {"idle", "user", "count", "write", "reset", "list", "prune", "device", "insert",
              "lookup", "revoke", "reuse", "alarm", "foreign", "all", "reply",
              "taken", "create", "code", "find", "consume", "target", "mark"},
     device : Devices, token : Nat, right : BOOLEAN, seen : Nat, victims : SUBSET Nat,
     tries : Nat, began : Nat, new : Nat]

(* A call is at a statement of its own operation and refers to rows.       *)
ProperCall(r, rows, logouts) ==
    LET at(op, stages) == r.op = op => r.stage \in stages
    IN  /\ at("none", {"idle"})
        /\ at("login", {"user", "count", "write", "reset", "list", "prune", "device", "insert", "reply"})
        /\ at("refresh", {"lookup", "revoke", "insert", "reuse", "alarm", "foreign", "reply"})
        /\ at("logout", {"lookup", "revoke", "reply"})
        /\ at("logout_all", {"all", "reply"})
        /\ at("logout_device", {"device", "reply"})
        /\ at("register", {"taken", "create", "code", "insert", "reply"})
        /\ at("verify", {"find", "consume", "target", "mark", "reply"})
        /\ r.token \in rows \cup {0} /\ (r.token # 0) = (r.op \in {"refresh", "logout"})
        /\ r.new \in rows \cup {0}
        /\ r.victims \subseteq rows
        /\ r.began <= logouts

(* The rows satisfy the table's unique index.                              *)
TypeOK ==
    /\ sessions \in Seq(SessionRow)
    /\ \A i, j \in Unrevoked : sessions[i].device = sessions[j].device => i = j
    /\ account \in [failed : Nat, locked : BOOLEAN]
    /\ held \in [Devices -> Rows \cup {0}]
    /\ call \in [Calls -> CallRecord]
    /\ \A c \in Calls : ProperCall(call[c], Rows, tally.logouts)
    /\ tally \in [wrong : 0..LockAfter, raced : BOOLEAN, unpruned : BOOLEAN, logouts : Nat]

(* When a login has its session, no more sessions are active than the      *)
(* limit and those that others created since it looked: races exceed the   *)
(* limit, and the next login that runs alone restores it.                  *)
SessionLimit ==
    \A c \in Calls : call[c].op = "login" /\ call[c].new # 0 /\ ~tally.unpruned =>
        Cardinality(Active) <= Limit + (Len(sessions) - call[c].seen - 1)

(* As long as no increment was lost to a race, the account is locked once  *)
(* LockAfter wrong passwords were counted since the last login, and again  *)
(* at the first one after a lock that ran out.                             *)
LocksInTime == ~tally.raced /\ tally.wrong = LockAfter => account.locked

(* After all sessions were revoked, none descends from an earlier login    *)
(* but through a call that was already under way: a refresh that begins    *)
(* later cannot bring a session back.                                      *)
LoggedOutStays ==
    \A i \in Active : sessions[i].late \/ sessions[i].root = tally.logouts

(* Reuse detection, which ends all the user's sessions, is raised only for *)
(* a token presented by another device, presented a second time after it   *)
(* was exchanged (by a retry, too), or revoked by a logout or the limit of *)
(* sessions: never for one that expired or that lost a race unpresented.   *)
AlarmIsEarned ==
    \A c \in Calls : call[c].stage \in {"alarm", "foreign"} =>
        LET s == sessions[call[c].token]
        IN  \/ s.device # call[c].device
            \/ s.ended = "exchange" /\ s.shown > 1
            \/ s.ended = "other"
==============================================================================
