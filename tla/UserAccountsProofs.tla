-------------------------- MODULE UserAccountsProofs --------------------------
(***************************************************************************)
(* What the runs check of registration, verification and sessions on a     *)
(* small instance, for any number of devices, calls, retries and failures. *)
(***************************************************************************)
EXTENDS UserAccounts, SequenceTheorems, FiniteSetTheorems, WellFoundedInduction, TLAPS

(* ------------------------- inductive invariants ------------------------ *)

(* Without a race the count of the account is at least what was counted.   *)
LockInv ==
    ~tally.raced =>
        /\ account.failed >= tally.wrong
        /\ tally.wrong = LockAfter => account.locked

(* A call that is about to insert, or is on its way there, descends from a *)
(* login of now, unless it began before the last logout.                   *)
Descends(c) ==
    call[c].stage \in {"revoke", "insert"} /\ call[c].token # 0 /\ call[c].began = tally.logouts =>
        sessions[call[c].token].late \/ sessions[call[c].token].root = tally.logouts

LogoutInv == LoggedOutStays /\ \A c \in Calls : Descends(c)

(* The refreshes that have presented their token and not yet exchanged it. *)
Presents(c) == call[c].op = "refresh" /\ call[c].stage \in {"revoke", "reuse", "alarm", "foreign"}

Token(c) == sessions[call[c].token]

AlarmInv ==
    /\ \A c \in Calls : Presents(c) => Token(c).shown >= 1
    /\ \A c, d \in Calls :
          Presents(c) /\ Presents(d) /\ call[c].token = call[d].token /\ c # d => Token(c).shown >= 2
    /\ \A i \in Rows : sessions[i].ended = "exchange" => sessions[i].shown >= 1
    /\ \A c \in Calls : Presents(c) /\ Token(c).ended = "exchange" => Token(c).shown >= 2
    /\ \A c \in Calls : call[c].stage = "alarm" => Token(c).ended # "no"
    /\ \A c \in Calls : call[c].stage = "foreign" => Token(c).device # call[c].device

(* What the code is while the statements around it run.                    *)
CodeInv ==
    /\ users = 0 => code = "none" /\ ~verified
    /\ \A c \in Calls : At(c, "code") => users = 1 /\ code = "none"
    /\ \A c, d \in Calls : At(c, "code") /\ At(d, "code") => c = d
    /\ \A c \in Calls : At(c, "consume") => code # "none"
    /\ \A c \in Calls : At(c, "target") \/ At(c, "mark") => code = "consumed"
    /\ \A c \in Calls : At(c, "mark") => proven
    /\ verified => proven /\ code = "consumed"

Telling(c) == call[c].op = "register" /\ (At(c, "insert") \/ (At(c, "reply") /\ call[c].new # 0))

(* Who sees to the verification next, for every state of the code.         *)
HopeInv ==
    /\ code = "none" /\ users = 1 => spoilt # {} \/ \E c \in Calls : At(c, "code")
    /\ code = "issued" => known \/ spoilt # {} \/ \E c \in Calls : Telling(c)
    /\ code = "consumed" => verified \/ spoilt # {} \/ \E c \in Calls : At(c, "target") \/ At(c, "mark")
    /\ code = "expired" => spoilt # {}

(* The sessions that a login saw and that are still active.                *)
Seen(c) == {i \in Active : i <= call[c].seen}
Looked(c) == call[c].op = "login" /\ (call[c].stage \in {"device", "insert"} \/ call[c].new # 0)

LimitOf(c) ==
    /\ At(c, "prune") \/ Looked(c) => call[c].seen <= Len(sessions)
    /\ At(c, "prune") => Cardinality(Seen(c) \ call[c].victims) < Limit
    /\ Looked(c) /\ ~tally.unpruned => Cardinality(Seen(c)) < Limit
    /\ call[c].new # 0 => At(c, "reply")

LimitInv == \A c \in Calls : LimitOf(c)

(* -------------------------------- types -------------------------------- *)

SessionsFit ==
    /\ sessions \in Seq(SessionRow)
    /\ \A i, j \in Unrevoked : sessions[i].device = sessions[j].device => i = j

AccountType == [failed : Nat, locked : BOOLEAN]
TallyType == [wrong : 0..LockAfter, raced : BOOLEAN, unpruned : BOOLEAN, logouts : Nat]

(* What may become of a row: only Append adds one, and nothing removes one. *)
Ages(old, new) ==
    /\ new.device = old.device /\ new.root = old.root /\ new.late = old.late
    /\ old.expired => new.expired
    /\ old.ended # "no" => new.ended = old.ended
    /\ new.shown >= old.shown

RowsAge == Rows' = Rows /\ \A i \in Rows : Ages(sessions[i], sessions'[i])

LEMMA FunctionIsSeq ==
  ASSUME NEW S, NEW n \in Nat, NEW f \in [1..n -> S]
  PROVE  f \in Seq(S)
OBVIOUS

LEMMA RowsRange ==
  ASSUME SessionsFit
  PROVE  /\ Len(sessions) \in Nat /\ Rows = 1..Len(sessions)
         /\ \A i \in Rows : sessions[i] \in SessionRow
BY DEF SessionsFit, Rows

(* Statements that write columns of rows leave the table well formed.      *)
LEMMA AgedRows ==
  ASSUME SessionsFit, sessions' \in [Rows -> SessionRow],
         \A i \in Rows : Ages(sessions[i], sessions'[i])
  PROVE  SessionsFit' /\ RowsAge
<1>1. sessions' \in Seq(SessionRow)
  BY RowsRange, FunctionIsSeq
<1>2. Rows' = Rows
  BY DEF Rows
<1>3. Unrevoked' \subseteq Unrevoked
  BY <1>2 DEF Unrevoked, Ages
<1>4. \A i, j \in Unrevoked' : sessions'[i].device = sessions'[j].device => i = j
  BY <1>2, <1>3 DEF SessionsFit, Ages, Unrevoked
<1> QED BY <1>1, <1>2, <1>4 DEF SessionsFit, RowsAge

LEMMA RevokedAges ==
  ASSUME SessionsFit, NEW S, NEW why \in {"exchange", "other"}, sessions' = Revoked(S, why)
  PROVE  SessionsFit' /\ RowsAge
<1>1. \A i \in Rows : sessions[i] \in SessionRow
  BY RowsRange
<1>2. \A i \in Rows : sessions'[i] \in SessionRow /\ Ages(sessions[i], sessions'[i])
  <2> SUFFICES ASSUME NEW i \in Rows
               PROVE  sessions'[i] \in SessionRow /\ Ages(sessions[i], sessions'[i])
    OBVIOUS
  <2>1. CASE i \in S \cap Unrevoked
    BY <1>1, <2>1 DEF Revoked, SessionRow, Ages, Unrevoked
  <2>2. CASE i \notin S \cap Unrevoked
    BY <1>1, <2>2 DEF Revoked, SessionRow, Ages
  <2> QED BY <2>1, <2>2
<1>3. sessions' \in [Rows -> SessionRow]
  BY <1>2 DEF Revoked
<1> QED BY <1>2, <1>3, AgedRows

LEMMA SameRows ==
  ASSUME SessionsFit, UNCHANGED sessions
  PROVE  SessionsFit' /\ RowsAge
<1>1. \A i \in Rows : sessions[i].shown \in 0..2
  BY RowsRange DEF SessionRow
<1> QED BY <1>1 DEF SessionsFit, RowsAge, Rows, Unrevoked, Ages

LEMMA AddedRow ==
  ASSUME SessionsFit, NEW row \in SessionRow, MayInsert(row.device), sessions' = Append(sessions, row)
  PROVE  /\ SessionsFit'
         /\ Rows' = Rows \cup {Len(sessions) + 1} /\ Len(sessions) + 1 \notin Rows
         /\ Len(sessions') = Len(sessions) + 1
         /\ \A i \in Rows : sessions'[i] = sessions[i]
         /\ sessions'[Len(sessions) + 1] = row
<1>1. /\ sessions' \in Seq(SessionRow) /\ Len(sessions') = Len(sessions) + 1
      /\ \A i \in Rows : sessions'[i] = sessions[i]
      /\ sessions'[Len(sessions) + 1] = row
  BY RowsRange DEF SessionsFit
<1>2. Rows' = Rows \cup {Len(sessions) + 1} /\ Len(sessions) + 1 \notin Rows
  BY <1>1, RowsRange DEF Rows
<1>3. \A i \in Rows : row.device = sessions[i].device => i \notin Unrevoked
  BY DEF MayInsert, OfDevice
<1>4. \A i \in Rows : i \in Unrevoked' => i \in Unrevoked
  BY <1>1, <1>2 DEF Unrevoked
<1>5. \A i, j \in Unrevoked' : sessions'[i].device = sessions'[j].device => i = j
  <2> SUFFICES ASSUME NEW i \in Unrevoked', NEW j \in Unrevoked', sessions'[i].device = sessions'[j].device
               PROVE  i = j
    OBVIOUS
  <2>1. i \in Rows' /\ j \in Rows'
    BY DEF Unrevoked
  <2>2. CASE i \in Rows /\ j \in Rows
    BY <1>1, <1>4, <2>2 DEF SessionsFit
  <2>3. CASE i \notin Rows \/ j \notin Rows
    BY <1>1, <1>2, <1>3, <1>4, <2>1, <2>3
  <2> QED BY <2>2, <2>3
<1> QED BY <1>1, <1>2, <1>5 DEF SessionsFit

(* A step moves one call, to a record that refers to the rows after it,    *)
(* and leaves the tables well formed.                                      *)
MovesTo(c, r) ==
    call' = [call EXCEPT ![c] = r] /\ r \in CallRecord /\ ProperCall(r, Rows', tally'.logouts)

TablesFit ==
    /\ SessionsFit' /\ Rows \subseteq Rows'
    /\ account' \in AccountType /\ held' \in [Devices -> Rows' \cup {0}]
    /\ tally' \in TallyType /\ tally'.logouts >= tally.logouts

LEMMA TypeStep ==
  ASSUME TypeOK, NEW c \in Calls, NEW r, MovesTo(c, r), TablesFit
  PROVE  TypeOK'
<1>1. call' \in [Calls -> CallRecord] /\ call'[c] = r /\ \A d \in Calls : d # c => call'[d] = call[d]
  BY DEF TypeOK, MovesTo
<1>2. tally.logouts \in Nat /\ tally'.logouts \in Nat /\ tally'.logouts >= tally.logouts
  BY DEF TypeOK, TablesFit, TallyType
<1>3. \A d \in Calls : ProperCall(call'[d], Rows', tally'.logouts)
  <2> SUFFICES ASSUME NEW d \in Calls PROVE ProperCall(call'[d], Rows', tally'.logouts)
    OBVIOUS
  <2>1. CASE d = c
    BY <1>1, <2>1 DEF MovesTo
  <2>2. CASE d # c
    <3>1. ProperCall(call[d], Rows, tally.logouts) /\ call[d] \in CallRecord
      BY DEF TypeOK
    <3>2. call[d].began \in Nat
      BY <3>1 DEF CallRecord
    <3> QED BY <1>1, <1>2, <2>2, <3>1, <3>2 DEF ProperCall, TablesFit
  <2> QED BY <2>1, <2>2
<1> QED BY <1>1, <1>3 DEF TypeOK, TablesFit, SessionsFit, AccountType, TallyType

At1(c, stage) == [call[c] EXCEPT !.stage = stage]
Fit(r) == r \in CallRecord /\ ProperCall(r, Rows, tally.logouts)

LEMMA CallFits ==
  ASSUME TypeOK, NEW c \in Calls
  PROVE  Fit(call[c])
BY DEF TypeOK, Fit

LEMMA GotoType ==
  ASSUME TypeOK, NEW c \in Calls, NEW next, Goto(c, next), Fit(At1(c, next)),
         SessionsFit', RowsAge, account' \in AccountType, held' = held, tally' \in TallyType,
         tally'.logouts >= tally.logouts
  PROVE  TypeOK'
<1> DEFINE r == At1(c, next)
<1>1. call' = [call EXCEPT ![c] = r] /\ r \in CallRecord
  BY DEF Goto, At1, Fit
<1>2. Rows' = Rows /\ held' \in [Devices -> Rows' \cup {0}]
  BY DEF RowsAge, TypeOK
<1>3. r.began \in Nat /\ tally.logouts \in Nat /\ tally'.logouts \in Nat
  BY <1>1 DEF CallRecord, TypeOK, TallyType
<1>4. ProperCall(r, Rows', tally'.logouts)
  BY <1>2, <1>3 DEF Fit, ProperCall, At1
<1> HIDE DEF r
<1>5. MovesTo(c, r) /\ TablesFit
  BY <1>1, <1>2, <1>4 DEF MovesTo, TablesFit
<1> QED BY <1>5, TypeStep

LEMMA StatementType ==
  ASSUME TypeOK, NEW c \in Calls, NEW next, NEW rows, NEW user \in AccountType, NEW past \in TallyType,
         Statement(c, next, rows, user, past), Fit(At1(c, next)),
         sessions' = rows => SessionsFit' /\ RowsAge, past.logouts >= tally.logouts
  PROVE  TypeOK' /\ RowsAge
<1>1. SessionsFit /\ account \in AccountType /\ tally \in TallyType
  BY DEF TypeOK, SessionsFit, AccountType, TallyType
<1>2. SessionsFit' /\ RowsAge
  BY <1>1, SameRows DEF Statement
<1>3. account' \in AccountType /\ held' = held /\ Goto(c, next)
  BY <1>1 DEF Statement
<1>4. tally' \in TallyType /\ tally'.logouts >= tally.logouts
  <2>1. CASE tally' = past
    BY <2>1
  <2>2. CASE tally' = [tally EXCEPT !.unpruned = @ \/ call[c].stage = "prune"]
    <3> DEFINE b == tally.unpruned \/ call[c].stage = "prune"
    <3>1. b \in BOOLEAN /\ tally' = [tally EXCEPT !.unpruned = b]
      BY <2>2
    <3> HIDE DEF b
    <3> QED BY <1>1, <3>1 DEF TallyType
  <2> QED BY <2>1, <2>2 DEF Statement
<1> QED BY <1>2, <1>3, <1>4, GotoType

(* A step that moves one call and touches no table.                        *)
LEMMA QuietType ==
  ASSUME TypeOK, NEW c \in Calls, NEW next, Goto(c, next), Fit(At1(c, next)),
         UNCHANGED <<sessions, account, held, tally>>
  PROVE  TypeOK' /\ RowsAge
<1>1. SessionsFit /\ account \in AccountType /\ tally \in TallyType /\ tally.logouts \in Nat
  BY DEF TypeOK, SessionsFit, AccountType, TallyType
<1>2. SessionsFit' /\ RowsAge
  BY <1>1, SameRows
<1> QED BY <1>1, <1>2, GotoType

LEMMA FreshCall ==
  ASSUME TypeOK
  PROVE  Fit(NoCall)
<1>1. NoCall.device \in Devices
  BY DevicesAssumption DEF NoCall
<1>2. tally.logouts \in Nat
  BY DEF TypeOK
<1> QED BY <1>1, <1>2 DEF Fit, NoCall, CallRecord, ProperCall

LEMMA StartType ==
  ASSUME TypeOK, NEW c \in Calls, NEW op \in {"login", "refresh", "logout", "logout_all", "logout_device", "register", "verify"},
         NEW d \in Devices, NEW k \in Rows \cup {0}, NEW right \in BOOLEAN,
         (k # 0) = (op \in {"refresh", "logout"}), Start(c, op, d, k, right)
  PROVE  TypeOK' /\ RowsAge
<1> DEFINE r == [NoCall EXCEPT !.op = op, !.stage = FirstStage(op), !.device = d, !.token = k,
                        !.right = right, !.began = tally.logouts]
<1>1. SessionsFit /\ account \in AccountType /\ tally \in TallyType /\ tally.logouts \in Nat
  BY DEF TypeOK, SessionsFit, AccountType, TallyType
<1>2. SessionsFit' /\ RowsAge /\ account' = account /\ tally' = tally /\ held' = held
  BY <1>1, SameRows DEF Start
<1>3. k \in Nat
  BY <1>1, RowsRange
<1>4. r \in CallRecord
  BY <1>1, <1>3 DEF NoCall, CallRecord, FirstStage
<1>5. ProperCall(r, Rows, tally.logouts)
  BY <1>1 DEF NoCall, ProperCall, FirstStage
<1>6. Rows' = Rows
  BY <1>2 DEF RowsAge
<1>7. ProperCall(r, Rows', tally'.logouts)
  BY <1>2, <1>5, <1>6 DEF ProperCall
<1>8. call' = [call EXCEPT ![c] = r]
  BY DEF Start
<1>9. held' \in [Devices -> Rows' \cup {0}]
  BY <1>2, <1>6 DEF TypeOK
<1>10. MovesTo(c, r)
  BY <1>4, <1>7, <1>8 DEF MovesTo
<1>11. TablesFit
  BY <1>1, <1>2, <1>6, <1>9 DEF TablesFit
<1> HIDE DEF r
<1> QED BY <1>2, <1>10, <1>11, TypeStep

LEMMA RequestType ==
  ASSUME TypeOK, NEW c \in Calls, Request(c)
  PROVE  TypeOK' /\ RowsAge
<1>1. PICK d \in Devices :
        \/ \E right \in BOOLEAN : Start(c, "login", d, 0, right)
        \/ \E e \in Devices : held[e] # 0 /\ Start(c, "refresh", d, held[e], FALSE)
        \/ held[d] # 0 /\ Start(c, "logout", d, held[d], FALSE)
        \/ Start(c, "logout_device", d, 0, FALSE)
        \/ Start(c, "logout_all", d, 0, FALSE)
  BY DEF Request
<1>2. \A e \in Devices : held[e] \in Rows \cup {0}
  BY DEF TypeOK
<1>3. CASE \E right \in BOOLEAN : Start(c, "login", d, 0, right)
  BY <1>3, StartType
<1>4. CASE \E e \in Devices : held[e] # 0 /\ Start(c, "refresh", d, held[e], FALSE)
  BY <1>2, <1>4, StartType
<1>5. CASE held[d] # 0 /\ Start(c, "logout", d, held[d], FALSE)
  BY <1>2, <1>5, StartType
<1>6. CASE Start(c, "logout_device", d, 0, FALSE)
  <2>1. \E right \in BOOLEAN : Start(c, "logout_device", d, 0, right)
    BY <1>6
  <2> QED BY <2>1, StartType
<1>7. CASE Start(c, "logout_all", d, 0, FALSE)
  <2>1. \E right \in BOOLEAN : Start(c, "logout_all", d, 0, right)
    BY <1>7
  <2> QED BY <2>1, StartType
<1> QED BY <1>1, <1>3, <1>4, <1>5, <1>6, <1>7

LEMMA DeliverType ==
  ASSUME TypeOK, NEW c \in Calls, Deliver(c)
  PROVE  TypeOK' /\ RowsAge
<1>1. SessionsFit /\ account \in AccountType /\ tally \in TallyType /\ tally.logouts \in Nat
  BY DEF TypeOK, SessionsFit, AccountType, TallyType
<1>2. SessionsFit' /\ RowsAge /\ account' = account /\ tally' = tally
  BY <1>1, SameRows DEF Deliver
<1>3. Rows' = Rows
  BY <1>2 DEF RowsAge
<1>4. call[c].new \in Rows \cup {0} /\ call[c].device \in Devices
  BY CallFits DEF Fit, ProperCall, CallRecord
<1>5. held' \in [Devices -> Rows' \cup {0}]
  BY <1>3, <1>4 DEF TypeOK, Deliver
<1>6. NoCall \in CallRecord /\ ProperCall(NoCall, Rows, tally.logouts)
  BY FreshCall DEF Fit
<1>7. ProperCall(NoCall, Rows', tally'.logouts)
  BY <1>2, <1>3, <1>6 DEF ProperCall, NoCall
<1>8. call' = [call EXCEPT ![c] = NoCall]
  BY DEF Deliver
<1>9. MovesTo(c, NoCall)
  BY <1>6, <1>7, <1>8 DEF MovesTo
<1>10. TablesFit
  BY <1>1, <1>2, <1>3, <1>5 DEF TablesFit
<1> QED BY <1>2, <1>9, <1>10, TypeStep

LEMMA BreakType ==
  ASSUME TypeOK, NEW c \in Calls, Break(c)
  PROVE  TypeOK' /\ RowsAge
<1> DEFINE r == [NoCall EXCEPT !.op = call[c].op, !.stage = FirstStage(call[c].op),
                 !.device = call[c].device, !.token = call[c].token, !.right = call[c].right,
                 !.tries = call[c].tries + 1, !.began = tally.logouts]
<1>1. SessionsFit /\ account \in AccountType /\ tally \in TallyType /\ tally.logouts \in Nat
  BY DEF TypeOK, SessionsFit, AccountType, TallyType
<1>2. SessionsFit' /\ RowsAge /\ account' = account /\ tally' = tally /\ held' = held
  BY <1>1, SameRows DEF Break
<1>3. Rows' = Rows /\ held' \in [Devices -> Rows' \cup {0}]
  BY <1>2 DEF RowsAge, TypeOK
<1>4. NoCall \in CallRecord /\ ProperCall(NoCall, Rows, tally.logouts)
  BY FreshCall DEF Fit
<1>5. ProperCall(NoCall, Rows', tally'.logouts)
  BY <1>2, <1>3, <1>4 DEF ProperCall, NoCall
<1>6. call[c] \in CallRecord /\ ProperCall(call[c], Rows, tally.logouts) /\ call[c].stage # "idle"
  BY CallFits DEF Fit, Break
<1>7. call[c].op # "none"
  BY <1>6 DEF ProperCall
<1>8. r \in CallRecord
  <2>1. PICK s \in {"user", "taken", "find", "lookup", "all", "device"} : s = FirstStage(call[c].op)
    BY <1>6, <1>7 DEF FirstStage, CallRecord
  <2>2. PICK o, d, k, w, n : /\ o = call[c].op /\ d = call[c].device /\ k = call[c].token
                             /\ w = call[c].right /\ n = call[c].tries + 1
    OBVIOUS
  <2>3. /\ o \in {"none", "login", "refresh", "logout", "logout_all", "logout_device", "register", "verify"}
        /\ d \in Devices /\ k \in Nat /\ w \in BOOLEAN /\ n \in Nat
    BY <1>6, <2>2 DEF CallRecord
  <2>4. r = [NoCall EXCEPT !.op = o, !.stage = s, !.device = d, !.token = k, !.right = w,
                           !.tries = n, !.began = tally.logouts]
    BY <2>1, <2>2
  <2> QED BY <1>1, <2>1, <2>3, <2>4 DEF NoCall, CallRecord
<1>9. ProperCall(r, Rows, tally.logouts)
  BY <1>1, <1>4, <1>6, <1>7 DEF NoCall, ProperCall, FirstStage, CallRecord
<1>10. ProperCall(r, Rows', tally'.logouts)
  BY <1>2, <1>3, <1>9 DEF ProperCall
<1>11. call' = [call EXCEPT ![c] = r] \/ call' = [call EXCEPT ![c] = NoCall]
  BY DEF Break
<1>12. MovesTo(c, r) \/ MovesTo(c, NoCall)
  BY <1>4, <1>5, <1>8, <1>10, <1>11 DEF MovesTo
<1>13. TablesFit
  BY <1>1, <1>2, <1>3 DEF TablesFit
<1> HIDE DEF r
<1> QED BY <1>2, <1>12, <1>13, TypeStep

(* Where a call may go from the statement it is at.                        *)
LEMMA StageFits ==
  ASSUME TypeOK, NEW c \in Calls
  PROVE  /\ call[c].stage = "user" => Fit(At1(c, "reset")) /\ Fit(At1(c, "count"))
         /\ call[c].stage = "write" => Fit(At1(c, "reply"))
         /\ call[c].stage = "reset" => Fit(At1(c, "list"))
         /\ call[c].stage = "prune" => Fit(At1(c, "device"))
         /\ call[c].stage = "device" /\ call[c].op = "login" => Fit(At1(c, "insert"))
         /\ call[c].stage = "lookup" => Fit(At1(c, "revoke"))
         /\ call[c].stage = "lookup" /\ call[c].op = "refresh" => Fit(At1(c, "reuse"))
         /\ call[c].stage = "revoke" /\ call[c].op = "refresh" => Fit(At1(c, "insert"))
         /\ call[c].stage = "reuse" => Fit(At1(c, "alarm")) /\ Fit(At1(c, "foreign"))
         /\ call[c].stage = "alarm" => Fit(At1(c, "foreign"))
         /\ call[c].stage = "taken" => Fit(At1(c, "create"))
         /\ call[c].stage = "create" => Fit(At1(c, "code"))
         /\ call[c].stage = "code" => Fit(At1(c, "insert"))
         /\ call[c].stage = "find" => Fit(At1(c, "consume"))
         /\ call[c].stage = "consume" => Fit(At1(c, "target"))
         /\ call[c].stage = "target" => Fit(At1(c, "mark"))
         /\ call[c].stage # "idle" => Fit(At1(c, "reply"))
<1>1. call[c] \in CallRecord /\ ProperCall(call[c], Rows, tally.logouts)
  BY CallFits DEF Fit
<1> DEFINE stages == {"idle", "user", "count", "write", "reset", "list", "prune", "device", "insert",
              "lookup", "revoke", "reuse", "alarm", "foreign", "all", "reply",
              "taken", "create", "code", "find", "consume", "target", "mark"}
<1>2. \A s \in stages : At1(c, s) \in CallRecord
  BY <1>1 DEF At1, CallRecord
<1>3. call[c].op \in {"none", "login", "refresh", "logout", "logout_all", "logout_device", "register", "verify"}
  BY <1>1 DEF CallRecord
<1> USE <1>1, <1>2, <1>3 DEF Fit, At1, ProperCall
<1>4. /\ call[c].stage = "user" => Fit(At1(c, "reset")) /\ Fit(At1(c, "count"))
      /\ call[c].stage = "write" => Fit(At1(c, "reply"))
      /\ call[c].stage = "reset" => Fit(At1(c, "list"))
      /\ call[c].stage = "prune" => Fit(At1(c, "device"))
  BY SMTT(30)
<1>5. /\ call[c].stage = "device" /\ call[c].op = "login" => Fit(At1(c, "insert"))
      /\ call[c].stage = "lookup" => Fit(At1(c, "revoke"))
      /\ call[c].stage = "lookup" /\ call[c].op = "refresh" => Fit(At1(c, "reuse"))
      /\ call[c].stage = "revoke" /\ call[c].op = "refresh" => Fit(At1(c, "insert"))
  BY SMTT(30)
<1>6. /\ call[c].stage = "reuse" => Fit(At1(c, "alarm")) /\ Fit(At1(c, "foreign"))
      /\ call[c].stage = "alarm" => Fit(At1(c, "foreign"))
      /\ call[c].stage # "idle" => Fit(At1(c, "reply"))
  BY SMTT(30)
<1>7. /\ call[c].stage = "taken" => Fit(At1(c, "create"))
      /\ call[c].stage = "create" => Fit(At1(c, "code"))
      /\ call[c].stage = "code" => Fit(At1(c, "insert"))
  BY SMTT(30)
<1>8. /\ call[c].stage = "find" => Fit(At1(c, "consume"))
      /\ call[c].stage = "consume" => Fit(At1(c, "target"))
      /\ call[c].stage = "target" => Fit(At1(c, "mark"))
  BY SMTT(30)
<1> QED BY <1>4, <1>5, <1>6, <1>7, <1>8

LEMMA Tables ==
  ASSUME TypeOK
  PROVE  SessionsFit /\ account \in AccountType /\ tally \in TallyType /\ tally.logouts \in Nat
BY DEF TypeOK, SessionsFit, AccountType, TallyType

LEMMA ReadUserType ==
  ASSUME TypeOK, NEW c \in Calls, ReadUser(c)
  PROVE  TypeOK' /\ RowsAge
<1>1. PICK next \in {"reply", "reset", "count"} : Goto(c, next)
  BY DEF ReadUser
<1>2. Fit(At1(c, next)) /\ UNCHANGED <<sessions, account, held, tally>>
  BY <1>1, StageFits DEF ReadUser
<1> QED BY <1>1, <1>2, QuietType

(* Every field of a call but those named is as before.                     *)
LEMMA CountedType ==
  ASSUME TypeOK, NEW c \in Calls, NEW n \in Nat, NEW s \in {"write", "prune"}, NEW v \in SUBSET Rows,
         call[c].op = "login", call' = [call EXCEPT ![c] = [call[c] EXCEPT !.stage = s, !.seen = n, !.victims = v]],
         UNCHANGED <<sessions, account, held, tally>>
  PROVE  TypeOK' /\ RowsAge
<1> DEFINE r == [call[c] EXCEPT !.stage = s, !.seen = n, !.victims = v]
<1>1. SessionsFit' /\ RowsAge
  BY Tables, SameRows
<1>2. Rows' = Rows /\ tally'.logouts = tally.logouts
  BY <1>1 DEF RowsAge
<1>3. call[c] \in CallRecord /\ ProperCall(call[c], Rows, tally.logouts)
  BY CallFits DEF Fit
<1>4. v \in SUBSET Nat
  BY Tables, RowsRange
<1>5. r \in CallRecord
  BY <1>3, <1>4 DEF CallRecord
<1>6. ProperCall(r, Rows', tally'.logouts)
  BY <1>2, <1>3 DEF ProperCall, CallRecord
<1>7. MovesTo(c, r)
  BY <1>5, <1>6 DEF MovesTo
<1>8. TablesFit
  BY <1>1, <1>2, Tables DEF TablesFit, TypeOK
<1> HIDE DEF r
<1> QED BY <1>1, <1>7, <1>8, TypeStep

LEMMA ReadCountType ==
  ASSUME TypeOK, NEW c \in Calls, ReadCount(c)
  PROVE  TypeOK' /\ RowsAge
<1>1. call[c] \in CallRecord /\ ProperCall(call[c], Rows, tally.logouts) /\ call[c].stage = "count"
  BY CallFits DEF Fit, ReadCount
<1>2. call[c].op = "login" /\ call[c].victims \in SUBSET Rows
  BY <1>1 DEF ProperCall, CallRecord
<1>3. account.failed \in Nat
  BY Tables DEF AccountType
<1>4. call' = [call EXCEPT ![c] = [call[c] EXCEPT !.stage = "write", !.seen = account.failed, !.victims = call[c].victims]]
  BY <1>1 DEF ReadCount, CallRecord
<1> QED BY <1>2, <1>3, <1>4, CountedType DEF ReadCount

LEMMA ListOldestType ==
  ASSUME TypeOK, NEW c \in Calls, ListOldest(c)
  PROVE  TypeOK' /\ RowsAge
<1>1. call[c] \in CallRecord /\ ProperCall(call[c], Rows, tally.logouts) /\ call[c].stage = "list"
  BY CallFits DEF Fit, ListOldest
<1>2. call[c].op = "login"
  BY <1>1 DEF ProperCall, CallRecord
<1>3. Len(sessions) \in Nat
  BY Tables, RowsRange
<1> DEFINE v == {i \in Active : Cardinality({j \in Active : j > i}) >= Keep}
<1>4. call' = [call EXCEPT ![c] = [call[c] EXCEPT !.stage = "prune", !.seen = Len(sessions), !.victims = v]]
  BY DEF ListOldest
<1>5. v \in SUBSET Rows
  BY DEF Active, Unrevoked
<1> HIDE DEF v
<1> QED BY <1>2, <1>3, <1>4, <1>5, CountedType DEF ListOldest

LEMMA TallyFits ==
  ASSUME NEW t \in TallyType, NEW w \in 0..LockAfter, NEW b \in BOOLEAN
  PROVE  LET past == [t EXCEPT !.wrong = w, !.raced = b]
         IN  past \in TallyType /\ past.logouts = t.logouts
BY DEF TallyType

LEMMA WriteCountType ==
  ASSUME TypeOK, NEW c \in Calls, WriteCount(c)
  PROVE  TypeOK' /\ RowsAge
<1> DEFINE count == call[c].seen + 1
           user == [failed |-> count, locked |-> account.locked \/ Locks(count)]
           past == [tally EXCEPT !.wrong = IF @ < LockAfter THEN @ + 1 ELSE @,
                                 !.raced = @ \/ account.failed # call[c].seen]
<1>1. call[c].seen \in Nat /\ call[c].stage = "write"
  BY CallFits DEF Fit, CallRecord, WriteCount
<1>2. user \in AccountType
  BY <1>1 DEF AccountType
<1>3. past \in TallyType /\ past.logouts >= tally.logouts
  <2>1. PICK w, b : w = (IF tally.wrong < LockAfter THEN tally.wrong + 1 ELSE tally.wrong)
                    /\ b = (tally.raced \/ account.failed # call[c].seen)
    OBVIOUS
  <2>2. w \in 0..LockAfter
    BY <2>1, Tables, LimitsAssumption DEF TallyType
  <2>3. b \in BOOLEAN
    BY <2>1
  <2>4. past = [tally EXCEPT !.wrong = w, !.raced = b]
    BY <2>1
  <2>5. tally \in TallyType /\ tally.logouts \in Nat
    BY Tables
  <2> HIDE DEF past
  <2>6. past \in TallyType /\ past.logouts = tally.logouts
    BY <2>2, <2>3, <2>4, <2>5, TallyFits
  <2> QED BY <2>5, <2>6
<1>4. Statement(c, "reply", sessions, user, past)
  BY DEF WriteCount
<1>5. sessions' = sessions => SessionsFit' /\ RowsAge
  BY Tables, SameRows
<1>6. Fit(At1(c, "reply"))
  BY <1>1, StageFits
<1> HIDE DEF user, past
<1> QED BY <1>2, <1>3, <1>4, <1>5, <1>6, StatementType

LEMMA ResetType ==
  ASSUME TypeOK, NEW c \in Calls, Reset(c)
  PROVE  TypeOK' /\ RowsAge
<1> DEFINE user == [failed |-> 0, locked |-> FALSE]
           past == [tally EXCEPT !.wrong = 0, !.raced = FALSE]
<1>1. user \in AccountType
  BY DEF AccountType
<1>2. past \in TallyType /\ past.logouts >= tally.logouts
  <2>1. tally \in TallyType /\ tally.logouts \in Nat /\ 0 \in 0..LockAfter /\ FALSE \in BOOLEAN
    BY Tables, LimitsAssumption
  <2>2. past \in TallyType /\ past.logouts = tally.logouts
    BY <2>1, TallyFits
  <2> HIDE DEF past
  <2> QED BY <2>1, <2>2
<1>3. Statement(c, "list", sessions, user, past) /\ Fit(At1(c, "list"))
  BY StageFits DEF Reset
<1>4. sessions' = sessions => SessionsFit' /\ RowsAge
  BY Tables, SameRows
<1> HIDE DEF user, past
<1> QED BY <1>1, <1>2, <1>3, <1>4, StatementType

(* A revocation that is followed by the statement next.                    *)
LEMMA RevocationType ==
  ASSUME TypeOK, NEW c \in Calls, NEW next, NEW S, NEW why \in {"exchange", "other"},
         NEW past \in TallyType, past.logouts >= tally.logouts,
         Statement(c, next, Revoked(S, why), account, past), Fit(At1(c, next))
  PROVE  TypeOK' /\ RowsAge
<1>1. sessions' = Revoked(S, why) => SessionsFit' /\ RowsAge
  BY Tables, RevokedAges
<1>2. account \in AccountType
  BY Tables
<1> QED BY <1>1, <1>2, StatementType

LEMMA PruneType ==
  ASSUME TypeOK, NEW c \in Calls, Prune(c)
  PROVE  TypeOK' /\ RowsAge
<1>1. Statement(c, "device", Revoked(call[c].victims, "other"), account, tally) /\ Fit(At1(c, "device"))
  BY StageFits DEF Prune
<1> QED BY <1>1, Tables, RevocationType

LEMMA RevokeDeviceType ==
  ASSUME TypeOK, NEW c \in Calls, RevokeDevice(c)
  PROVE  TypeOK' /\ RowsAge
<1>1. PICK next : /\ next = (IF call[c].op = "login" THEN "insert" ELSE "reply")
                  /\ Statement(c, next, Revoked(OfDevice(call[c].device), "other"), account, tally)
  BY DEF RevokeDevice
<1>2. Fit(At1(c, next))
  BY <1>1, StageFits DEF RevokeDevice
<1> QED BY <1>1, <1>2, Tables, RevocationType

LEMMA RevokeType ==
  ASSUME TypeOK, NEW c \in Calls, Revoke(c)
  PROVE  TypeOK' /\ RowsAge
<1>1. CASE call[c].op = "refresh"
  <2>1. Statement(c, "insert", Revoked({call[c].token}, "exchange"), account, tally) /\ Fit(At1(c, "insert"))
    BY <1>1, StageFits DEF Revoke
  <2> QED BY <2>1, Tables, RevocationType
<1>2. CASE call[c].op # "refresh"
  <2>1. PICK S : S = {call[c].token} /\ Statement(c, "reply", Revoked(S, "other"), account, tally)
    BY <1>2 DEF Revoke
  <2>2. Fit(At1(c, "reply"))
    BY StageFits DEF Revoke
  <2> QED BY <2>1, <2>2, Tables, RevocationType
<1> QED BY <1>1, <1>2

LEMMA RevokeAllType ==
  ASSUME TypeOK, NEW c \in Calls, RevokeAll(c)
  PROVE  TypeOK' /\ RowsAge
<1>1. PICK next, past :
        /\ next \in {"foreign", "reply"} /\ (next = "foreign" => call[c].stage = "alarm")
        /\ past = [tally EXCEPT !.logouts = @ + 1]
        /\ Statement(c, next, Revoked(Rows, "other"), account, past)
  BY DEF RevokeAll
<1>2. Fit(At1(c, next))
  BY <1>1, StageFits DEF RevokeAll
<1>3. past \in TallyType /\ past.logouts >= tally.logouts
  BY <1>1, Tables DEF TallyType
<1> QED BY <1>1, <1>2, <1>3, RevocationType

LEMMA DetectReuseType ==
  ASSUME TypeOK, NEW c \in Calls, DetectReuse(c)
  PROVE  TypeOK' /\ RowsAge
<1>1. PICK next \in {"alarm", "foreign", "reply"} : Goto(c, next)
  BY DEF DetectReuse
<1>2. Fit(At1(c, next)) /\ UNCHANGED <<sessions, account, held, tally>>
  BY StageFits DEF DetectReuse
<1> QED BY <1>1, <1>2, QuietType

(* The row of issueTokens.                                                 *)
NewRow(c) ==
    [device |-> call[c].device, ended |-> "no", expired |-> FALSE, shown |-> 0,
     root |-> IF call[c].token = 0 THEN call[c].began ELSE sessions[call[c].token].root,
     late |-> call[c].began < tally.logouts
              \/ (call[c].token # 0 /\ sessions[call[c].token].late)]

Inserts(c) ==
    /\ SessionsFit'
    /\ Rows' = Rows \cup {Len(sessions) + 1} /\ Len(sessions) + 1 \notin Rows
    /\ Len(sessions') = Len(sessions) + 1
    /\ \A i \in Rows : sessions'[i] = sessions[i]
    /\ sessions'[Len(sessions) + 1] = NewRow(c) /\ NewRow(c) \in SessionRow
    /\ call' = [call EXCEPT ![c] = [call[c] EXCEPT !.stage = "reply", !.new = Len(sessions) + 1]]

LEMMA InsertCases ==
  ASSUME TypeOK, NEW c \in Calls, Insert(c)
  PROVE  /\ call[c].stage = "insert" /\ UNCHANGED <<account, held, made, lapses, tally>>
         /\ Inserts(c) \/ (Goto(c, "reply") /\ UNCHANGED sessions)
<1>1. call[c].stage = "insert" /\ UNCHANGED <<account, held, made, lapses, tally>>
  BY DEF Insert
<1>2. \/ /\ MayInsert(call[c].device) /\ sessions' = Append(sessions, NewRow(c))
         /\ call' = [call EXCEPT ![c].stage = "reply", ![c].new = Len(sessions) + 1]
      \/ Goto(c, "reply") /\ UNCHANGED sessions
  BY DEF Insert, NewRow
<1>3. ASSUME MayInsert(call[c].device), sessions' = Append(sessions, NewRow(c)),
             call' = [call EXCEPT ![c].stage = "reply", ![c].new = Len(sessions) + 1]
      PROVE  Inserts(c)
  <2>1. call[c] \in CallRecord /\ ProperCall(call[c], Rows, tally.logouts)
    BY CallFits DEF Fit
  <2>2. call[c].token # 0 => sessions[call[c].token] \in SessionRow
    BY <2>1, Tables, RowsRange DEF ProperCall
  <2>3. PICK root, late :
          /\ root = (IF call[c].token = 0 THEN call[c].began ELSE sessions[call[c].token].root)
          /\ late = (call[c].began < tally.logouts \/ (call[c].token # 0 /\ sessions[call[c].token].late))
    OBVIOUS
  <2>4. root \in Nat
    BY <2>1, <2>2, <2>3 DEF CallRecord, SessionRow
  <2>5. late \in BOOLEAN
    BY <2>3
  <2>6. call[c].device \in Devices
    BY <2>1 DEF CallRecord
  <2>7. NewRow(c) = [device |-> call[c].device, ended |-> "no", expired |-> FALSE, shown |-> 0,
                     root |-> root, late |-> late]
    BY <2>3 DEF NewRow
  <2>8. NewRow(c) \in SessionRow /\ NewRow(c).device = call[c].device
    BY <2>4, <2>5, <2>6, <2>7 DEF SessionRow
  <2>9. call' = [call EXCEPT ![c] = [call[c] EXCEPT !.stage = "reply", !.new = Len(sessions) + 1]]
    BY <1>3 DEF TypeOK
  <2> QED BY <1>3, <2>8, <2>9, Tables, AddedRow DEF Inserts
<1> QED BY <1>1, <1>2, <1>3

LEMMA InsertType ==
  ASSUME TypeOK, NEW c \in Calls, Insert(c)
  PROVE  TypeOK'
<1>1. CASE Goto(c, "reply") /\ UNCHANGED sessions
  <2>1. Fit(At1(c, "reply"))
    BY StageFits, InsertCases
  <2> QED BY <1>1, <2>1, InsertCases, QuietType
<1>2. CASE Inserts(c)
  <2> DEFINE r == [call[c] EXCEPT !.stage = "reply", !.new = Len(sessions) + 1]
  <2>1. call[c] \in CallRecord /\ ProperCall(call[c], Rows, tally.logouts) /\ call[c].stage = "insert"
    BY CallFits, InsertCases DEF Fit
  <2>2. Len(sessions) \in Nat
    BY Tables, RowsRange
  <2>3. r \in CallRecord
    <3>1. PICK n \in Nat : n = Len(sessions) + 1
      BY <2>2
    <3>2. [call[c] EXCEPT !.stage = "reply", !.new = n] \in CallRecord
      BY <2>1 DEF CallRecord
    <3> QED BY <3>1, <3>2
  <2>4. Rows \subseteq Rows' /\ Len(sessions) + 1 \in Rows' /\ tally' = tally
    BY <1>2, InsertCases DEF Inserts
  <2>5. ProperCall(r, Rows', tally'.logouts)
    BY <2>1, <2>2, <2>4 DEF ProperCall, CallRecord
  <2>6. MovesTo(c, r)
    <3>1. call' = [call EXCEPT ![c] = r]
      BY <1>2 DEF Inserts
    <3> HIDE DEF r
    <3> QED BY <2>3, <2>5, <3>1 DEF MovesTo
  <2>7. held' \in [Devices -> Rows' \cup {0}]
    BY <2>4, InsertCases DEF TypeOK
  <2>8. SessionsFit' /\ account' = account
    BY <1>2, InsertCases DEF Inserts
  <2>9. TablesFit
    BY <2>4, <2>7, <2>8, Tables DEF TablesFit
  <2> HIDE DEF r
  <2> QED BY <2>6, <2>9, TypeStep
<1> QED BY <1>1, <1>2, InsertCases

(* Lookup counts what a refresh presents.                                  *)
LEMMA LookupType ==
  ASSUME TypeOK, NEW c \in Calls, Lookup(c)
  PROVE  TypeOK' /\ RowsAge
<1> DEFINE k == call[c].token
<1>1. call[c] \in CallRecord /\ ProperCall(call[c], Rows, tally.logouts) /\ call[c].stage = "lookup"
  BY CallFits DEF Fit, Lookup
<1>2. k \in Rows
  BY <1>1 DEF ProperCall, CallRecord
<1>3. SessionsFit' /\ RowsAge
  <2>1. CASE sessions' = [sessions EXCEPT ![k].shown = IF @ < 2 THEN @ + 1 ELSE @]
    <3>1. \A i \in Rows : sessions[i] \in SessionRow
      BY Tables, RowsRange
    <3>2. \A i \in Rows : i # k => sessions'[i] = sessions[i]
      BY <2>1 DEF Rows
    <3>3. sessions'[k] = [sessions[k] EXCEPT !.shown = IF @ < 2 THEN @ + 1 ELSE @]
      BY <1>2, <2>1 DEF Rows
    <3>4. sessions'[k] \in SessionRow /\ Ages(sessions[k], sessions'[k])
      BY <1>2, <3>1, <3>3 DEF SessionRow, Ages
    <3>5. \A i \in Rows : i # k => sessions'[i] \in SessionRow /\ Ages(sessions[i], sessions'[i])
      BY <3>1, <3>2 DEF SessionRow, Ages
    <3>6. sessions' \in [Rows -> SessionRow]
      BY <2>1, <3>4, <3>5 DEF Rows
    <3> QED BY <3>4, <3>5, <3>6, Tables, AgedRows
  <2>2. CASE sessions' = sessions
    BY <2>2, Tables, SameRows
  <2> QED BY <2>1, <2>2 DEF Lookup
<1>4. PICK next \in {"revoke", "reuse", "reply"} : Goto(c, next) /\ (next = "reuse" => call[c].op = "refresh")
  BY DEF Lookup
<1>5. Fit(At1(c, next))
  BY <1>1, <1>4, StageFits
<1>6. account' \in AccountType /\ held' = held /\ tally' \in TallyType /\ tally'.logouts >= tally.logouts
  BY Tables DEF Lookup
<1> QED BY <1>3, <1>4, <1>5, <1>6, GotoType

LEMMA ExpireType ==
  ASSUME TypeOK, Expire
  PROVE  TypeOK' /\ RowsAge
<1>1. PICK k \in Rows : sessions' = [sessions EXCEPT ![k].expired = TRUE]
  BY DEF Expire
<1>2. \A i \in Rows : sessions[i] \in SessionRow
  BY Tables, RowsRange
<1>3. \A i \in Rows : i # k => sessions'[i] = sessions[i]
  BY <1>1 DEF Rows
<1>4. sessions'[k] = [sessions[k] EXCEPT !.expired = TRUE]
  BY <1>1 DEF Rows
<1>5. sessions'[k] \in SessionRow /\ Ages(sessions[k], sessions'[k])
  <2>1. PICK row \in SessionRow : row = sessions[k]
    BY <1>2
  <2>2. sessions'[k] = [row EXCEPT !.expired = TRUE]
    BY <1>4, <2>1
  <2>3. sessions'[k] \in SessionRow
    BY <2>2 DEF SessionRow
  <2>4. Ages(row, [row EXCEPT !.expired = TRUE])
    BY DEF SessionRow, Ages
  <2> QED BY <2>1, <2>2, <2>3, <2>4
<1>6. \A i \in Rows : i # k => sessions'[i] \in SessionRow /\ Ages(sessions[i], sessions'[i])
  BY <1>2, <1>3 DEF SessionRow, Ages
<1>7. sessions' \in [Rows -> SessionRow]
  BY <1>1, <1>5, <1>6 DEF Rows
<1>8. SessionsFit' /\ RowsAge
  BY <1>5, <1>6, <1>7, Tables, AgedRows
<1>9. Rows' = Rows /\ UNCHANGED <<account, held, call, tally>>
  BY <1>8 DEF RowsAge, Expire
<1> QED BY <1>8, <1>9 DEF TypeOK, SessionsFit

LEMMA LockEndsType ==
  ASSUME TypeOK, LockEnds
  PROVE  TypeOK' /\ RowsAge
<1>1. SessionsFit' /\ RowsAge /\ Rows' = Rows
  BY Tables, SameRows DEF LockEnds, RowsAge
<1>2. account' \in AccountType
  BY Tables DEF LockEnds, AccountType
<1>3. PICK w : /\ w = (IF tally.wrong = LockAfter THEN LockAfter - 1 ELSE tally.wrong)
               /\ tally' = [tally EXCEPT !.wrong = w]
  BY DEF LockEnds
<1>4. w \in 0..LockAfter
  BY <1>3, Tables, LimitsAssumption DEF TallyType
<1>5. tally' \in TallyType /\ tally'.logouts = tally.logouts
  BY <1>3, <1>4, Tables DEF TallyType
<1>6. UNCHANGED <<held, call>>
  BY DEF LockEnds
<1> QED BY <1>1, <1>2, <1>5, <1>6 DEF TypeOK, SessionsFit, AccountType, TallyType

(* A statement of register and verify: it touches no table of sessions.    *)
LEMMA VerifyType ==
  ASSUME TypeOK, NEW c \in Calls,
         CheckTaken(c) \/ CreateUser(c) \/ IssueCode(c) \/ FindCode(c) \/ ConsumeCode(c)
           \/ CompareTarget(c) \/ MarkVerified(c)
  PROVE  TypeOK' /\ RowsAge
<1>1. \E next : Goto(c, next) /\ Fit(At1(c, next))
  <2> DEFINE Moves == \E next : Goto(c, next) /\ Fit(At1(c, next))
  <2>1. CASE CheckTaken(c)
    BY <2>1, StageFits DEF CheckTaken, At
  <2>2. CASE CreateUser(c)
    BY <2>2, StageFits DEF CreateUser, At, Fails
  <2>3. CASE IssueCode(c)
    BY <2>3, StageFits DEF IssueCode, At
  <2>4. CASE FindCode(c)
    BY <2>4, StageFits DEF FindCode, At, Fails
  <2>5. CASE ConsumeCode(c)
    BY <2>5, StageFits DEF ConsumeCode, At, Fails
  <2>6. CASE CompareTarget(c)
    BY <2>6, StageFits DEF CompareTarget, At, Fails
  <2>7. CASE MarkVerified(c)
    BY <2>7, StageFits DEF MarkVerified, At, Fails
  <2> QED BY <2>1, <2>2, <2>3, <2>4, <2>5, <2>6, <2>7
<1>2. UNCHANGED <<sessions, account, held, tally>>
  BY DEF CheckTaken, CreateUser, IssueCode, FindCode, ConsumeCode, CompareTarget, MarkVerified, Quiet
<1> QED BY <1>1, <1>2, QuietType

(* What a step does to the tables of sessions: it ages the rows, or it     *)
(* inserts one.                                                            *)
RowsStep == RowsAge \/ \E c \in Calls : Insert(c) /\ Inserts(c)

LEMMA StatementsType ==
  ASSUME TypeOK, NEW c \in Calls, Statements(c)
  PROVE  TypeOK' /\ RowsStep
<1>1. CASE Insert(c)
  <2>1. TypeOK'
    BY <1>1, InsertType
  <2>2. Inserts(c) \/ UNCHANGED sessions
    BY <1>1, InsertCases
  <2> QED BY <1>1, <2>1, <2>2, Tables, SameRows DEF RowsStep
<1>2. CASE ReadUser(c) \/ ReadCount(c) \/ WriteCount(c) \/ Reset(c)
  BY <1>2, ReadUserType, ReadCountType, WriteCountType, ResetType DEF RowsStep
<1>3. CASE ListOldest(c) \/ Prune(c) \/ RevokeDevice(c)
  BY <1>3, ListOldestType, PruneType, RevokeDeviceType DEF RowsStep
<1>4. CASE Lookup(c) \/ Revoke(c) \/ DetectReuse(c) \/ RevokeAll(c)
  BY <1>4, LookupType, RevokeType, DetectReuseType, RevokeAllType DEF RowsStep
<1> QED BY <1>1, <1>2, <1>3, <1>4 DEF Statements

LEMMA SessionsType ==
  ASSUME TypeOK, [AccountsNext]_allVars
  PROVE  TypeOK' /\ RowsStep
<1>1. CASE UNCHANGED allVars
  <2>1. UNCHANGED <<sessions, account, held, call, tally>>
    BY <1>1 DEF allVars, vars
  <2>2. RowsAge
    BY <2>1, Tables, SameRows
  <2> QED BY <2>1, <2>2 DEF TypeOK, RowsStep, Rows, Unrevoked
<1>2. ASSUME NEW c \in Calls, RegisterOrVerify(c) PROVE TypeOK' /\ RowsStep
  <2>1. CASE AskRegister(c)
    <3>1. \E d \in Devices, right \in BOOLEAN : Start(c, "register", d, 0, right)
      BY <2>1 DEF AskRegister
    <3> QED BY <3>1, StartType DEF RowsStep
  <2>2. CASE AskVerify(c)
    <3>1. \E d \in Devices, right \in BOOLEAN : Start(c, "verify", d, 0, right)
      BY <2>2, DevicesAssumption DEF AskVerify, NoCall
    <3> QED BY <3>1, StartType DEF RowsStep
  <2>3. CASE InsertFirst(c)
    BY <2>3, StatementsType DEF InsertFirst, Statements
  <2> QED BY <1>2, <2>1, <2>2, <2>3, VerifyType DEF RegisterOrVerify, RowsStep
<1>3. ASSUME NEW c \in Calls, OfUser(c) PROVE TypeOK' /\ RowsStep
  BY <1>3, RequestType, StatementsType DEF OfUser, RowsStep
<1>4. ASSUME NEW c \in Calls, DeliverTo(c) \/ BreakOff(c) PROVE TypeOK' /\ RowsStep
  BY <1>4, DeliverType, BreakType DEF DeliverTo, BreakOff, RowsStep
<1>5. CASE Expire \/ LockEnds
  BY <1>5, ExpireType, LockEndsType DEF RowsStep
<1>6. CASE CodeExpires
  <2>1. UNCHANGED <<sessions, account, held, call, tally>>
    BY <1>6 DEF CodeExpires
  <2>2. RowsAge
    BY <2>1, Tables, SameRows
  <2> QED BY <2>1, <2>2 DEF TypeOK, RowsStep, Rows, Unrevoked
<1> QED BY <1>1, <1>2, <1>3, <1>4, <1>5, <1>6 DEF AccountsNext

AccountsFit ==
    /\ users \in 0..1
    /\ code \in {"none", "issued", "consumed", "expired"}
    /\ verified \in BOOLEAN /\ known \in BOOLEAN /\ proven \in BOOLEAN
    /\ spoilt \subseteq {"not issued", "not told", "wrong target", "not marked", "broken off", "expired"}

LEMMA AccountsStep ==
  ASSUME AccountsTypeOK, [AccountsNext]_allVars
  PROVE  AccountsTypeOK'
<1>1. TypeOK'
  BY SessionsType DEF AccountsTypeOK
<1>2. AccountsFit
  BY DEF AccountsTypeOK, AccountsFit
<1>3. AccountsFit'
  <2>1. CASE UNCHANGED accounts
    BY <1>2, <2>1 DEF accounts, AccountsFit
  <2>2. ASSUME NEW c \in Calls, CreateUser(c) PROVE AccountsFit'
    <3>1. users' \in 0..1
      <4>1. users' = users \/ (~(users > 0) /\ users' = users + 1)
        BY <2>2 DEF CreateUser, Registered
      <4>2. users \in 0..1
        BY <1>2 DEF AccountsFit
      <4> QED BY <4>1, <4>2
    <3>2. UNCHANGED <<code, verified, known, proven, spoilt>>
      BY <2>2 DEF CreateUser
    <3> QED BY <1>2, <3>1, <3>2 DEF AccountsFit
  <2>3. ASSUME NEW c \in Calls, IssueCode(c) \/ InsertFirst(c) \/ ConsumeCode(c) \/ BreakOff(c)
        PROVE  AccountsFit'
    <3>1. /\ UNCHANGED <<users, verified, known, proven>>
          /\ code' = code \/ code' = "issued" \/ code' = "consumed"
          /\ spoilt' \subseteq spoilt \cup {"not issued", "not told", "broken off"}
      BY <2>3 DEF IssueCode, InsertFirst, ConsumeCode, BreakOff
    <3> QED BY <1>2, <3>1 DEF AccountsFit
  <2>4. ASSUME NEW c \in Calls, CompareTarget(c) PROVE AccountsFit'
    <3>1. proven' \in BOOLEAN
      BY <2>4 DEF CompareTarget
    <3>2. UNCHANGED <<users, code, verified, known>> /\ spoilt' \subseteq spoilt \cup {"wrong target", "not marked"}
      BY <2>4 DEF CompareTarget
    <3> QED BY <1>2, <3>1, <3>2 DEF AccountsFit
  <2>5. ASSUME NEW c \in Calls, MarkVerified(c) PROVE AccountsFit'
    <3>1. verified' = TRUE \/ verified' = verified
      BY <2>5 DEF MarkVerified
    <3>2. UNCHANGED <<users, code, known, proven>> /\ spoilt' \subseteq spoilt \cup {"not marked"}
      BY <2>5 DEF MarkVerified
    <3> QED BY <1>2, <3>1, <3>2 DEF AccountsFit
  <2>6. ASSUME NEW c \in Calls, DeliverTo(c) PROVE AccountsFit'
    <3>1. known' \in BOOLEAN
      BY <2>6 DEF DeliverTo
    <3>2. UNCHANGED <<users, code, verified, proven, spoilt>>
      BY <2>6 DEF DeliverTo
    <3> QED BY <1>2, <3>1, <3>2 DEF AccountsFit
  <2>7. CASE CodeExpires
    BY <1>2, <2>7 DEF CodeExpires, AccountsFit
  <2>8. ASSUME NEW c \in Calls, AskRegister(c) \/ CheckTaken(c) \/ AskVerify(c) \/ FindCode(c) \/ OfUser(c)
        PROVE  UNCHANGED accounts
    BY <2>8 DEF AskRegister, CheckTaken, AskVerify, FindCode, OfUser
  <2> QED BY <2>1, <2>2, <2>3, <2>4, <2>5, <2>6, <2>7, <2>8 DEF AccountsNext, RegisterOrVerify, allVars
<1> QED BY <1>1, <1>3 DEF AccountsTypeOK, AccountsFit

LEMMA AccountsStart ==
  ASSUME AccountsInit
  PROVE  AccountsTypeOK
<1>1. PICK n \in {0, 1} : InitAfter(n)
  BY DEF AccountsInit
<1>2. sessions = <<>> /\ Rows = {}
  BY <1>1 DEF InitAfter, Rows
<1>3. tally = [wrong |-> 0, raced |-> FALSE, unpruned |-> FALSE, logouts |-> 0] /\ tally \in TallyType
  BY <1>1, LimitsAssumption DEF InitAfter, TallyType
<1>4. \A c \in Calls : call[c] = NoCall
  BY <1>1 DEF InitAfter
<1>5. NoCall \in CallRecord
  BY DevicesAssumption DEF NoCall, CallRecord
<1>6. ProperCall(NoCall, Rows, tally.logouts)
  BY <1>2, <1>3 DEF NoCall, ProperCall
<1>7. sessions \in Seq(SessionRow) /\ Unrevoked = {}
  BY <1>2, EmptySeq DEF Unrevoked
<1>8. call \in [Calls -> CallRecord]
  BY <1>1, <1>5 DEF InitAfter
<1>9. held \in [Devices -> Rows \cup {0}] /\ account \in AccountType
  BY <1>1 DEF InitAfter, AccountType
<1>10. TypeOK
  BY <1>3, <1>4, <1>6, <1>7, <1>8, <1>9 DEF TypeOK, AccountType, TallyType
<1>11. AccountsFit
  <2>1. users \in 0..1 /\ code \in {"none", "consumed"} /\ known = FALSE /\ spoilt = {}
    BY DEF AccountsInit
  <2>2. verified \in BOOLEAN /\ proven \in BOOLEAN
    BY DEF AccountsInit
  <2> QED BY <2>1, <2>2 DEF AccountsFit
<1> QED BY <1>10, <1>11 DEF AccountsTypeOK, AccountsFit

(* The rows always satisfy the unique index of the table, which issueTokens *)
(* relies on, and every call refers to rows that exist.                    *)
THEOREM AccountsTypes == AccountsSpec => []AccountsTypeOK
<1>1. AccountsInit => AccountsTypeOK
  BY AccountsStart
<1>2. AccountsTypeOK /\ [AccountsNext]_allVars => AccountsTypeOK'
  BY AccountsStep
<1> QED BY <1>1, <1>2, PTL DEF AccountsSpec

(* ------------------------------ the lockout ---------------------------- *)

CountKept == account' = account /\ tally'.wrong = tally.wrong /\ tally'.raced = tally.raced

(* Only three statements touch the count and the lock.                     *)
LEMMA CountSteps ==
  ASSUME TypeOK, [AccountsNext]_allVars
  PROVE  CountKept \/ LockEnds \/ \E c \in Calls : WriteCount(c) \/ Reset(c)
<1>1. tally \in TallyType
  BY Tables
<1>2. ASSUME NEW c \in Calls, NEW next, NEW rows, Statement(c, next, rows, account, tally)
      PROVE  CountKept
  BY <1>1, <1>2 DEF Statement, CountKept, TallyType
<1>3. ASSUME UNCHANGED <<account, tally>> PROVE CountKept
  BY <1>3 DEF CountKept
<1>4. ASSUME NEW c \in Calls, Statements(c)
      PROVE  CountKept \/ WriteCount(c) \/ Reset(c)
  <2>1. CASE ReadUser(c) \/ ReadCount(c) \/ ListOldest(c) \/ Insert(c) \/ Lookup(c) \/ DetectReuse(c)
    BY <1>3, <2>1 DEF ReadUser, ReadCount, ListOldest, Insert, Lookup, DetectReuse
  <2>2. CASE Prune(c)
    BY <1>2, <2>2 DEF Prune
  <2>3. CASE RevokeDevice(c)
    BY <1>2, <2>3 DEF RevokeDevice
  <2>4. CASE Revoke(c)
    BY <1>2, <2>4 DEF Revoke
  <2>5. CASE RevokeAll(c)
    BY <1>1, <2>5 DEF RevokeAll, Statement, CountKept, TallyType
  <2> QED BY <1>4, <2>1, <2>2, <2>3, <2>4, <2>5 DEF Statements
<1>5. ASSUME NEW c \in Calls, RegisterOrVerify(c) PROVE CountKept
  BY <1>3, <1>5 DEF RegisterOrVerify, AskRegister, CheckTaken, CreateUser, IssueCode, InsertFirst, AskVerify,
        FindCode, ConsumeCode, CompareTarget, MarkVerified, Quiet, Start, Insert
<1>6. ASSUME NEW c \in Calls, Request(c) \/ DeliverTo(c) \/ BreakOff(c) PROVE CountKept
  BY <1>3, <1>6 DEF Request, Start, DeliverTo, Deliver, BreakOff, Break
<1>7. CASE Expire \/ CodeExpires \/ UNCHANGED allVars
  BY <1>3, <1>7 DEF Expire, CodeExpires, allVars, vars
<1> QED BY <1>4, <1>5, <1>6, <1>7 DEF AccountsNext, OfUser

LEMMA LockStep ==
  ASSUME TypeOK, LockInv, [AccountsNext]_allVars
  PROVE  LockInv'
<1>1. account.failed \in Nat /\ account.locked \in BOOLEAN /\ account \in AccountType
  BY Tables DEF AccountType
<1>2. tally \in TallyType /\ tally.wrong \in 0..LockAfter /\ LockAfter \in Nat \ {0}
  BY Tables, LimitsAssumption DEF TallyType
<1>3. CASE CountKept
  BY <1>3 DEF CountKept, LockInv
<1>4. ASSUME NEW c \in Calls, WriteCount(c) PROVE LockInv'
  <2>1. CASE account' = account /\ tally' = [tally EXCEPT !.unpruned = @ \/ call[c].stage = "prune"]
    BY <1>2, <2>1, <1>3 DEF TallyType, CountKept
  <2>2. CASE /\ account' = [failed |-> call[c].seen + 1, locked |-> account.locked \/ Locks(call[c].seen + 1)]
             /\ tally' = [tally EXCEPT !.wrong = IF @ < LockAfter THEN @ + 1 ELSE @,
                                       !.raced = @ \/ account.failed # call[c].seen]
    <3>1. account'.failed = call[c].seen + 1 /\ account'.locked = (account.locked \/ Locks(call[c].seen + 1))
      BY <2>2
    <3>2. tally'.wrong = (IF tally.wrong < LockAfter THEN tally.wrong + 1 ELSE tally.wrong)
      BY <1>2, <2>2 DEF TallyType
    <3>3. tally'.raced = (tally.raced \/ account.failed # call[c].seen)
      BY <1>2, <2>2 DEF TallyType
    <3>4. CASE tally.raced \/ account.failed # call[c].seen
      BY <3>3, <3>4 DEF LockInv
    <3>5. CASE ~tally.raced /\ account.failed = call[c].seen
      <4>1. account.failed >= tally.wrong /\ (tally.wrong = LockAfter => account.locked)
        BY <3>5 DEF LockInv
      <4>2. account'.failed = account.failed + 1 /\ account'.failed >= tally'.wrong
        BY <1>1, <1>2, <3>1, <3>2, <3>5, <4>1
      <4>3. ASSUME tally'.wrong = LockAfter PROVE account'.locked
        <5>1. CASE tally.wrong = LockAfter
          BY <3>1, <4>1, <5>1
        <5>2. CASE tally.wrong # LockAfter
          <6>1. call[c].seen + 1 >= LockAfter
            BY <1>1, <1>2, <3>2, <3>5, <4>1, <4>3, <5>2
          <6> QED BY <3>1, <6>1 DEF Locks
        <5> QED BY <5>1, <5>2
      <4> QED BY <4>2, <4>3 DEF LockInv
    <3> QED BY <3>4, <3>5
  <2> QED BY <1>4, <2>1, <2>2 DEF WriteCount, Statement
<1>5. ASSUME NEW c \in Calls, Reset(c) PROVE LockInv'
  <2>1. CASE account' = account /\ tally' = [tally EXCEPT !.unpruned = @ \/ call[c].stage = "prune"]
    BY <1>2, <2>1, <1>3 DEF TallyType, CountKept
  <2>2. CASE account' = [failed |-> 0, locked |-> FALSE] /\ tally' = [tally EXCEPT !.wrong = 0, !.raced = FALSE]
    <3>1. account'.failed = 0 /\ tally'.wrong = 0
      BY <1>2, <2>2 DEF TallyType
    <3> QED BY <1>2, <3>1 DEF LockInv
  <2> QED BY <1>5, <2>1, <2>2 DEF Reset, Statement
<1>6. CASE LockEnds
  <2>1. account'.failed = account.failed
    BY <1>1, <1>6 DEF LockEnds, AccountType
  <2>2. tally'.wrong = (IF tally.wrong = LockAfter THEN LockAfter - 1 ELSE tally.wrong) /\ tally'.raced = tally.raced
    BY <1>2, <1>6 DEF LockEnds, TallyType
  <2>3. tally'.wrong # LockAfter /\ tally'.wrong <= tally.wrong
    BY <1>2, <2>2
  <2> QED BY <1>1, <1>2, <2>1, <2>2, <2>3 DEF LockInv
<1> QED BY <1>3, <1>4, <1>5, <1>6, CountSteps

(* As long as no increment was lost to a race, enough wrong passwords lock *)
(* the account, and the first one after a lock that ran out does so again. *)
THEOREM AccountsLockInTime == AccountsSpec => []LocksInTime
<1>1. AccountsInit => LockInv
  BY LimitsAssumption DEF AccountsInit, InitAfter, LockInv
<1>2. AccountsTypeOK /\ LockInv /\ [AccountsNext]_allVars => LockInv'
  BY LockStep DEF AccountsTypeOK
<1>3. LockInv => LocksInTime
  BY DEF LockInv, LocksInTime
<1> QED BY <1>1, <1>2, <1>3, AccountsTypes, PTL DEF AccountsSpec

(* ------------------------------- logouts ------------------------------- *)

Same(r, s) ==
    /\ r.op = s.op /\ r.device = s.device /\ r.token = s.token /\ r.right = s.right
    /\ r.seen = s.seen /\ r.victims = s.victims /\ r.began = s.began /\ r.new = s.new

(* A step that moves call c to the next statement.                         *)
Advances(c, next) ==
    /\ \A d \in Calls : d # c => call'[d] = call[d]
    /\ call'[c].stage = next /\ Same(call'[c], call[c])

LEMMA GotoAdvances ==
  ASSUME TypeOK, NEW c \in Calls, NEW next, Goto(c, next)
  PROVE  Advances(c, next)
<1>1. call \in [Calls -> CallRecord] /\ call[c] \in CallRecord
  BY DEF TypeOK
<1> QED BY <1>1 DEF Goto, Advances, Same, CallRecord

(* A step that begins, repeats or ends call c.                             *)
Restarts(c) ==
    /\ \A d \in Calls : d # c => call'[d] = call[d]
    /\ call'[c].stage \in {"idle", "user", "taken", "find", "lookup", "all", "device"}
    /\ call'[c].stage = "device" => call'[c].op = "logout_device"
    /\ call'[c].new = 0
    /\ UNCHANGED <<sessions, account, tally>>

LEMMA StartRestarts ==
  ASSUME TypeOK, NEW c \in Calls, NEW d, NEW k, NEW right,
         NEW op \in {"login", "refresh", "logout", "logout_all", "logout_device", "register", "verify"},
         Start(c, op, d, k, right)
  PROVE  Restarts(c) /\ call[c].stage = "idle" /\ call'[c].op = op
<1> DEFINE r == [NoCall EXCEPT !.op = op, !.stage = FirstStage(op), !.device = d, !.token = k,
                        !.right = right, !.began = tally.logouts]
<1>1. call' = [call EXCEPT ![c] = r] /\ UNCHANGED <<sessions, account, tally>> /\ call[c].stage = "idle"
  BY DEF Start
<1>2. r.stage \in {"user", "taken", "find", "lookup", "all", "device"} /\ r.new = 0 /\ r.op = op
      /\ (r.stage = "device" => op = "logout_device")
  BY DEF NoCall, FirstStage
<1> HIDE DEF r
<1>3. call'[c] = r /\ \A e \in Calls : e # c => call'[e] = call[e]
  BY <1>1 DEF TypeOK
<1> QED BY <1>1, <1>2, <1>3 DEF Restarts

LEMMA BreakRestarts ==
  ASSUME TypeOK, NEW c \in Calls, Break(c)
  PROVE  Restarts(c)
<1> DEFINE r == [NoCall EXCEPT !.op = call[c].op, !.stage = FirstStage(call[c].op),
                 !.device = call[c].device, !.token = call[c].token, !.right = call[c].right,
                 !.tries = call[c].tries + 1, !.began = tally.logouts]
<1>1. call' = [call EXCEPT ![c] = r] \/ call' = [call EXCEPT ![c] = NoCall]
  BY DEF Break
<1>2. call[c].op \in {"login", "refresh", "logout", "logout_all", "logout_device", "register", "verify"}
  <2>1. call[c] \in CallRecord /\ ProperCall(call[c], Rows, tally.logouts) /\ call[c].stage # "idle"
    BY CallFits DEF Fit, Break
  <2> QED BY <2>1 DEF ProperCall, CallRecord
<1>3. r.stage \in {"user", "taken", "find", "lookup", "all", "device"} /\ r.new = 0
      /\ (r.stage = "device" => r.op = "logout_device")
  BY <1>2 DEF NoCall, FirstStage
<1>4. NoCall.stage = "idle" /\ NoCall.new = 0
  BY DEF NoCall
<1> HIDE DEF r
<1>5. call'[c] \in {r, NoCall} /\ \A e \in Calls : e # c => call'[e] = call[e]
  BY <1>1 DEF TypeOK
<1> QED BY <1>3, <1>4, <1>5 DEF Restarts, Break

LEMMA DeliverRestarts ==
  ASSUME TypeOK, NEW c \in Calls, Deliver(c)
  PROVE  Restarts(c)
<1>1. NoCall.stage = "idle" /\ NoCall.new = 0
  BY DEF NoCall
<1>2. call'[c] = NoCall /\ \A e \in Calls : e # c => call'[e] = call[e]
  BY DEF TypeOK, Deliver
<1> QED BY <1>1, <1>2 DEF Restarts, Deliver

LEMMA RequestRestarts ==
  ASSUME TypeOK, NEW c \in Calls, Request(c)
  PROVE  Restarts(c)
<1>0. PICK op \in {"login", "refresh", "logout", "logout_all", "logout_device"} : \E d, k, right : Start(c, op, d, k, right)
  BY DEF Request
<1>1. PICK d, k, right : Start(c, op, d, k, right)
  BY <1>0
<1> QED BY <1>1, StartRestarts

(* The statements of register and verify.                                  *)
LEMMA VerifyAdvances ==
  ASSUME TypeOK, NEW c \in Calls,
         CheckTaken(c) \/ CreateUser(c) \/ IssueCode(c) \/ FindCode(c) \/ ConsumeCode(c)
           \/ CompareTarget(c) \/ MarkVerified(c)
  PROVE  /\ UNCHANGED <<sessions, account, tally>>
         /\ call[c].op \in {"register", "verify"} /\ call[c].stage # "reply"
         /\ \E next \in {"reply", "create", "code", "insert", "consume", "target", "mark"} : Advances(c, next)
<1>1. \E next \in {"reply", "create", "code", "insert", "consume", "target", "mark"} : Goto(c, next)
  BY DEF CheckTaken, CreateUser, IssueCode, FindCode, ConsumeCode, CompareTarget, MarkVerified, Fails
<1>2. UNCHANGED <<sessions, account, tally>>
  BY DEF CheckTaken, CreateUser, IssueCode, FindCode, ConsumeCode, CompareTarget, MarkVerified, Quiet
<1>3. call[c].stage \in {"taken", "create", "code", "find", "consume", "target", "mark"}
  BY DEF CheckTaken, CreateUser, IssueCode, FindCode, ConsumeCode, CompareTarget, MarkVerified, At
<1>4. call[c].op \in {"register", "verify"}
  BY <1>3, CallFits DEF Fit, ProperCall, CallRecord
<1> QED BY <1>1, <1>2, <1>3, <1>4, GotoAdvances

Tabled == UNCHANGED <<sessions, account, tally>>
Verifies(c) ==
    /\ Tabled /\ call[c].op \in {"register", "verify"} /\ call[c].stage # "reply"
    /\ \E next \in {"reply", "create", "code", "insert", "consume", "target", "mark"} : Advances(c, next)

(* The steps by what they do to the calls and to the tables of sessions.   *)
LEMMA AccountsCases ==
  ASSUME TypeOK, [AccountsNext]_allVars
  PROVE  \/ Tabled /\ UNCHANGED call
         \/ (Expire \/ LockEnds) /\ UNCHANGED call
         \/ \E c \in Calls : Restarts(c) \/ Verifies(c) \/ Statements(c)
<1>1. CASE UNCHANGED allVars \/ CodeExpires
  BY <1>1 DEF allVars, vars, CodeExpires, Tabled
<1>2. ASSUME NEW c \in Calls, RegisterOrVerify(c) PROVE Restarts(c) \/ Verifies(c) \/ Statements(c)
  <2>1. CASE AskRegister(c)
    BY <2>1, StartRestarts DEF AskRegister
  <2>2. CASE AskVerify(c)
    BY <2>2, StartRestarts DEF AskVerify
  <2>3. CASE InsertFirst(c)
    BY <2>3 DEF InsertFirst, Statements
  <2> QED BY <1>2, <2>1, <2>2, <2>3, VerifyAdvances DEF RegisterOrVerify, Verifies, Tabled
<1>3. ASSUME NEW c \in Calls, OfUser(c) PROVE Restarts(c) \/ Statements(c)
  BY <1>3, RequestRestarts DEF OfUser
<1>4. ASSUME NEW c \in Calls, DeliverTo(c) \/ BreakOff(c) PROVE Restarts(c)
  BY <1>4, DeliverRestarts, BreakRestarts DEF DeliverTo, BreakOff
<1>5. CASE Expire \/ LockEnds
  BY <1>5 DEF Expire, LockEnds
<1> QED BY <1>1, <1>2, <1>3, <1>4, <1>5 DEF AccountsNext

(* Where a statement takes its call, and what a failed one leaves alone.   *)
LEMMA StatementAdvances ==
  ASSUME TypeOK, NEW c \in Calls, NEW next, NEW rows, NEW user, NEW past,
         Statement(c, next, rows, user, past)
  PROVE  /\ Advances(c, next)
         /\ \/ sessions' = rows /\ tally' = past
            \/ /\ UNCHANGED sessions
               /\ tally'.logouts = tally.logouts
               /\ tally'.unpruned = (tally.unpruned \/ call[c].stage = "prune")
<1>1. Advances(c, next)
  BY GotoAdvances DEF Statement
<1>2. ASSUME tally' = [tally EXCEPT !.unpruned = @ \/ call[c].stage = "prune"]
      PROVE  tally'.logouts = tally.logouts /\ tally'.unpruned = (tally.unpruned \/ call[c].stage = "prune")
  BY <1>2, Tables DEF TallyType
<1> QED BY <1>1, <1>2 DEF Statement

LEMMA CountAdvances ==
  ASSUME TypeOK, NEW c \in Calls, WriteCount(c) \/ Reset(c)
  PROVE  /\ Advances(c, IF call[c].stage = "write" THEN "reply" ELSE "list")
         /\ UNCHANGED sessions /\ tally'.logouts = tally.logouts
<1>1. tally \in TallyType
  BY Tables
<1>2. CASE WriteCount(c)
  <2>1. Goto(c, "reply") /\ UNCHANGED sessions /\ call[c].stage = "write"
    BY <1>2 DEF WriteCount, Statement
  <2>2. \/ tally' = [tally EXCEPT !.unpruned = @ \/ call[c].stage = "prune"]
        \/ tally' = [tally EXCEPT !.wrong = IF @ < LockAfter THEN @ + 1 ELSE @,
                                  !.raced = @ \/ account.failed # call[c].seen]
    BY <1>2 DEF WriteCount, Statement
  <2>3. tally'.logouts = tally.logouts
    BY <1>1, <2>2 DEF TallyType
  <2> QED BY <2>1, <2>3, GotoAdvances
<1>3. CASE Reset(c)
  <2>1. Goto(c, "list") /\ UNCHANGED sessions /\ call[c].stage # "write"
    BY <1>3 DEF Reset, Statement
  <2>2. \/ tally' = [tally EXCEPT !.unpruned = @ \/ call[c].stage = "prune"]
        \/ tally' = [tally EXCEPT !.wrong = 0, !.raced = FALSE]
    BY <1>3 DEF Reset, Statement
  <2>3. tally'.logouts = tally.logouts
    BY <1>1, <2>2 DEF TallyType
  <2> QED BY <2>1, <2>3, GotoAdvances
<1> QED BY <1>2, <1>3

(* Rows keep what they descend from.                                       *)
Descent == \A i \in Rows : sessions'[i].late = sessions[i].late /\ sessions'[i].root = sessions[i].root

LEMMA DescentKept ==
  ASSUME RowsStep
  PROVE  Descent
BY DEF RowsStep, RowsAge, Ages, Inserts, Descent

LEMMA LoggedOutKept ==
  ASSUME LoggedOutStays, RowsAge, tally'.logouts = tally.logouts
  PROVE  LoggedOutStays'
<1>1. Active' \subseteq Active
  BY DEF RowsAge, Ages, Active, Unrevoked
<1>2. \A i \in Active : i \in Rows
  BY DEF Active, Unrevoked
<1> QED BY <1>1, <1>2 DEF LoggedOutStays, RowsAge, Ages

LEMMA DescendsKept ==
  ASSUME TypeOK, LogoutInv, Descent, tally'.logouts = tally.logouts, NEW d \in Calls,
         call'[d].stage \in {"revoke", "insert"} =>
             /\ call'[d].token = call[d].token /\ call'[d].began = call[d].began
             /\ \/ call[d].stage \in {"revoke", "insert"}
                \/ call[d].token = 0
                \/ call[d].token \in Active
  PROVE  Descends(d)'
<1> SUFFICES ASSUME call'[d].stage \in {"revoke", "insert"}, call'[d].token # 0, call'[d].began = tally'.logouts
             PROVE  sessions'[call'[d].token].late \/ sessions'[call'[d].token].root = tally'.logouts
  BY DEF Descends
<1>1. call'[d].token = call[d].token /\ call'[d].began = call[d].began /\ call[d].token # 0
      /\ call[d].began = tally.logouts
  OBVIOUS
<1>2. call[d].token \in Rows
  BY <1>1, CallFits DEF Fit, ProperCall
<1>3. sessions[call[d].token].late \/ sessions[call[d].token].root = tally.logouts
  BY <1>1 DEF LogoutInv, LoggedOutStays, Descends
<1> QED BY <1>1, <1>2, <1>3 DEF Descent

(* A step on call c that ages rows and counts no logout.                   *)
LEMMA LogoutQuiet ==
  ASSUME TypeOK, LogoutInv, RowsAge, tally'.logouts = tally.logouts, NEW c \in Calls,
         \A d \in Calls : d # c => call'[d] = call[d],
         call'[c].stage \in {"revoke", "insert"} =>
             /\ Same(call'[c], call[c])
             /\ \/ call[c].stage \in {"revoke", "insert"}
                \/ call[c].token = 0
                \/ call[c].token \in Active
  PROVE  LogoutInv'
<1>1. Descent
  BY DescentKept DEF RowsStep
<1>2. LoggedOutStays'
  BY LoggedOutKept DEF LogoutInv
<1>3. \A d \in Calls : Descends(d)'
  <2> SUFFICES ASSUME NEW d \in Calls PROVE Descends(d)'
    OBVIOUS
  <2>1. CASE d = c
    BY <1>1, <2>1, DescendsKept DEF Same
  <2>2. CASE d # c
    BY <1>1, <2>2, DescendsKept
  <2> QED BY <2>1, <2>2
<1> QED BY <1>2, <1>3 DEF LogoutInv

LEMMA LogoutInsert ==
  ASSUME TypeOK, LogoutInv, NEW c \in Calls, Insert(c), Inserts(c)
  PROVE  LogoutInv'
<1>1. tally' = tally /\ call[c].stage = "insert" /\ tally.logouts \in Nat
  BY InsertCases, Tables
<1>2. Descent
  BY DEF Inserts, Descent
<1>3. call' = [call EXCEPT ![c] = [call[c] EXCEPT !.stage = "reply", !.new = Len(sessions) + 1]]
  BY DEF Inserts
<1>4. call'[c].stage = "reply" /\ \A d \in Calls : d # c => call'[d] = call[d]
  BY <1>3 DEF TypeOK, CallRecord
<1>5. \A d \in Calls : Descends(d)'
  <2> SUFFICES ASSUME NEW d \in Calls PROVE Descends(d)'
    OBVIOUS
  <2>1. CASE d = c
    BY <1>4, <2>1 DEF Descends
  <2>2. CASE d # c
    BY <1>1, <1>2, <1>4, <2>2, DescendsKept
  <2> QED BY <2>1, <2>2
<1>6. LoggedOutStays'
  <2> DEFINE n == Len(sessions) + 1
  <2>1. \A i \in Active' : i # n => i \in Active /\ sessions'[i] = sessions[i]
    BY DEF Inserts, Active, Unrevoked
  <2>2. \A i \in Active : sessions[i].late \/ sessions[i].root = tally.logouts
    BY DEF LogoutInv, LoggedOutStays
  <2>3. sessions'[n] = NewRow(c)
    BY DEF Inserts
  <2>4. call[c] \in CallRecord /\ ProperCall(call[c], Rows, tally.logouts)
    BY CallFits DEF Fit
  <2>5. NewRow(c).late \/ NewRow(c).root = tally.logouts
    <3>1. CASE call[c].began < tally.logouts
      BY <3>1 DEF NewRow
    <3>2. CASE call[c].began = tally.logouts /\ call[c].token = 0
      BY <3>2 DEF NewRow
    <3>3. CASE call[c].began = tally.logouts /\ call[c].token # 0
      <4>1. sessions[call[c].token].late \/ sessions[call[c].token].root = tally.logouts
        BY <1>1, <3>3 DEF LogoutInv, Descends
      <4> QED BY <3>3, <4>1 DEF NewRow
    <3>4. call[c].began <= tally.logouts /\ call[c].began \in Nat
      BY <2>4 DEF ProperCall, CallRecord
    <3> QED BY <1>1, <3>1, <3>2, <3>3, <3>4
  <2> QED BY <1>1, <2>1, <2>2, <2>3, <2>5 DEF LoggedOutStays
<1> QED BY <1>5, <1>6 DEF LogoutInv

(* After the logout of all sessions none is active.                        *)
LEMMA LogoutAll ==
  ASSUME TypeOK, NEW c \in Calls, RevokeAll(c),
         sessions' = Revoked(Rows, "other"), tally' = [tally EXCEPT !.logouts = @ + 1]
  PROVE  LogoutInv'
<1>1. tally.logouts \in Nat /\ tally'.logouts = tally.logouts + 1
  BY Tables DEF TallyType
<1>2. Rows' = Rows
  BY DEF Revoked, Rows
<1>3. \A i \in Rows : sessions'[i].ended # "no"
  <2> SUFFICES ASSUME NEW i \in Rows PROVE sessions'[i].ended # "no"
    OBVIOUS
  <2>1. sessions[i] \in SessionRow
    BY Tables, RowsRange
  <2>2. CASE i \in Unrevoked
    BY <2>1, <2>2 DEF Revoked, SessionRow
  <2>3. CASE i \notin Unrevoked
    BY <2>1, <2>3 DEF Revoked, Unrevoked
  <2> QED BY <2>2, <2>3
<1>4. LoggedOutStays'
  BY <1>2, <1>3 DEF LoggedOutStays, Active, Unrevoked
<1>5. \A d \in Calls : call'[d].began = call[d].began
  BY StatementAdvances DEF RevokeAll, Advances, Same
<1>6. \A d \in Calls : call[d].began <= tally.logouts /\ call[d].began \in Nat
  BY CallFits DEF Fit, ProperCall, CallRecord
<1>7. \A d \in Calls : call'[d].began # tally'.logouts
  BY <1>1, <1>5, <1>6
<1> QED BY <1>4, <1>7 DEF LogoutInv, Descends

LEMMA LogoutStatements ==
  ASSUME TypeOK, LogoutInv, NEW c \in Calls, Statements(c)
  PROVE  LogoutInv'
<1>1. tally.logouts \in Nat /\ call[c] \in CallRecord /\ ProperCall(call[c], Rows, tally.logouts)
  BY CallFits, Tables DEF Fit
<1>2. CASE ReadUser(c)
  <2>1. \E next \in {"reply", "reset", "count"} : Advances(c, next)
    BY <1>2, GotoAdvances DEF ReadUser
  <2> QED BY <1>2, <2>1, ReadUserType, LogoutQuiet DEF ReadUser, Advances
<1>3. CASE ReadCount(c) \/ ListOldest(c)
  <2>1. /\ \A d \in Calls : d # c => call'[d] = call[d]
        /\ call'[c].stage \in {"write", "prune"}
    BY <1>1, <1>3 DEF ReadCount, ListOldest, TypeOK, CallRecord
  <2>2. RowsAge /\ tally' = tally
    BY <1>3, ReadCountType, ListOldestType DEF ReadCount, ListOldest
  <2> QED BY <2>1, <2>2, LogoutQuiet
<1>4. CASE WriteCount(c) \/ Reset(c)
  <2>1. call'[c].stage \in {"reply", "list"} /\ tally'.logouts = tally.logouts
        /\ \A d \in Calls : d # c => call'[d] = call[d]
    BY <1>4, CountAdvances DEF Advances
  <2> QED BY <1>4, <2>1, WriteCountType, ResetType, LogoutQuiet
<1>6. CASE Prune(c)
  <2>1. Advances(c, "device") /\ tally'.logouts = tally.logouts
    BY <1>6, StatementAdvances DEF Prune
  <2> QED BY <1>6, <2>1, PruneType, LogoutQuiet DEF Advances
<1>7. CASE RevokeDevice(c)
  <2>1. PICK next : /\ next = (IF call[c].op = "login" THEN "insert" ELSE "reply")
                    /\ Advances(c, next) /\ tally'.logouts = tally.logouts
    BY <1>7, StatementAdvances DEF RevokeDevice
  <2>2. next = "insert" => call[c].token = 0
    BY <1>1, <2>1 DEF ProperCall
  <2> QED BY <1>7, <2>1, <2>2, RevokeDeviceType, LogoutQuiet DEF Advances
<1>8. CASE Insert(c)
  <2>1. CASE Inserts(c)
    BY <1>8, <2>1, LogoutInsert
  <2>2. CASE Goto(c, "reply") /\ UNCHANGED sessions
    <3>1. Advances(c, "reply") /\ RowsAge /\ tally' = tally
      BY <1>8, <2>2, GotoAdvances, InsertCases, Tables, SameRows
    <3> QED BY <3>1, LogoutQuiet DEF Advances
  <2> QED BY <1>8, <2>1, <2>2, InsertCases
<1>9. CASE Lookup(c)
  <2>1. PICK next : /\ Goto(c, next) /\ (next = "revoke" => Valid(call[c].token, call[c].device))
                    /\ next \in {"revoke", "reuse", "reply"}
    BY <1>9 DEF Lookup
  <2>2. Advances(c, next) /\ tally' = tally
    BY <1>9, <2>1, GotoAdvances DEF Lookup
  <2>3. next = "revoke" => call[c].token \in Active
    BY <2>1 DEF Valid
  <2> QED BY <1>9, <2>1, <2>2, <2>3, LookupType, LogoutQuiet DEF Advances
<1>10. CASE Revoke(c)
  <2>1. \E next : Advances(c, next) /\ tally'.logouts = tally.logouts
    BY <1>10, StatementAdvances DEF Revoke
  <2>2. call[c].stage = "revoke"
    BY <1>10 DEF Revoke
  <2> QED BY <1>10, <2>1, <2>2, RevokeType, LogoutQuiet DEF Advances
<1>11. CASE DetectReuse(c)
  <2>1. \E next \in {"alarm", "foreign", "reply"} : Advances(c, next)
    BY <1>11, GotoAdvances DEF DetectReuse
  <2> QED BY <1>11, <2>1, DetectReuseType, LogoutQuiet DEF DetectReuse, Advances
<1>12. CASE RevokeAll(c)
  <2> DEFINE past == [tally EXCEPT !.logouts = @ + 1]
  <2>1. PICK next \in {"foreign", "reply"} :
          past = [tally EXCEPT !.logouts = @ + 1] /\ Statement(c, next, Revoked(Rows, "other"), account, past)
    BY <1>12 DEF RevokeAll
  <2> HIDE DEF past
  <2>2. Advances(c, next)
    BY <2>1, StatementAdvances
  <2>3. CASE sessions' = Revoked(Rows, "other") /\ tally' = past
    BY <1>12, <2>1, <2>3, LogoutAll
  <2>4. CASE tally'.logouts = tally.logouts
    BY <1>12, <2>2, <2>4, RevokeAllType, LogoutQuiet DEF Advances
  <2> QED BY <2>1, <2>3, <2>4, StatementAdvances
<1> QED BY <1>2, <1>3, <1>4, <1>6, <1>7, <1>8, <1>9, <1>10, <1>11, <1>12 DEF Statements

LEMMA LogoutStep ==
  ASSUME TypeOK, LogoutInv, [AccountsNext]_allVars
  PROVE  LogoutInv'
<1>1. CASE Tabled /\ UNCHANGED call
  <2>1. RowsAge /\ tally' = tally
    BY <1>1, Tables, SameRows DEF Tabled
  <2>2. Descent /\ LoggedOutStays'
    BY <2>1, DescentKept, LoggedOutKept DEF LogoutInv, RowsStep
  <2> QED BY <1>1, <2>1, <2>2, DescendsKept DEF LogoutInv
<1>2. CASE (Expire \/ LockEnds) /\ UNCHANGED call
  <2>1. RowsAge /\ tally'.logouts = tally.logouts
    BY <1>2, ExpireType, LockEndsType, Tables DEF Expire, LockEnds, TallyType
  <2>2. Descent /\ LoggedOutStays'
    BY <2>1, DescentKept, LoggedOutKept DEF LogoutInv, RowsStep
  <2> QED BY <1>2, <2>1, <2>2, DescendsKept DEF LogoutInv
<1>3. ASSUME NEW c \in Calls, Restarts(c) PROVE LogoutInv'
  BY <1>3, Tables, SameRows, LogoutQuiet DEF Restarts
<1>4. ASSUME NEW c \in Calls, Verifies(c) PROVE LogoutInv'
  <2>1. call[c].token = 0
    BY <1>4, CallFits DEF Verifies, Fit, ProperCall
  <2> QED BY <1>4, <2>1, Tables, SameRows, LogoutQuiet DEF Verifies, Tabled, Advances
<1> QED BY <1>1, <1>2, <1>3, <1>4, LogoutStatements, AccountsCases

(* After a logout of all sessions none descends from an earlier login but  *)
(* through a call that was already under way.                              *)
THEOREM AccountsLogout == AccountsSpec => []LoggedOutStays
<1>1. AccountsInit => LogoutInv
  BY DEF AccountsInit, InitAfter, LogoutInv, LoggedOutStays, Active, Unrevoked, Rows, Descends, NoCall
<1>2. AccountsTypeOK /\ LogoutInv /\ [AccountsNext]_allVars => LogoutInv'
  BY LogoutStep DEF AccountsTypeOK
<1>3. LogoutInv => LoggedOutStays
  BY DEF LogoutInv
<1> QED BY <1>1, <1>2, <1>3, AccountsTypes, PTL DEF AccountsSpec

(* ----------------------------- reuse detection ------------------------- *)

(* Rows of a step that exchanges no token.                                 *)
Unexchanged ==
    /\ Rows \subseteq Rows'
    /\ \A i \in Rows : /\ sessions'[i].device = sessions[i].device
                       /\ sessions'[i].shown >= sessions[i].shown
                       /\ sessions'[i].ended = sessions[i].ended
                          \/ (sessions[i].ended = "no" /\ sessions'[i].ended = "other")
    /\ \A i \in Rows' \ Rows : sessions'[i].ended = "no"
    /\ \A i \in Rows' : sessions'[i].shown \in 0..2

LEMMA ShownFits ==
  ASSUME TypeOK
  PROVE  \A i \in Rows : sessions[i].shown \in 0..2 /\ sessions[i].ended \in {"no", "exchange", "other"}
BY Tables, RowsRange DEF SessionRow

LEMMA UnexchangedTabled ==
  ASSUME TypeOK, UNCHANGED sessions
  PROVE  Unexchanged
BY ShownFits DEF Unexchanged, Rows

LEMMA UnexchangedRevoked ==
  ASSUME TypeOK, NEW S, sessions' = Revoked(S, "other")
  PROVE  Unexchanged
<1>1. Rows' = Rows
  BY DEF Rows, Revoked
<1>2. ASSUME NEW i \in Rows
      PROVE  /\ sessions'[i].device = sessions[i].device
             /\ sessions'[i].shown = sessions[i].shown
             /\ sessions'[i].ended = sessions[i].ended
                \/ (sessions[i].ended = "no" /\ sessions'[i].ended = "other")
  <2>1. sessions[i] \in SessionRow
    BY Tables, RowsRange
  <2>2. CASE i \in S \cap Unrevoked
    <3>1. sessions'[i] = [sessions[i] EXCEPT !.ended = "other"] /\ sessions[i].ended = "no"
      BY <1>2, <2>2 DEF Revoked, Unrevoked
    <3> QED BY <2>1, <3>1 DEF SessionRow
  <2>3. CASE i \notin S \cap Unrevoked
    BY <1>2, <2>3 DEF Revoked
  <2> QED BY <2>2, <2>3
<1> QED BY <1>1, <1>2, ShownFits DEF Unexchanged

LEMMA UnexchangedInserted ==
  ASSUME TypeOK, NEW c \in Calls, Inserts(c)
  PROVE  Unexchanged
<1>1. NewRow(c).ended = "no" /\ NewRow(c).shown = 0
  BY DEF NewRow
<1> QED BY <1>1, ShownFits DEF Unexchanged, Inserts

LEMMA UnexchangedExpired ==
  ASSUME TypeOK, Expire
  PROVE  Unexchanged
<1>1. RowsAge /\ TypeOK'
  BY ExpireType
<1>2. \A i \in Rows' : sessions'[i].shown \in 0..2
  <2>1. sessions' \in Seq(SessionRow)
    BY <1>1 DEF TypeOK
  <2>2. \A i \in Rows' : sessions'[i] \in SessionRow
    BY <2>1 DEF Rows
  <2> QED BY <2>2 DEF SessionRow
<1>3. \A i \in Rows : sessions'[i].ended = sessions[i].ended
  <2>1. PICK k \in Rows : sessions' = [sessions EXCEPT ![k].expired = TRUE]
    BY DEF Expire
  <2>2. sessions[k] \in SessionRow
    BY Tables, RowsRange
  <2>3. sessions'[k].ended = sessions[k].ended
    BY <2>1, <2>2 DEF SessionRow, Rows
  <2> QED BY <2>1, <2>3 DEF Rows
<1> QED BY <1>1, <1>2, <1>3 DEF Unexchanged, RowsAge, Ages

(* Call c presents a token after the step only if it did so before.        *)
LEMMA AlarmQuiet ==
  ASSUME TypeOK, AlarmInv, Unexchanged, NEW c \in Calls,
         \A d \in Calls : d # c => call'[d] = call[d],
         Presents(c)' =>
             /\ Presents(c) /\ Same(call'[c], call[c])
             /\ call'[c].stage = "alarm" => call[c].stage = "alarm" \/ Token(c).ended # "no"
             /\ call'[c].stage = "foreign" => call[c].stage = "foreign" \/ Token(c).device # call[c].device,
         call'[c].stage \in {"alarm", "foreign"} => Presents(c)'
  PROVE  AlarmInv'
<1>1. ASSUME NEW d \in Calls, Presents(d)'
      PROVE  /\ Presents(d) /\ call'[d].token = call[d].token /\ call'[d].device = call[d].device
             /\ call[d].token \in Rows
             /\ Token(d)' = sessions'[call[d].token]
  <2>1. Presents(d) /\ call'[d].token = call[d].token /\ call'[d].device = call[d].device
    BY <1>1 DEF Presents, Same
  <2>2. call[d].token \in Rows
    BY <2>1, CallFits DEF Fit, ProperCall, Presents
  <2> QED BY <2>1, <2>2 DEF Token
<1>2. \A i \in Rows : sessions[i].shown \in Int /\ sessions'[i].shown \in Int
  BY ShownFits DEF Unexchanged
<1>3. \A d \in Calls : Presents(d)' => Token(d)'.shown >= 1
  BY <1>1, <1>2 DEF AlarmInv, Unexchanged, Token
<1>4. \A d, e \in Calls :
         Presents(d)' /\ Presents(e)' /\ call'[d].token = call'[e].token /\ d # e => Token(d)'.shown >= 2
  <2> SUFFICES ASSUME NEW d \in Calls, NEW e \in Calls, Presents(d)', Presents(e)',
                      call'[d].token = call'[e].token, d # e
               PROVE  Token(d)'.shown >= 2
    OBVIOUS
  <2>1. Token(d).shown >= 2 /\ call[d].token \in Rows /\ Token(d)' = sessions'[call[d].token]
    BY <1>1 DEF AlarmInv
  <2> QED BY <1>2, <2>1 DEF Unexchanged, Token
<1>5. \A i \in Rows' : sessions'[i].ended = "exchange" => sessions'[i].shown >= 1
  BY <1>2 DEF AlarmInv, Unexchanged
<1>6. \A d \in Calls : Presents(d)' /\ Token(d)'.ended = "exchange" => Token(d)'.shown >= 2
  <2> SUFFICES ASSUME NEW d \in Calls, Presents(d)', Token(d)'.ended = "exchange"
               PROVE  Token(d)'.shown >= 2
    OBVIOUS
  <2>1. Presents(d) /\ call[d].token \in Rows /\ Token(d)' = sessions'[call[d].token]
    BY <1>1
  <2>2. Token(d).ended = "exchange"
    BY <2>1 DEF Unexchanged, Token
  <2>3. Token(d).shown >= 2
    BY <2>1, <2>2 DEF AlarmInv
  <2> QED BY <1>2, <2>1, <2>3 DEF Unexchanged, Token
<1>7. \A d \in Calls : call'[d].stage \in {"alarm", "foreign"} => Presents(d)'
  <2> SUFFICES ASSUME NEW d \in Calls, call'[d].stage \in {"alarm", "foreign"} PROVE Presents(d)'
    OBVIOUS
  <2>1. CASE d = c
    BY <2>1
  <2>2. CASE d # c
    <3>1. call[d].op = "refresh"
      BY <2>2, CallFits DEF Fit, ProperCall, CallRecord
    <3> QED BY <2>2, <3>1 DEF Presents
  <2> QED BY <2>1, <2>2
<1>8. \A d \in Calls : call'[d].stage = "alarm" => Token(d)'.ended # "no"
  <2> SUFFICES ASSUME NEW d \in Calls, call'[d].stage = "alarm" PROVE Token(d)'.ended # "no"
    OBVIOUS
  <2>1. Presents(d)'
    BY <1>7
  <2>2. Token(d).ended # "no"
    <3>1. CASE d = c
      BY <2>1, <3>1 DEF AlarmInv
    <3>2. CASE d # c
      BY <3>2 DEF AlarmInv
    <3> QED BY <3>1, <3>2
  <2> QED BY <1>1, <2>1, <2>2 DEF Unexchanged, Token
<1>9. \A d \in Calls : call'[d].stage = "foreign" => Token(d)'.device # call'[d].device
  <2> SUFFICES ASSUME NEW d \in Calls, call'[d].stage = "foreign" PROVE Token(d)'.device # call'[d].device
    OBVIOUS
  <2>1. Presents(d)'
    BY <1>7
  <2>2. Token(d).device # call[d].device
    <3>1. CASE d = c
      BY <2>1, <3>1 DEF AlarmInv
    <3>2. CASE d # c
      BY <3>2 DEF AlarmInv
    <3> QED BY <3>1, <3>2
  <2> QED BY <1>1, <2>1, <2>2 DEF Unexchanged, Token
<1> QED BY <1>3, <1>4, <1>5, <1>6, <1>8, <1>9 DEF AlarmInv

(* A refresh presents its token: if it was presented before, this is the   *)
(* second time.                                                            *)
LEMMA AlarmLookup ==
  ASSUME TypeOK, AlarmInv, NEW c \in Calls, Lookup(c)
  PROVE  AlarmInv'
<1> DEFINE k == call[c].token
<1>1. PICK next \in {"revoke", "reuse", "reply"} : Goto(c, next)
  BY DEF Lookup
<1>2. Advances(c, next) /\ call[c].stage = "lookup"
  BY <1>1, GotoAdvances DEF Lookup
<1>3. CASE call[c].op # "refresh"
  <2>1. UNCHANGED sessions
    BY <1>3 DEF Lookup
  <2> QED BY <1>2, <1>3, <2>1, UnexchangedTabled, AlarmQuiet DEF Advances, Same, Presents
<1>4. CASE call[c].op = "refresh"
  <2>1. k \in Rows
    BY <1>4, CallFits DEF Fit, ProperCall
  <2>2. sessions' = [sessions EXCEPT ![k].shown = IF @ < 2 THEN @ + 1 ELSE @]
    BY <1>4 DEF Lookup
  <2>3. \A i \in Rows : sessions[i] \in SessionRow /\ sessions[i].shown \in 0..2
    BY Tables, RowsRange DEF SessionRow
  <2>4. Rows' = Rows /\ \A i \in Rows : i # k => sessions'[i] = sessions[i]
    BY <2>2 DEF Rows
  <2>5. sessions'[k] = [sessions[k] EXCEPT !.shown = IF @ < 2 THEN @ + 1 ELSE @]
    BY <2>1, <2>2 DEF Rows
  <2>6. /\ sessions'[k].ended = sessions[k].ended /\ sessions'[k].device = sessions[k].device
        /\ sessions'[k].shown \in 1..2 /\ sessions'[k].shown >= sessions[k].shown
        /\ sessions[k].shown >= 1 => sessions'[k].shown = 2
    BY <2>1, <2>3, <2>5 DEF SessionRow
  <2>7. /\ \A d \in Calls : d # c => call'[d] = call[d]
        /\ call'[c].token = k /\ call'[c].op = "refresh" /\ call'[c].stage \in {"revoke", "reuse", "reply"}
        /\ ~Presents(c)
    BY <1>2, <1>4 DEF Advances, Same, Presents
  <2>8. \A d \in Calls : d # c /\ Presents(d)' =>
           Presents(d) /\ call[d].token \in Rows /\ Token(d)' = sessions'[call[d].token]
    BY <2>7, CallFits DEF Fit, ProperCall, Presents, Token
  <2>9. \A i \in Rows : sessions'[i].shown >= sessions[i].shown /\ sessions'[i].shown \in Int
                        /\ sessions'[i].ended = sessions[i].ended /\ sessions'[i].device = sessions[i].device
    BY <2>3, <2>4, <2>6
  <2>10. Token(c)' = sessions'[k]
    BY <2>7 DEF Token
  <2>11. \A d \in Calls : Presents(d)' => Token(d)'.shown >= 1
    BY <2>3, <2>6, <2>8, <2>9, <2>10 DEF AlarmInv, Token
  <2>12. ASSUME NEW d \in Calls, d # c, Presents(d)', call'[d].token = k
         PROVE  sessions'[k].shown >= 2
    BY <2>1, <2>3, <2>6, <2>7, <2>8, <2>12 DEF AlarmInv, Token
  <2>13. \A d, e \in Calls :
           Presents(d)' /\ Presents(e)' /\ call'[d].token = call'[e].token /\ d # e => Token(d)'.shown >= 2
    <3> SUFFICES ASSUME NEW d \in Calls, NEW e \in Calls, Presents(d)', Presents(e)',
                        call'[d].token = call'[e].token, d # e
                 PROVE  Token(d)'.shown >= 2
      OBVIOUS
    <3>1. CASE d = c
      BY <2>7, <2>10, <2>12, <3>1
    <3>2. CASE e = c
      BY <2>7, <2>12, <3>2 DEF Token
    <3>3. CASE d # c /\ e # c
      <4>1. Token(d).shown >= 2
        BY <2>7, <2>8, <3>3 DEF AlarmInv
      <4> QED BY <2>3, <2>8, <2>9, <3>3, <4>1 DEF Token
    <3> QED BY <3>1, <3>2, <3>3
  <2>14. \A i \in Rows' : sessions'[i].ended = "exchange" => sessions'[i].shown >= 1
    BY <2>3, <2>4, <2>9 DEF AlarmInv
  <2>15. \A d \in Calls : Presents(d)' /\ Token(d)'.ended = "exchange" => Token(d)'.shown >= 2
    <3> SUFFICES ASSUME NEW d \in Calls, Presents(d)', Token(d)'.ended = "exchange"
                 PROVE  Token(d)'.shown >= 2
      OBVIOUS
    <3>1. CASE d = c
      <4>1. sessions[k].shown >= 1
        BY <2>1, <2>6, <2>10, <3>1 DEF AlarmInv
      <4> QED BY <2>6, <2>10, <3>1, <4>1
    <3>2. CASE d # c
      <4>1. Token(d).shown >= 2
        BY <2>8, <2>9, <3>2 DEF AlarmInv, Token
      <4> QED BY <2>3, <2>8, <2>9, <3>2, <4>1 DEF Token
    <3> QED BY <3>1, <3>2
  <2>16. \A d \in Calls : call'[d].stage \in {"alarm", "foreign"} =>
           d # c /\ call[d].stage = call'[d].stage /\ call[d].token \in Rows /\ Token(d)' = sessions'[call[d].token]
                 /\ call'[d].device = call[d].device
    <3> SUFFICES ASSUME NEW d \in Calls, call'[d].stage \in {"alarm", "foreign"}
                 PROVE  d # c /\ call[d].stage = call'[d].stage /\ call[d].token \in Rows
                        /\ Token(d)' = sessions'[call[d].token] /\ call'[d].device = call[d].device
      OBVIOUS
    <3>1. d # c /\ call'[d] = call[d]
      BY <2>7
    <3>2. call[d].token \in Rows
      BY <3>1, CallFits DEF Fit, ProperCall, CallRecord
    <3> QED BY <3>1, <3>2 DEF Token
  <2>17. \A d \in Calls : call'[d].stage = "alarm" => Token(d)'.ended # "no"
    BY <2>9, <2>16 DEF AlarmInv, Token
  <2>18. \A d \in Calls : call'[d].stage = "foreign" => Token(d)'.device # call'[d].device
    BY <2>9, <2>16 DEF AlarmInv, Token
  <2> QED BY <2>11, <2>13, <2>14, <2>15, <2>17, <2>18 DEF AlarmInv
<1> QED BY <1>3, <1>4

(* A refresh exchanges its token: whoever presented it too is the second.  *)
LEMMA AlarmExchange ==
  ASSUME TypeOK, AlarmInv, NEW c \in Calls, call[c].op = "refresh", call[c].stage = "revoke",
         Advances(c, "insert"), sessions' = Revoked({call[c].token}, "exchange")
  PROVE  AlarmInv'
<1> DEFINE k == call[c].token
<1>1. k \in Rows /\ Presents(c)
  BY CallFits DEF Fit, ProperCall, Presents
<1>2. Rows' = Rows
  BY DEF Rows, Revoked
<1>3. \A i \in Rows : sessions[i] \in SessionRow /\ sessions[i].shown \in 0..2
  BY Tables, RowsRange DEF SessionRow
<1>4. \A i \in Rows : /\ sessions'[i].shown = sessions[i].shown /\ sessions'[i].device = sessions[i].device
                      /\ sessions'[i].ended = sessions[i].ended \/ (i = k /\ sessions'[i].ended = "exchange")
  <2> SUFFICES ASSUME NEW i \in Rows
               PROVE  /\ sessions'[i].shown = sessions[i].shown /\ sessions'[i].device = sessions[i].device
                      /\ sessions'[i].ended = sessions[i].ended \/ (i = k /\ sessions'[i].ended = "exchange")
    OBVIOUS
  <2>1. CASE i \in {k} \cap Unrevoked
    <3>1. sessions'[i] = [sessions[i] EXCEPT !.ended = "exchange"] /\ i = k
      BY <2>1 DEF Revoked
    <3> QED BY <1>3, <3>1 DEF SessionRow
  <2>2. CASE i \notin {k} \cap Unrevoked
    BY <2>2 DEF Revoked
  <2> QED BY <2>1, <2>2
<1>5. /\ \A d \in Calls : d # c => call'[d] = call[d]
      /\ call'[c].stage = "insert"
  BY DEF Advances
<1>6. \A d \in Calls : Presents(d)' \/ call'[d].stage \in {"alarm", "foreign"} =>
         d # c /\ call'[d] = call[d] /\ Presents(d) /\ call[d].token \in Rows
           /\ Token(d)' = sessions'[call[d].token]
  <2> SUFFICES ASSUME NEW d \in Calls, Presents(d)' \/ call'[d].stage \in {"alarm", "foreign"}
               PROVE  d # c /\ call'[d] = call[d] /\ Presents(d) /\ call[d].token \in Rows
                      /\ Token(d)' = sessions'[call[d].token]
    OBVIOUS
  <2>1. d # c /\ call'[d] = call[d]
    BY <1>5 DEF Presents
  <2>2. call[d].op = "refresh"
    BY <2>1, CallFits DEF Fit, ProperCall, CallRecord, Presents
  <2>3. Presents(d)
    BY <2>1, <2>2 DEF Presents
  <2>4. call[d].token \in Rows
    BY <2>2, CallFits DEF Fit, ProperCall
  <2> QED BY <2>1, <2>3, <2>4 DEF Token
<1>7. \A d \in Calls : Presents(d)' => Token(d)'.shown >= 1
  <2> SUFFICES ASSUME NEW d \in Calls, Presents(d)' PROVE Token(d)'.shown >= 1
    OBVIOUS
  <2>1. Token(d)' = sessions'[call[d].token] /\ call[d].token \in Rows /\ Presents(d)
    BY <1>6
  <2>2. Token(d).shown >= 1
    BY <2>1 DEF AlarmInv
  <2> QED BY <1>4, <2>1, <2>2 DEF Token
<1>8. \A d, e \in Calls :
         Presents(d)' /\ Presents(e)' /\ call'[d].token = call'[e].token /\ d # e => Token(d)'.shown >= 2
  <2> SUFFICES ASSUME NEW d \in Calls, NEW e \in Calls, Presents(d)', Presents(e)',
                      call'[d].token = call'[e].token, d # e
               PROVE  Token(d)'.shown >= 2
    OBVIOUS
  <2>1. Token(d)' = sessions'[call[d].token] /\ call[d].token \in Rows
    BY <1>6
  <2>2. Presents(d) /\ Presents(e) /\ call[d].token = call[e].token
    BY <1>6
  <2>3. Token(d).shown >= 2
    BY <2>2 DEF AlarmInv
  <2> QED BY <1>4, <2>1, <2>3 DEF Token
<1>9. \A i \in Rows' : sessions'[i].ended = "exchange" => sessions'[i].shown >= 1
  <2>1. sessions[k].shown >= 1
    BY <1>1 DEF AlarmInv, Token
  <2> QED BY <1>2, <1>4, <2>1 DEF AlarmInv
<1>10. \A d \in Calls : Presents(d)' /\ Token(d)'.ended = "exchange" => Token(d)'.shown >= 2
  <2> SUFFICES ASSUME NEW d \in Calls, Presents(d)', Token(d)'.ended = "exchange"
               PROVE  Token(d)'.shown >= 2
    OBVIOUS
  <2>1. d # c /\ Presents(d) /\ call[d].token \in Rows /\ Token(d)' = sessions'[call[d].token]
    BY <1>6
  <2>2. CASE call[d].token = k
    BY <1>1, <1>4, <2>1, <2>2 DEF AlarmInv, Token
  <2>3. CASE call[d].token # k
    <3>1. Token(d).ended = "exchange"
      BY <1>4, <2>1, <2>3 DEF Token
    <3> QED BY <1>4, <2>1, <3>1 DEF AlarmInv, Token
  <2> QED BY <2>2, <2>3
<1>11. \A d \in Calls : call'[d].stage = "alarm" => Token(d)'.ended # "no"
  <2> SUFFICES ASSUME NEW d \in Calls, call'[d].stage = "alarm" PROVE Token(d)'.ended # "no"
    OBVIOUS
  <2>1. Token(d)' = sessions'[call[d].token] /\ call[d].token \in Rows /\ call[d].stage = "alarm"
    BY <1>6
  <2>2. Token(d).ended # "no"
    BY <2>1 DEF AlarmInv
  <2> QED BY <1>4, <2>1, <2>2 DEF Token
<1>12. \A d \in Calls : call'[d].stage = "foreign" => Token(d)'.device # call'[d].device
  <2> SUFFICES ASSUME NEW d \in Calls, call'[d].stage = "foreign" PROVE Token(d)'.device # call'[d].device
    OBVIOUS
  <2>1. /\ Token(d)' = sessions'[call[d].token] /\ call[d].token \in Rows /\ call[d].stage = "foreign"
        /\ call'[d].device = call[d].device
    BY <1>6
  <2>2. Token(d).device # call[d].device
    BY <2>1 DEF AlarmInv
  <2> QED BY <1>4, <2>1, <2>2 DEF Token
<1> QED BY <1>7, <1>8, <1>9, <1>10, <1>11, <1>12 DEF AlarmInv

LEMMA AlarmStatements ==
  ASSUME TypeOK, AlarmInv, NEW c \in Calls, Statements(c)
  PROVE  AlarmInv'
<1>1. call[c] \in CallRecord /\ ProperCall(call[c], Rows, tally.logouts)
  BY CallFits DEF Fit
<1>2. CASE ReadUser(c)
  <2>1. \E next \in {"reply", "reset", "count"} : Advances(c, next)
    BY <1>2, GotoAdvances DEF ReadUser
  <2>2. UNCHANGED sessions
    BY <1>2 DEF ReadUser
  <2> QED BY <2>1, <2>2, UnexchangedTabled, AlarmQuiet DEF Advances, Presents
<1>3. CASE ReadCount(c) \/ ListOldest(c)
  <2>1. /\ \A d \in Calls : d # c => call'[d] = call[d]
        /\ call'[c].stage \in {"write", "prune"}
    BY <1>1, <1>3 DEF ReadCount, ListOldest, TypeOK, CallRecord
  <2>2. UNCHANGED sessions
    BY <1>3 DEF ReadCount, ListOldest
  <2> QED BY <2>1, <2>2, UnexchangedTabled, AlarmQuiet DEF Presents
<1>4. CASE WriteCount(c) \/ Reset(c)
  <2>1. call'[c].stage \in {"reply", "list"} /\ UNCHANGED sessions
        /\ \A d \in Calls : d # c => call'[d] = call[d]
    BY <1>4, CountAdvances DEF Advances
  <2> QED BY <2>1, UnexchangedTabled, AlarmQuiet DEF Presents
<1>5. CASE Prune(c)
  <2>1. Advances(c, "device") /\ (UNCHANGED sessions \/ sessions' = Revoked(call[c].victims, "other"))
    BY <1>5, StatementAdvances DEF Prune
  <2>2. Unexchanged
    BY <2>1, UnexchangedTabled, UnexchangedRevoked
  <2> QED BY <2>1, <2>2, AlarmQuiet DEF Advances, Presents
<1>6. CASE RevokeDevice(c)
  <2>1. PICK next \in {"insert", "reply"} :
          Statement(c, next, Revoked(OfDevice(call[c].device), "other"), account, tally)
    BY <1>6 DEF RevokeDevice
  <2>2. Advances(c, next) /\ (UNCHANGED sessions \/ sessions' = Revoked(OfDevice(call[c].device), "other"))
    BY <2>1, StatementAdvances
  <2>3. Unexchanged
    BY <2>2, UnexchangedTabled, UnexchangedRevoked
  <2> QED BY <2>2, <2>3, AlarmQuiet DEF Advances, Presents
<1>7. CASE Insert(c)
  <2>1. Unexchanged
    BY <1>7, InsertCases, UnexchangedTabled, UnexchangedInserted
  <2>2. call'[c].stage = "reply" /\ \A d \in Calls : d # c => call'[d] = call[d]
    <3>1. CASE Inserts(c)
      <4>1. call' = [call EXCEPT ![c] = [call[c] EXCEPT !.stage = "reply", !.new = Len(sessions) + 1]]
        BY <3>1 DEF Inserts
      <4> QED BY <4>1 DEF TypeOK, CallRecord
    <3>2. CASE Goto(c, "reply")
      BY <3>2, GotoAdvances DEF Advances
    <3> QED BY <1>7, <3>1, <3>2, InsertCases
  <2> QED BY <2>1, <2>2, AlarmQuiet DEF Presents
<1>8. CASE Lookup(c)
  BY <1>8, AlarmLookup
<1>9. CASE Revoke(c) /\ call[c].op = "refresh"
  <2>1. /\ call[c].stage = "revoke" /\ Advances(c, "insert")
        /\ UNCHANGED sessions \/ sessions' = Revoked({call[c].token}, "exchange")
    BY <1>9, StatementAdvances DEF Revoke
  <2>2. CASE UNCHANGED sessions
    BY <2>1, <2>2, UnexchangedTabled, AlarmQuiet DEF Advances, Presents
  <2> QED BY <1>9, <2>1, <2>2, AlarmExchange
<1>10. CASE Revoke(c) /\ call[c].op # "refresh"
  <2>1. PICK S : S = {call[c].token} /\ Statement(c, "reply", Revoked(S, "other"), account, tally)
    BY <1>10 DEF Revoke
  <2>2. Advances(c, "reply") /\ (UNCHANGED sessions \/ sessions' = Revoked(S, "other"))
    BY <2>1, StatementAdvances
  <2>3. Unexchanged
    BY <2>2, UnexchangedTabled, UnexchangedRevoked
  <2> QED BY <2>2, <2>3, AlarmQuiet DEF Advances, Presents
<1>11. CASE DetectReuse(c)
  <2>1. PICK next \in {"alarm", "foreign", "reply"} :
          /\ Goto(c, next)
          /\ next = "alarm" => Reused(call[c].token)
          /\ next = "foreign" => sessions[call[c].token].device # call[c].device
    BY <1>11 DEF DetectReuse
  <2>2. Advances(c, next) /\ UNCHANGED sessions /\ call[c].stage = "reuse"
    BY <1>11, <2>1, GotoAdvances DEF DetectReuse
  <2>3. Presents(c) /\ (next \in {"alarm", "foreign"} => Presents(c)')
    BY <1>1, <2>2 DEF ProperCall, CallRecord, Presents, Advances, Same
  <2>4. next = "alarm" => Token(c).ended # "no"
    BY <2>1 DEF Reused, Token
  <2>5. next = "foreign" => Token(c).device # call[c].device
    BY <2>1 DEF Token
  <2> QED BY <2>2, <2>3, <2>4, <2>5, UnexchangedTabled, AlarmQuiet DEF Advances
<1>12. CASE RevokeAll(c)
  <2>0. PICK next \in {"foreign", "reply"} : \E past :
          /\ Statement(c, next, Revoked(Rows, "other"), account, past)
          /\ next = "foreign" => call[c].stage = "alarm" /\ sessions[call[c].token].device # call[c].device
    BY <1>12 DEF RevokeAll
  <2>1. PICK past :
          /\ Statement(c, next, Revoked(Rows, "other"), account, past)
          /\ next = "foreign" => call[c].stage = "alarm" /\ sessions[call[c].token].device # call[c].device
    BY <2>0
  <2>2. Advances(c, next) /\ (UNCHANGED sessions \/ sessions' = Revoked(Rows, "other"))
    BY <2>1, StatementAdvances
  <2>3. Unexchanged
    BY <2>2, UnexchangedTabled, UnexchangedRevoked
  <2>4. next = "foreign" => Presents(c) /\ Presents(c)'
    BY <1>1, <2>1, <2>2 DEF ProperCall, CallRecord, Presents, Advances, Same
  <2>5. next = "foreign" => Token(c).device # call[c].device
    BY <2>1 DEF Token
  <2>6. Presents(c)' => next = "foreign"
    BY <2>2 DEF Presents, Advances
  <2> QED BY <2>2, <2>3, <2>4, <2>5, <2>6, AlarmQuiet DEF Advances
<1> QED BY <1>2, <1>3, <1>4, <1>5, <1>6, <1>7, <1>8, <1>9, <1>10, <1>11, <1>12 DEF Statements

LEMMA AlarmStep ==
  ASSUME TypeOK, AlarmInv, [AccountsNext]_allVars
  PROVE  AlarmInv'
<1>1. CASE Tabled /\ UNCHANGED call
  BY <1>1 DEF Tabled, AlarmInv, Presents, Token, Rows
<1>2. CASE LockEnds /\ UNCHANGED call
  BY <1>2 DEF LockEnds, AlarmInv, Presents, Token, Rows
<1>3. CASE Expire /\ UNCHANGED call /\ Calls # {}
  <2>1. PICK c \in Calls : call' = call
    BY <1>3
  <2>2. call[c].stage \in {"alarm", "foreign"} => Presents(c)
    BY CallFits DEF Fit, ProperCall, CallRecord, Presents
  <2> QED BY <1>3, <2>1, <2>2, UnexchangedExpired, AlarmQuiet DEF Presents, Same
<1>4. CASE Expire /\ Calls = {}
  <2>1. Unexchanged
    BY <1>4, UnexchangedExpired
  <2>2. \A i \in Rows' : sessions'[i].ended = "exchange" => sessions'[i].shown >= 1
    BY <2>1, ShownFits DEF AlarmInv, Unexchanged
  <2> QED BY <1>4, <2>2 DEF AlarmInv
<1>5. ASSUME NEW c \in Calls, Restarts(c) PROVE AlarmInv'
  BY <1>5, UnexchangedTabled, AlarmQuiet DEF Restarts, Presents
<1>6. ASSUME NEW c \in Calls, Verifies(c) PROVE AlarmInv'
  BY <1>6, UnexchangedTabled, AlarmQuiet DEF Verifies, Tabled, Advances, Presents
<1> QED BY <1>1, <1>2, <1>3, <1>4, <1>5, <1>6, AlarmStatements, AccountsCases

(* Reuse detection is raised only for a token of another device, for one   *)
(* that was presented again after it was exchanged, or for one that a      *)
(* logout or the limit of sessions revoked.                                *)
THEOREM AccountsAlarmIsEarned == AccountsSpec => []AlarmIsEarned
<1>1. AccountsInit => AlarmInv
  BY DEF AccountsInit, InitAfter, AlarmInv, Presents, Rows, NoCall
<1>2. AccountsTypeOK /\ AlarmInv /\ [AccountsNext]_allVars => AlarmInv'
  BY AlarmStep DEF AccountsTypeOK
<1>3. AccountsTypeOK /\ AlarmInv => AlarmIsEarned
  <2> SUFFICES ASSUME TypeOK, AlarmInv, NEW c \in Calls, call[c].stage \in {"alarm", "foreign"}
               PROVE  \/ Token(c).device # call[c].device
                      \/ Token(c).ended = "exchange" /\ Token(c).shown > 1
                      \/ Token(c).ended = "other"
    BY DEF AccountsTypeOK, AlarmIsEarned, Token
  <2>1. CASE call[c].stage = "foreign"
    BY <2>1 DEF AlarmInv
  <2>2. CASE call[c].stage = "alarm"
    <3>1. call[c].op = "refresh" /\ call[c].token \in Rows
      BY <2>2, CallFits DEF Fit, ProperCall, CallRecord
    <3>2. Token(c).ended \in {"exchange", "other"} /\ Token(c).shown \in 0..2
      BY <2>2, <3>1, ShownFits DEF AlarmInv, Token
    <3>3. Token(c).ended = "exchange" => Token(c).shown >= 2
      BY <2>2, <3>1 DEF AlarmInv, Presents
    <3> QED BY <3>2, <3>3
  <2> QED BY <2>1, <2>2
<1> QED BY <1>1, <1>2, <1>3, AccountsTypes, PTL DEF AccountsSpec

(* ----------------------------- verification ---------------------------- *)

CodeStages == {"code", "consume", "target", "mark"}

(* The statements on sessions do not lead to those on the code.            *)
LEMMA StatementsStay ==
  ASSUME TypeOK, NEW c \in Calls, Statements(c)
  PROVE  /\ call'[c].stage \notin CodeStages /\ call[c].stage \notin CodeStages
         /\ call'[c].op = call[c].op
         /\ \A d \in Calls : d # c => call'[d] = call[d]
<1>1. call[c] \in CallRecord
  BY DEF TypeOK
<1>2. CASE ReadCount(c) \/ ListOldest(c)
  BY <1>1, <1>2 DEF ReadCount, ListOldest, TypeOK, CallRecord, CodeStages
<1>3. CASE Insert(c)
  <2>1. CASE Inserts(c)
    <3>1. call' = [call EXCEPT ![c] = [call[c] EXCEPT !.stage = "reply", !.new = Len(sessions) + 1]]
      BY <2>1 DEF Inserts
    <3> QED BY <1>1, <1>3, <3>1, InsertCases DEF TypeOK, CallRecord, CodeStages
  <2>2. CASE Goto(c, "reply")
    BY <1>3, <2>2, InsertCases, GotoAdvances DEF Advances, Same, CodeStages
  <2> QED BY <1>3, <2>1, <2>2, InsertCases
<1>4. CASE ~(ReadCount(c) \/ ListOldest(c) \/ Insert(c))
  <2>1. PICK next \in {"reply", "reset", "count", "list", "device", "insert", "revoke", "reuse", "alarm", "foreign"} :
          Goto(c, next)
    BY <1>4 DEF Statements, ReadUser, WriteCount, Reset, Prune, RevokeDevice, Lookup, Revoke, DetectReuse,
          RevokeAll, Statement
  <2>2. call[c].stage \in {"user", "write", "reset", "prune", "device", "lookup", "revoke", "reuse", "all", "alarm", "foreign"}
    BY <1>4 DEF Statements, ReadUser, WriteCount, Reset, Prune, RevokeDevice, Lookup, Revoke, DetectReuse, RevokeAll
  <2> QED BY <2>1, <2>2, GotoAdvances DEF Advances, Same, CodeStages
<1> QED BY <1>2, <1>3, <1>4

LEMMA CodeQuiet ==
  ASSUME CodeInv, UNCHANGED <<users, code, verified, proven>>,
         \A d \in Calls : call'[d].stage \in CodeStages => call'[d].stage = call[d].stage
  PROVE  CodeInv'
BY DEF CodeInv, At, CodeStages

LEMMA CodeStep ==
  ASSUME AccountsTypeOK, CodeInv, [AccountsNext]_allVars
  PROVE  CodeInv'
<1>1. TypeOK /\ users \in 0..1
  BY DEF AccountsTypeOK
<1>2. CASE UNCHANGED allVars
  BY <1>2, CodeQuiet DEF allVars, vars, accounts
<1>3. ASSUME NEW c \in Calls, Restarts(c), UNCHANGED <<users, code, verified, proven>> PROVE CodeInv'
  <2>1. \A d \in Calls : call'[d].stage \in CodeStages => call'[d].stage = call[d].stage
    BY <1>3 DEF Restarts, CodeStages
  <2> QED BY <1>3, <2>1, CodeQuiet
<1>4. ASSUME NEW c \in Calls, OfUser(c) PROVE CodeInv'
  <2>1. UNCHANGED <<users, code, verified, proven>>
    BY <1>4 DEF OfUser, accounts
  <2>2. CASE Request(c)
    BY <1>1, <1>3, <2>1, <2>2, RequestRestarts
  <2>3. CASE Statements(c)
    BY <1>1, <2>1, <2>3, StatementsStay, CodeQuiet
  <2> QED BY <1>4, <2>2, <2>3 DEF OfUser
<1>5. ASSUME NEW c \in Calls, DeliverTo(c) \/ BreakOff(c) PROVE CodeInv'
  BY <1>1, <1>3, <1>5, DeliverRestarts, BreakRestarts DEF DeliverTo, BreakOff
<1>6. ASSUME NEW c \in Calls, AskRegister(c) \/ AskVerify(c) PROVE CodeInv'
  BY <1>1, <1>3, <1>6, StartRestarts DEF AskRegister, AskVerify, accounts
<1>7. ASSUME NEW c \in Calls, InsertFirst(c) PROVE CodeInv'
  <2>1. UNCHANGED <<users, code, verified, proven>> /\ Statements(c)
    BY <1>7 DEF InsertFirst, Statements
  <2> QED BY <1>1, <2>1, StatementsStay, CodeQuiet
<1>8. ASSUME NEW c \in Calls, CheckTaken(c) PROVE CodeInv'
  <2>1. UNCHANGED <<users, code, verified, proven>> /\ (Goto(c, "reply") \/ Goto(c, "create"))
    BY <1>8 DEF CheckTaken, accounts
  <2>2. \A d \in Calls : call'[d].stage \in CodeStages => call'[d].stage = call[d].stage
    BY <1>1, <2>1, GotoAdvances DEF Advances, CodeStages
  <2> QED BY <2>1, <2>2, CodeQuiet
<1>9. ASSUME NEW c \in Calls, NEW next, Goto(c, next)
      PROVE  /\ call'[c].stage = next
             /\ \A d \in Calls : d # c => call'[d] = call[d]
  BY <1>1, <1>9, GotoAdvances DEF Advances
<1>10. ASSUME NEW c \in Calls, CreateUser(c) PROVE CodeInv'
  <2>1. CASE users' = users + 1 /\ ~Registered /\ Goto(c, "code")
    <3>1. users = 0 /\ users' = 1
      BY <1>1, <2>1 DEF Registered
    <3>2. code = "none" /\ ~verified /\ UNCHANGED <<code, verified, proven>>
      BY <1>10, <3>1 DEF CodeInv, CreateUser
    <3>3. \A d \in Calls : call'[d].stage \in CodeStages => d = c /\ call'[d].stage = "code"
      BY <1>9, <2>1, <3>1, <3>2 DEF CodeInv, At, CodeStages
    <3> QED BY <3>1, <3>2, <3>3 DEF CodeInv, At, CodeStages
  <2>2. CASE users' = users /\ Goto(c, "reply")
    <3>1. \A d \in Calls : call'[d].stage \in CodeStages => call'[d].stage = call[d].stage
      BY <1>9, <2>2 DEF CodeStages
    <3> QED BY <1>10, <2>2, <3>1, CodeQuiet DEF CreateUser
  <2> QED BY <1>10, <2>1, <2>2 DEF CreateUser, Fails
<1>11. ASSUME NEW c \in Calls, IssueCode(c) PROVE CodeInv'
  <2>1. At(c, "code") /\ Goto(c, "insert") /\ UNCHANGED <<users, verified, proven>>
    BY <1>11 DEF IssueCode
  <2>2. code = "none" /\ users = 1 /\ ~verified
    BY <2>1 DEF CodeInv
  <2>3. \A d \in Calls : call'[d].stage \notin CodeStages
    BY <1>9, <2>1, <2>2 DEF CodeInv, At, CodeStages
  <2> QED BY <2>1, <2>2, <2>3 DEF CodeInv, At, CodeStages
<1>12. ASSUME NEW c \in Calls, FindCode(c) PROVE CodeInv'
  <2>1. UNCHANGED <<users, code, verified, proven>>
    BY <1>12 DEF FindCode, accounts
  <2>2. PICK next \in {"consume", "reply"} : Goto(c, next) /\ (next = "consume" => code = "issued")
    BY <1>12 DEF FindCode, Fails
  <2>3. \A d \in Calls : call'[d].stage \in CodeStages =>
           call'[d].stage = call[d].stage \/ (call'[d].stage = "consume" /\ code = "issued")
    BY <1>9, <2>2 DEF CodeStages
  <2> QED BY <2>1, <2>3 DEF CodeInv, At, CodeStages
<1>13. ASSUME NEW c \in Calls, ConsumeCode(c) PROVE CodeInv'
  <2>1. At(c, "consume") /\ UNCHANGED <<users, verified, proven>>
    BY <1>13 DEF ConsumeCode
  <2>2. code # "none" /\ users # 0 /\ \A d \in Calls : ~At(d, "code")
    BY <2>1 DEF CodeInv
  <2>3. CASE code' = "consumed" /\ Goto(c, "target")
    <3>1. \A d \in Calls : call'[d].stage \in CodeStages => call'[d].stage = call[d].stage \/ call'[d].stage = "target"
      BY <1>9, <2>3
    <3> QED BY <2>1, <2>2, <2>3, <3>1 DEF CodeInv, At, CodeStages
  <2>4. CASE code' = code /\ Goto(c, "reply")
    <3>1. \A d \in Calls : call'[d].stage \in CodeStages => call'[d].stage = call[d].stage
      BY <1>9, <2>4 DEF CodeStages
    <3> QED BY <2>1, <2>4, <3>1, CodeQuiet
  <2> QED BY <1>13, <2>3, <2>4 DEF ConsumeCode, Fails
<1>14. ASSUME NEW c \in Calls, CompareTarget(c) PROVE CodeInv'
  <2>1. At(c, "target") /\ UNCHANGED <<users, code, verified>> /\ proven' = (proven \/ call[c].right)
    BY <1>14 DEF CompareTarget
  <2>2. code = "consumed"
    BY <2>1 DEF CodeInv
  <2>3. PICK next \in {"mark", "reply"} : Goto(c, next) /\ (next = "mark" => call[c].right)
    BY <1>14 DEF CompareTarget, Fails, OwnTarget
  <2>4. \A d \in Calls : call'[d].stage \in CodeStages =>
           call'[d].stage = call[d].stage \/ (call'[d].stage = "mark" /\ proven')
    BY <1>9, <2>1, <2>3 DEF CodeStages
  <2>5. proven => proven'
    BY <2>1
  <2> QED BY <2>1, <2>2, <2>4, <2>5 DEF CodeInv, At, CodeStages
<1>15. ASSUME NEW c \in Calls, MarkVerified(c) PROVE CodeInv'
  <2>1. At(c, "mark") /\ Goto(c, "reply") /\ UNCHANGED <<users, code, proven>>
    BY <1>15 DEF MarkVerified, Fails
  <2>2. code = "consumed" /\ proven /\ users # 0
    BY <2>1 DEF CodeInv
  <2>3. \A d \in Calls : call'[d].stage \in CodeStages => call'[d].stage = call[d].stage
    BY <1>9, <2>1 DEF CodeStages
  <2> QED BY <2>1, <2>2, <2>3 DEF CodeInv, At, CodeStages
<1>16. CASE (Expire \/ LockEnds) /\ UNCHANGED accounts
  BY <1>16, CodeQuiet DEF Expire, LockEnds, accounts
<1>17. CASE CodeExpires
  <2>1. code = "issued" /\ code' = "expired" /\ UNCHANGED <<users, verified, proven, call>>
    BY <1>17 DEF CodeExpires
  <2> QED BY <2>1 DEF CodeInv, At
<1> QED BY <1>2, <1>4, <1>5, <1>6, <1>7, <1>8, <1>10, <1>11, <1>12, <1>13, <1>14, <1>15, <1>16, <1>17
        DEF AccountsNext, RegisterOrVerify

Marking(c) == At(c, "target") \/ At(c, "mark")

(* A call that sees to the verification goes on doing so, or the step      *)
(* leaves something to blame.                                              *)
LEMMA HopeQuiet ==
  ASSUME HopeInv, UNCHANGED <<users, code>>, verified => verified', known => known', spoilt \subseteq spoilt',
         \A d \in Calls : \/ spoilt' # {}
                          \/ /\ At(d, "code") => At(d, "code")'
                             /\ Telling(d) => Telling(d)' \/ known'
                             /\ Marking(d) => Marking(d)' \/ verified'
  PROVE  HopeInv'
<1>1. CASE spoilt' # {}
  BY <1>1 DEF HopeInv
<1>2. CASE spoilt' = {}
  <2>1. spoilt = {}
    BY <1>2
  <2>2. \A d \in Calls : /\ At(d, "code") => At(d, "code")'
                         /\ Telling(d) => Telling(d)' \/ known'
                         /\ Marking(d) => Marking(d)' \/ verified'
    BY <1>2
  <2>3. code = "none" /\ users = 1 => \E d \in Calls : At(d, "code")'
    BY <2>1, <2>2 DEF HopeInv
  <2>4. code = "issued" => known' \/ \E d \in Calls : Telling(d)'
    BY <2>1, <2>2 DEF HopeInv
  <2>5. code = "consumed" => verified' \/ \E d \in Calls : Marking(d)'
    BY <2>1, <2>2 DEF HopeInv, Marking
  <2>6. code # "expired"
    BY <2>1 DEF HopeInv
  <2> QED BY <2>3, <2>4, <2>5, <2>6 DEF HopeInv, Marking
<1> QED BY <1>1, <1>2

LEMMA HopeStep ==
  ASSUME AccountsTypeOK, CodeInv, HopeInv, [AccountsNext]_allVars
  PROVE  HopeInv'
<1>1. TypeOK /\ users \in 0..1
  BY DEF AccountsTypeOK
<1> DEFINE Idle(c) == ~At(c, "code") /\ ~Telling(c) /\ ~Marking(c)
<1>2. CASE UNCHANGED allVars
  BY <1>2, HopeQuiet DEF allVars, vars, accounts, At, Telling, Marking
<1>3. ASSUME NEW c \in Calls, Idle(c), \A d \in Calls : d # c => call'[d] = call[d],
             UNCHANGED <<users, code>>, verified => verified', known => known', spoilt \subseteq spoilt'
      PROVE  HopeInv'
  <2>1. \A d \in Calls : /\ At(d, "code") => At(d, "code")'
                         /\ Telling(d) => Telling(d)'
                         /\ Marking(d) => Marking(d)'
    BY <1>3 DEF At, Telling, Marking
  <2> QED BY <1>3, <2>1, HopeQuiet
<1>4. ASSUME NEW c \in Calls, OfUser(c) PROVE HopeInv'
  <2>1. UNCHANGED <<users, code, verified, known, spoilt>>
    BY <1>4 DEF OfUser, accounts
  <2>2. CASE Request(c)
    <3>0. PICK op \in {"login", "refresh", "logout", "logout_all", "logout_device"} : \E d, k, right : Start(c, op, d, k, right)
      BY <2>2 DEF Request
    <3>1. PICK d, k, right : Start(c, op, d, k, right)
      BY <3>0
    <3>2. Restarts(c) /\ call[c].stage = "idle"
      BY <1>1, <3>1, StartRestarts
    <3>3. Idle(c)
      BY <3>2 DEF At, Telling, Marking
    <3> QED BY <1>3, <2>1, <3>2, <3>3 DEF Restarts
  <2>3. CASE Statements(c) /\ call[c].op # "register"
    <3>1. call[c].stage \notin CodeStages /\ \A d \in Calls : d # c => call'[d] = call[d]
      BY <1>1, <2>3, StatementsStay
    <3>2. Idle(c)
      BY <2>3, <3>1 DEF At, Telling, Marking, CodeStages
    <3> QED BY <1>3, <2>1, <3>1, <3>2
  <2> QED BY <1>4, <2>2, <2>3 DEF OfUser
<1>5. ASSUME NEW c \in Calls, AskRegister(c) \/ AskVerify(c) PROVE HopeInv'
  <2>1. Restarts(c) /\ call[c].stage = "idle"
    BY <1>1, <1>5, StartRestarts DEF AskRegister, AskVerify
  <2>2. UNCHANGED <<users, code, verified, known, spoilt>>
    BY <1>5 DEF AskRegister, AskVerify, accounts
  <2>3. Idle(c)
    BY <2>1 DEF At, Telling, Marking
  <2> QED BY <1>3, <2>1, <2>2, <2>3 DEF Restarts
<1>6. ASSUME NEW c \in Calls, BreakOff(c) PROVE HopeInv'
  <2>1. UNCHANGED <<users, code, verified, known>> /\ Restarts(c)
    BY <1>1, <1>6, BreakRestarts DEF BreakOff
  <2>2. CASE Owes(c)
    <3>1. spoilt' = spoilt \cup {"broken off"}
      BY <1>6, <2>2 DEF BreakOff
    <3> QED BY <2>1, <3>1 DEF HopeInv
  <2>3. CASE ~Owes(c)
    <3>1. spoilt' = spoilt
      BY <1>6, <2>3 DEF BreakOff
    <3>2. At(c, "code") => call[c].op = "register"
      BY <1>1, CallFits DEF Fit, ProperCall, CallRecord, At
    <3>3. Idle(c)
      BY <2>3, <3>2 DEF Owes, Telling, Marking
    <3> QED BY <1>3, <2>1, <3>1, <3>3 DEF Restarts
  <2> QED BY <2>2, <2>3
<1>7. ASSUME NEW c \in Calls, DeliverTo(c) PROVE HopeInv'
  <2>1. /\ UNCHANGED <<users, code, verified, spoilt>> /\ Restarts(c) /\ call[c].stage = "reply"
        /\ known' = (known \/ (call[c].op = "register" /\ call[c].new # 0 /\ code # "none"))
    BY <1>1, <1>7, DeliverRestarts DEF DeliverTo, Deliver
  <2>2. CASE Telling(c)
    <3>1. ~At(c, "code") /\ ~Marking(c) /\ (code = "none" \/ known')
      BY <2>1, <2>2 DEF At, Marking, Telling
    <3>2. CASE known'
      <4>1. \A d \in Calls : /\ At(d, "code") => At(d, "code")'
                             /\ Marking(d) => Marking(d)'
        BY <2>1, <3>1 DEF Restarts, At, Marking
      <4> QED BY <2>1, <3>2, <4>1, HopeQuiet
    <3>3. CASE code = "none"
      <4>1. \A d \in Calls : At(d, "code") => At(d, "code")'
        BY <2>1, <3>1 DEF Restarts, At
      <4> QED BY <2>1, <3>3, <4>1 DEF HopeInv
    <3> QED BY <3>1, <3>2, <3>3
  <2>3. CASE ~Telling(c)
    <3>1. Idle(c)
      BY <2>1, <2>3 DEF At, Marking
    <3>2. known => known'
      BY <2>1
    <3> QED BY <1>3, <2>1, <3>1, <3>2 DEF Restarts
  <2> QED BY <2>2, <2>3
<1>8. ASSUME NEW c \in Calls, NEW next, Goto(c, next)
      PROVE  /\ call'[c].stage = next /\ call'[c].op = call[c].op
             /\ \A d \in Calls : d # c => call'[d] = call[d]
  BY <1>1, <1>8, GotoAdvances DEF Advances, Same
<1>9. ASSUME NEW c \in Calls, InsertFirst(c) PROVE HopeInv'
  <2>1. /\ At(c, "insert") /\ call[c].op = "register" /\ UNCHANGED <<users, code, verified, known>>
        /\ spoilt' = IF call'[c].new = 0 THEN spoilt \cup {"not told"} ELSE spoilt
    BY <1>9 DEF InsertFirst
  <2>2. CASE call'[c].new = 0
    <3>1. spoilt' # {}
      BY <2>1, <2>2
    <3> QED BY <2>1, <3>1 DEF HopeInv
  <2>3. CASE call'[c].new # 0
    <3>1. Statements(c)
      BY <1>9 DEF InsertFirst, Statements
    <3>2. call'[c].op = "register" /\ \A d \in Calls : d # c => call'[d] = call[d]
      BY <1>1, <2>1, <3>1, StatementsStay
    <3>3. call'[c].stage = "reply"
      <4>1. CASE Inserts(c)
        <5>1. call' = [call EXCEPT ![c] = [call[c] EXCEPT !.stage = "reply", !.new = Len(sessions) + 1]]
          BY <4>1 DEF Inserts
        <5> QED BY <1>1, <5>1 DEF TypeOK, CallRecord
      <4>2. CASE Goto(c, "reply")
        BY <1>8, <4>2
      <4> QED BY <1>1, <1>9, <4>1, <4>2, InsertCases DEF InsertFirst
    <3>4. Telling(c)' /\ ~At(c, "code") /\ ~Marking(c)
      BY <2>1, <2>3, <3>2, <3>3 DEF Telling, At, Marking
    <3>5. \A d \in Calls : /\ At(d, "code") => At(d, "code")'
                           /\ Telling(d) => Telling(d)'
                           /\ Marking(d) => Marking(d)'
      BY <3>2, <3>4 DEF At, Telling, Marking
    <3>6. spoilt' = spoilt
      BY <2>1, <2>3
    <3> QED BY <2>1, <3>5, <3>6, HopeQuiet
  <2> QED BY <2>2, <2>3
<1>10. ASSUME NEW c \in Calls, CheckTaken(c) \/ FindCode(c) PROVE HopeInv'
  <2>1. UNCHANGED <<users, code, verified, known, spoilt>> /\ Idle(c)
    BY <1>10 DEF CheckTaken, FindCode, accounts, At, Telling, Marking
  <2>2. \E next : Goto(c, next)
    BY <1>10 DEF CheckTaken, FindCode, Fails
  <2> QED BY <1>3, <1>8, <2>1, <2>2
<1>11. ASSUME NEW c \in Calls, CreateUser(c) PROVE HopeInv'
  <2>1. UNCHANGED <<code, verified, known, spoilt>> /\ Idle(c)
    BY <1>11 DEF CreateUser, At, Telling, Marking
  <2>2. CASE users' = users /\ Goto(c, "reply")
    BY <1>3, <1>8, <2>1, <2>2
  <2>3. CASE users' = users + 1 /\ ~Registered /\ Goto(c, "code")
    <3>1. users = 0
      BY <1>1, <2>3 DEF Registered
    <3>2. code = "none" /\ At(c, "code")'
      BY <1>8, <2>3, <3>1 DEF CodeInv, At
    <3> QED BY <2>1, <3>2 DEF HopeInv
  <2> QED BY <1>11, <2>2, <2>3 DEF CreateUser, Fails
<1>12. ASSUME NEW c \in Calls, IssueCode(c) PROVE HopeInv'
  <2>1. At(c, "code") /\ Goto(c, "insert")
    BY <1>12 DEF IssueCode
  <2>2. CASE code' = "issued"
    <3>1. call[c].op = "register"
      BY <1>1, <2>1, CallFits DEF Fit, ProperCall, CallRecord, At
    <3>2. Telling(c)'
      BY <1>8, <2>1, <3>1 DEF Telling, At
    <3> QED BY <2>2, <3>2 DEF HopeInv
  <2>3. CASE spoilt' = spoilt \cup {"not issued"}
    BY <2>3 DEF HopeInv
  <2> QED BY <1>12, <2>2, <2>3 DEF IssueCode
<1>13. ASSUME NEW c \in Calls, ConsumeCode(c) PROVE HopeInv'
  <2>1. CASE code' = "consumed" /\ Goto(c, "target")
    <3>1. Marking(c)'
      BY <1>8, <2>1 DEF Marking, At
    <3> QED BY <2>1, <3>1 DEF HopeInv, Marking
  <2>2. CASE code' = code /\ Goto(c, "reply")
    <3>1. UNCHANGED <<users, verified, known, spoilt>> /\ Idle(c)
      BY <1>13 DEF ConsumeCode, At, Telling, Marking
    <3> QED BY <1>3, <1>8, <2>2, <3>1
  <2> QED BY <1>13, <2>1, <2>2 DEF ConsumeCode, Fails
<1>14. ASSUME NEW c \in Calls, CompareTarget(c) PROVE HopeInv'
  <2>1. UNCHANGED <<users, code, verified, known>> /\ At(c, "target")
    BY <1>14 DEF CompareTarget
  <2>2. CASE spoilt' # {}
    BY <2>2 DEF HopeInv
  <2>3. CASE spoilt' = spoilt /\ Goto(c, "mark")
    <3>1. Marking(c)' /\ ~At(c, "code") /\ ~Telling(c)
      BY <1>8, <2>1, <2>3 DEF Marking, At, Telling
    <3>2. \A d \in Calls : /\ At(d, "code") => At(d, "code")'
                           /\ Telling(d) => Telling(d)'
                           /\ Marking(d) => Marking(d)'
      BY <1>8, <2>3, <3>1 DEF At, Telling, Marking
    <3> QED BY <2>1, <2>3, <3>2, HopeQuiet
  <2> QED BY <1>14, <2>2, <2>3 DEF CompareTarget
<1>15. ASSUME NEW c \in Calls, MarkVerified(c) PROVE HopeInv'
  <2>1. UNCHANGED <<users, code, known>> /\ At(c, "mark")
    BY <1>15 DEF MarkVerified
  <2>2. code = "consumed"
    BY <2>1 DEF CodeInv
  <2> QED BY <1>15, <2>1, <2>2 DEF MarkVerified, HopeInv
<1>16. CASE (Expire \/ LockEnds) /\ UNCHANGED accounts
  BY <1>16, HopeQuiet DEF Expire, LockEnds, accounts, At, Telling, Marking
<1>17. CASE CodeExpires
  <2>1. spoilt' = spoilt \cup {"expired"}
    BY <1>17 DEF CodeExpires
  <2> QED BY <2>1 DEF HopeInv
<1> QED BY <1>2, <1>4, <1>5, <1>6, <1>7, <1>9, <1>10, <1>11, <1>12, <1>13, <1>14, <1>15, <1>16, <1>17
        DEF AccountsNext, RegisterOrVerify

LEMMA AccountsBegin ==
  ASSUME AccountsInit
  PROVE  CodeInv /\ HopeInv
<1>1. \A c \in Calls : call[c].stage = "idle"
  BY DEF AccountsInit, InitAfter, NoCall
<1>2. \/ users = 0 /\ code = "none" /\ verified = FALSE
      \/ users = 1 /\ code = "consumed" /\ verified = TRUE /\ proven = TRUE
  BY DEF AccountsInit
<1> QED BY <1>1, <1>2 DEF CodeInv, HopeInv, At

(* A user is verified only by a call with its code and its own target.     *)
THEOREM AccountsVerifiedIsProven == AccountsSpec => []VerifiedIsProven
<1>1. AccountsInit => CodeInv
  BY AccountsBegin
<1>2. AccountsTypeOK /\ CodeInv /\ [AccountsNext]_allVars => CodeInv'
  BY CodeStep
<1>3. CodeInv => VerifiedIsProven
  BY DEF CodeInv, VerifiedIsProven
<1> QED BY <1>1, <1>2, <1>3, AccountsTypes, PTL DEF AccountsSpec

(* Unless something is to blame, a user is verified, can be, or a call     *)
(* under way will see to it.                                               *)
THEOREM AccountsVerifiable == AccountsSpec => []Verifiable
<1>1. AccountsInit => CodeInv /\ HopeInv
  BY AccountsBegin
<1>2. AccountsTypeOK /\ CodeInv /\ HopeInv /\ [AccountsNext]_allVars => CodeInv' /\ HopeInv'
  BY CodeStep, HopeStep
<1>3. AccountsTypeOK /\ HopeInv => Verifiable
  <2> SUFFICES ASSUME AccountsTypeOK, HopeInv, Registered, ~verified, ~(code = "issued" /\ known), spoilt = {}
               PROVE  \E c \in Calls : Owes(c)
    BY DEF Verifiable
  <2>1. users = 1 /\ TypeOK /\ code \in {"none", "issued", "consumed", "expired"}
    <3>1. users \in 0..1 /\ users > 0
      BY DEF AccountsTypeOK, Registered
    <3> QED BY <3>1 DEF AccountsTypeOK
  <2>2. \E c \in Calls : At(c, "code") \/ Telling(c) \/ At(c, "target") \/ At(c, "mark")
    BY <2>1 DEF HopeInv
  <2>3. \A c \in Calls : At(c, "code") => call[c].op = "register"
    BY <2>1, CallFits DEF Fit, ProperCall, CallRecord, At
  <2> QED BY <2>2, <2>3 DEF Owes, Telling
<1> QED BY <1>1, <1>2, <1>3, AccountsTypes, PTL DEF AccountsSpec

(* ------------------------- the limit of sessions ----------------------- *)

(* A finite set of naturals has a least element.                           *)
LEMMA Smallest ==
  ASSUME NEW B, B \subseteq Nat, B # {}, IsFiniteSet(B)
  PROVE  \E m \in B : \A k \in B : m <= k
<1> DEFINE below(i) == {j \in B : j < i}
           T == {below(i) : i \in B}
<1>1. \A i \in B : below(i) \in FiniteSubsetsOf(B)
  BY FS_Subset DEF FiniteSubsetsOf
<1>2. T \subseteq FiniteSubsetsOf(B) /\ T # {}
  BY <1>1
<1>3. PICK U \in T : \A V \in T : <<V, U>> \notin StrictSubsetOrdering(B)
  <2> HIDE DEF T
  <2> QED BY <1>2, FS_StrictSubsetOrderingWellFounded, WFMin, Zenon
<1>4. PICK m \in B : U = below(m)
  OBVIOUS
<1>5. ASSUME NEW k \in B PROVE m <= k
  <2>1. <<below(k), below(m)>> \notin StrictSubsetOrdering(B)
    BY <1>3, <1>4
  <2>2. below(k) \in SUBSET B /\ below(m) \in SUBSET B
    OBVIOUS
  <2>3. below(k) \subseteq below(m) => below(k) = below(m)
    BY <2>1, <2>2 DEF StrictSubsetOrdering
  <2>4. k \in Nat /\ m \in Nat /\ \A j \in B : j \in Nat
    OBVIOUS
  <2>5. k \notin below(k) /\ (k < m => k \in below(m))
    BY <2>4
  <2>6. k < m => \A j \in B : j < k => j < m
    BY <2>4
  <2>7. k < m => below(k) \subseteq below(m)
    BY <2>6, Zenon
  <2> HIDE DEF below
  <2> QED BY <2>3, <2>4, <2>5, <2>7
<1> QED BY <1>5

(* Not more than K are followed by fewer than K.                           *)
LEMMA Latest ==
  ASSUME NEW A, A \subseteq Nat, IsFiniteSet(A), NEW K \in Nat
  PROVE  Cardinality({i \in A : Cardinality({j \in A : j > i}) < K}) <= K
<1> DEFINE newer(i) == {j \in A : j > i}
           B == {i \in A : Cardinality(newer(i)) < K}
<1> SUFFICES Cardinality(B) <= K
  OBVIOUS
<1>1. IsFiniteSet(B) /\ Cardinality(B) \in Nat /\ B \subseteq Nat
  BY FS_Subset, FS_CardinalityType
<1>2. CASE B = {}
  <2> HIDE DEF B
  <2> QED BY <1>2, FS_EmptySet
<1>3. CASE B # {}
  <2>1. PICK m \in B : \A k \in B : m <= k
    <3> HIDE DEF B
    <3> QED BY <1>1, <1>3, Smallest
  <2>2. Cardinality(newer(m)) < K
    OBVIOUS
  <2>3. newer(m) \subseteq A /\ B \ {m} \subseteq newer(m)
    <3>1. \A k \in B : k \in A /\ k \in Nat
      OBVIOUS
    <3> HIDE DEF B
    <3> QED BY <2>1, <3>1
  <2>4. IsFiniteSet(newer(m)) /\ Cardinality(newer(m)) \in Nat
    BY <2>3, FS_Subset, FS_CardinalityType
  <2> HIDE DEF B, newer
  <2>5. Cardinality(B \ {m}) <= Cardinality(newer(m)) /\ Cardinality(B \ {m}) = Cardinality(B) - 1
    BY <1>1, <2>3, <2>4, FS_Subset, FS_RemoveElement
  <2> QED BY <1>1, <2>2, <2>4, <2>5
<1> QED BY <1>2, <1>3

LEMMA ActiveFinite ==
  ASSUME TypeOK
  PROVE  /\ Len(sessions) \in Nat /\ Active \subseteq 1..Len(sessions) /\ IsFiniteSet(Active)
         /\ \A c \in Calls : Seen(c) \subseteq Active /\ IsFiniteSet(Seen(c)) /\ Cardinality(Seen(c)) \in Nat
<1>1. Len(sessions) \in Nat /\ Active \subseteq 1..Len(sessions)
  BY Tables, RowsRange DEF Active, Unrevoked
<1>2. IsFiniteSet(1..Len(sessions))
  BY <1>1, FS_Interval
<1>3. IsFiniteSet(Active)
  BY <1>1, <1>2, FS_Subset
<1>4. \A c \in Calls : Seen(c) \subseteq Active
  BY DEF Seen
<1> QED BY <1>1, <1>3, <1>4, FS_Subset, FS_CardinalityType

(* No step makes a session active again.                                   *)
LEMMA ActiveShrinks ==
  ASSUME TypeOK, TypeOK', RowsStep
  PROVE  Len(sessions') >= Len(sessions) /\ \A i \in Active' : i <= Len(sessions) => i \in Active
<1>1. Rows = 1..Len(sessions) /\ Len(sessions) \in Nat
  BY Tables, RowsRange
<1>2. CASE RowsAge
  <2>1. Rows' = 1..Len(sessions') /\ Len(sessions') \in Nat
    BY DEF TypeOK, Rows
  <2>2. Len(sessions') = Len(sessions)
    BY <1>1, <1>2, <2>1 DEF RowsAge
  <2>3. Active' \subseteq Active
    BY <1>2 DEF RowsAge, Ages, Active, Unrevoked
  <2> QED BY <1>1, <2>2, <2>3
<1>3. CASE \E c \in Calls : Inserts(c)
  BY <1>1, <1>3 DEF Inserts, Active, Unrevoked
<1> QED BY <1>2, <1>3 DEF RowsStep

LEMMA SeenShrinks ==
  ASSUME TypeOK, TypeOK', RowsStep, NEW d \in Calls, call'[d].seen = call[d].seen, call[d].seen <= Len(sessions)
  PROVE  Seen(d)' \subseteq Seen(d) /\ Cardinality(Seen(d)') <= Cardinality(Seen(d))
<1>1. Seen(d)' \subseteq Seen(d)
  <2> SUFFICES ASSUME NEW i \in Active', i <= call[d].seen PROVE i \in Active
    BY DEF Seen
  <2>1. i \in Nat
    <3>1. Rows' = 1..Len(sessions') /\ Len(sessions') \in Nat
      BY DEF TypeOK, Rows
    <3> QED BY <3>1 DEF Active, Unrevoked
  <2>2. Len(sessions) \in Nat /\ call[d].seen \in Nat
    BY ActiveFinite, CallFits DEF Fit, CallRecord
  <2> QED BY <2>1, <2>2, ActiveShrinks
<1> QED BY <1>1, ActiveFinite, FS_Subset

LEMMA UnprunedKept ==
  ASSUME TypeOK, NEW c \in Calls, Statements(c), tally.unpruned
  PROVE  tally'.unpruned
<1>1. tally \in TallyType
  BY Tables
<1>2. ASSUME NEW next, NEW rows, NEW user, NEW past, past.unpruned = tally.unpruned,
             Statement(c, next, rows, user, past)
      PROVE  tally'.unpruned
  BY <1>1, <1>2 DEF Statement, TallyType
<1>3. CASE WriteCount(c)
  <2>1. PICK past : /\ past = [tally EXCEPT !.wrong = IF @ < LockAfter THEN @ + 1 ELSE @,
                                            !.raced = @ \/ account.failed # call[c].seen]
                    /\ \E user : Statement(c, "reply", sessions, user, past)
    BY <1>3 DEF WriteCount
  <2>2. past.unpruned = tally.unpruned
    BY <1>1, <2>1 DEF TallyType
  <2> QED BY <1>2, <2>1, <2>2
<1>4. CASE Reset(c)
  <2>1. PICK past : /\ past = [tally EXCEPT !.wrong = 0, !.raced = FALSE]
                    /\ \E user : Statement(c, "list", sessions, user, past)
    BY <1>4 DEF Reset
  <2>2. past.unpruned = tally.unpruned
    BY <1>1, <2>1 DEF TallyType
  <2> QED BY <1>2, <2>1, <2>2
<1>5. CASE RevokeAll(c)
  <2>1. PICK past : /\ past = [tally EXCEPT !.logouts = @ + 1]
                    /\ \E next : Statement(c, next, Revoked(Rows, "other"), account, past)
    BY <1>5 DEF RevokeAll
  <2>2. past.unpruned = tally.unpruned
    BY <1>1, <2>1 DEF TallyType
  <2> QED BY <1>2, <2>1, <2>2
<1>6. CASE Prune(c) \/ RevokeDevice(c) \/ Revoke(c)
  BY <1>2, <1>6 DEF Prune, RevokeDevice, Revoke
<1>7. CASE ReadUser(c) \/ ReadCount(c) \/ ListOldest(c) \/ Insert(c) \/ Lookup(c) \/ DetectReuse(c)
  BY <1>7 DEF ReadUser, ReadCount, ListOldest, Insert, Lookup, DetectReuse
<1> QED BY <1>3, <1>4, <1>5, <1>6, <1>7 DEF Statements

(* A login that has looked goes on with what it has seen.                  *)
LEMMA LimitKept ==
  ASSUME TypeOK, TypeOK', RowsStep, LimitInv, tally.unpruned => tally'.unpruned, NEW d \in Calls,
         At(d, "prune")' => At(d, "prune") /\ call'[d].victims = call[d].victims /\ call'[d].seen = call[d].seen,
         Looked(d)' => Looked(d) /\ call'[d].seen = call[d].seen,
         call'[d].new # 0 => At(d, "reply")'
  PROVE  LimitOf(d)'
<1>1. LimitOf(d) /\ Limit \in Nat
  BY LimitsAssumption DEF LimitInv
<1>2. Len(sessions') >= Len(sessions) /\ Len(sessions) \in Nat /\ Len(sessions') \in Nat
  <2>1. Len(sessions') \in Nat
    BY DEF TypeOK
  <2> QED BY <2>1, ActiveShrinks, ActiveFinite
<1>3. call[d].seen \in Nat
  BY CallFits DEF Fit, CallRecord
<1>4. IsFiniteSet(Seen(d)') /\ Cardinality(Seen(d)') \in Nat /\ Cardinality(Seen(d)) \in Nat /\ IsFiniteSet(Seen(d))
  <2>1. Len(sessions') \in Nat /\ Rows' = 1..Len(sessions')
    BY DEF TypeOK, Rows
  <2>2. Seen(d)' \subseteq 1..Len(sessions')
    BY <2>1 DEF Seen, Active, Unrevoked
  <2>3. IsFiniteSet(1..Len(sessions'))
    <3>1. PICK n \in Nat : n = Len(sessions')
      BY <2>1
    <3>2. IsFiniteSet(1..n)
      BY FS_Interval
    <3> QED BY <3>1, <3>2
  <2>4. IsFiniteSet(Seen(d)')
    BY <2>2, <2>3, FS_Subset
  <2>5. Cardinality(Seen(d)') \in Nat
    BY <2>4, FS_CardinalityType
  <2> QED BY <2>4, <2>5, ActiveFinite
<1>5. ASSUME At(d, "prune")'
      PROVE  call'[d].seen <= Len(sessions') /\ Cardinality(Seen(d)' \ call'[d].victims) < Limit
  <2>1. call'[d].victims = call[d].victims /\ call'[d].seen = call[d].seen /\ call[d].seen <= Len(sessions)
        /\ Cardinality(Seen(d) \ call[d].victims) < Limit
    BY <1>1, <1>5 DEF LimitOf
  <2>2. Seen(d)' \ call'[d].victims \subseteq Seen(d) \ call[d].victims
    BY <2>1, SeenShrinks
  <2>3. /\ IsFiniteSet(Seen(d) \ call[d].victims)
        /\ Cardinality(Seen(d)' \ call'[d].victims) <= Cardinality(Seen(d) \ call[d].victims)
    BY <1>4, <2>2, FS_Subset
  <2>4. Cardinality(Seen(d) \ call[d].victims) \in Nat /\ Cardinality(Seen(d)' \ call'[d].victims) \in Nat
    BY <1>4, <2>3, FS_Subset, FS_CardinalityType
  <2> QED BY <1>1, <1>2, <1>3, <2>1, <2>3, <2>4
<1>6. ASSUME Looked(d)'
      PROVE  call'[d].seen <= Len(sessions') /\ (~tally'.unpruned => Cardinality(Seen(d)') < Limit)
  <2>1. call'[d].seen = call[d].seen /\ call[d].seen <= Len(sessions) /\ (~tally.unpruned => Cardinality(Seen(d)) < Limit)
    BY <1>1, <1>6 DEF LimitOf
  <2>2. Cardinality(Seen(d)') <= Cardinality(Seen(d))
    BY <2>1, SeenShrinks
  <2>3. ~tally'.unpruned => ~tally.unpruned
    OBVIOUS
  <2> QED BY <1>1, <1>2, <1>3, <1>4, <2>1, <2>2, <2>3
<1> QED BY <1>5, <1>6 DEF LimitOf

LEMMA LimitQuiet ==
  ASSUME TypeOK, TypeOK', RowsStep, LimitInv, tally.unpruned => tally'.unpruned, NEW c \in Calls,
         \A d \in Calls : d # c => call'[d] = call[d],
         ~At(c, "prune")', Looked(c)' => Looked(c) /\ call'[c].seen = call[c].seen,
         call'[c].new # 0 => At(c, "reply")'
  PROVE  LimitInv'
<1> SUFFICES ASSUME NEW d \in Calls PROVE LimitOf(d)'
  BY DEF LimitInv
<1>1. CASE d = c
  BY <1>1, LimitKept
<1>2. CASE d # c
  <2>1. call[d].new # 0 => At(d, "reply")
    BY DEF LimitInv, LimitOf
  <2> QED BY <1>2, <2>1, LimitKept DEF At, Looked
<1> QED BY <1>1, <1>2

LEMMA OthersKept ==
  ASSUME TypeOK, TypeOK', RowsStep, LimitInv, tally.unpruned => tally'.unpruned, NEW c \in Calls,
         \A d \in Calls : d # c => call'[d] = call[d], LimitOf(c)'
  PROVE  LimitInv'
<1> SUFFICES ASSUME NEW d \in Calls, d # c PROVE LimitOf(d)'
  BY DEF LimitInv
<1>1. call[d].new # 0 => At(d, "reply")
  BY DEF LimitInv, LimitOf
<1> QED BY <1>1, LimitKept DEF At, Looked

(* RevokeOldestSessions leaves all but the oldest rows alone.              *)
LEMMA LimitListed ==
  ASSUME TypeOK, LimitInv, NEW c \in Calls, ListOldest(c)
  PROVE  LimitInv'
<1> DEFINE newer(i) == {j \in Active : j > i}
           oldest == {i \in Active : Cardinality(newer(i)) >= Keep}
           latest == {i \in Active : Cardinality(newer(i)) < Keep}
<1>1. TypeOK' /\ RowsStep
  BY ListOldestType DEF RowsStep
<1>2. call[c] \in CallRecord /\ call[c].op = "login" /\ call[c].stage = "list" /\ call[c].new = 0
  <2>1. call[c].stage = "list"
    BY DEF ListOldest
  <2>2. call[c].new = 0
    BY <2>1 DEF LimitInv, LimitOf, At
  <2> QED BY <2>1, <2>2, CallFits DEF Fit, ProperCall, CallRecord
<1>3. /\ \A d \in Calls : d # c => call'[d] = call[d]
      /\ call'[c].stage = "prune" /\ call'[c].seen = Len(sessions) /\ call'[c].new = 0
      /\ UNCHANGED <<sessions, tally>>
  BY <1>2 DEF ListOldest, TypeOK, CallRecord
<1>4. call'[c].victims = oldest
  BY <1>2 DEF ListOldest, TypeOK, CallRecord
<1>5. Keep \in Nat /\ Keep < Limit
  BY LimitsAssumption DEF Keep
<1>6. Cardinality(latest) <= Keep
  <2>1. Active \subseteq Nat /\ IsFiniteSet(Active)
    BY ActiveFinite
  <2> QED BY <1>5, <2>1, Latest
<1>7. \A i \in Active : IsFiniteSet(newer(i)) /\ Cardinality(newer(i)) \in Nat
  <2>1. \A i \in Active : newer(i) \subseteq Active
    OBVIOUS
  <2> HIDE DEF newer
  <2> QED BY <2>1, ActiveFinite, FS_Subset, FS_CardinalityType
<1>8. Active' = Active
  BY <1>3 DEF Active, Unrevoked, Rows
<1> HIDE DEF newer
<1>9. Active \ oldest = latest
  BY <1>5, <1>7
<1>10. Seen(c)' \ call'[c].victims \subseteq latest
  BY <1>4, <1>8, <1>9 DEF Seen
<1>11. IsFiniteSet(latest) /\ latest \subseteq Active
  BY ActiveFinite, FS_Subset
<1> HIDE DEF oldest, latest
<1>12. /\ Cardinality(latest) \in Nat
       /\ IsFiniteSet(Seen(c)' \ call'[c].victims)
       /\ Cardinality(Seen(c)' \ call'[c].victims) <= Cardinality(latest)
  BY <1>10, <1>11, FS_Subset, FS_CardinalityType
<1>13. Cardinality(Seen(c)' \ call'[c].victims) \in Nat
  BY <1>12, FS_CardinalityType
<1>14. Cardinality(Seen(c)' \ call'[c].victims) < Limit
  BY <1>5, <1>6, <1>12, <1>13, LimitsAssumption
<1>15. call'[c].seen <= Len(sessions')
  BY <1>3, ActiveFinite
<1>16. LimitOf(c)'
  BY <1>3, <1>14, <1>15 DEF LimitOf, Looked, At
<1> QED BY <1>1, <1>3, <1>16, OthersKept

(* Once they are revoked, fewer than the limit are left of what the login  *)
(* saw.                                                                    *)
LEMMA LimitPruned ==
  ASSUME TypeOK, LimitInv, NEW c \in Calls, Prune(c)
  PROVE  LimitInv'
<1>1. TypeOK' /\ RowsAge /\ RowsStep
  BY PruneType DEF RowsStep
<1>2. /\ Advances(c, "device")
      /\ \/ sessions' = Revoked(call[c].victims, "other")
         \/ tally'.unpruned
  BY StatementAdvances DEF Prune
<1>3. tally.unpruned => tally'.unpruned
  BY UnprunedKept DEF Statements
<1>4. At(c, "prune") /\ call[c].new = 0
  BY DEF Prune, LimitInv, LimitOf, At
<1>5. call[c].seen <= Len(sessions) /\ Cardinality(Seen(c) \ call[c].victims) < Limit
  BY <1>4 DEF LimitInv, LimitOf
<1>6. call'[c].seen = call[c].seen /\ call'[c].stage = "device" /\ call'[c].new = 0
  BY <1>2, <1>4 DEF Advances, Same
<1>7. call'[c].seen <= Len(sessions')
  <2>1. Len(sessions') \in Nat
    BY <1>1 DEF TypeOK
  <2>2. call[c].seen \in Nat
    BY CallFits DEF Fit, CallRecord
  <2> QED BY <1>1, <1>5, <1>6, <2>1, <2>2, ActiveShrinks, ActiveFinite
<1>8. ~At(c, "prune")' /\ call'[c].new = 0
  BY <1>6 DEF At
<1>9. ASSUME sessions' = Revoked(call[c].victims, "other")
      PROVE  LimitOf(c)'
  <2>1. Seen(c)' \subseteq Seen(c)
    BY <1>1, <1>5, <1>6, SeenShrinks
  <2>2. \A i \in call[c].victims : i \notin Active'
    <3> SUFFICES ASSUME NEW i \in call[c].victims, i \in Active' PROVE FALSE
      OBVIOUS
    <3>1. i \in Rows' /\ Rows' = Rows /\ sessions'[i].ended = "no"
      BY <1>1 DEF Active, Unrevoked, RowsAge
    <3>2. i \in Rows /\ sessions[i] \in SessionRow
      BY <3>1, Tables, RowsRange
    <3>3. i \notin Unrevoked
      <4>1. CASE i \in Unrevoked
        <5>1. sessions'[i] = [sessions[i] EXCEPT !.ended = "other"]
          BY <1>9, <3>2, <4>1 DEF Revoked
        <5> QED BY <3>1, <3>2, <5>1 DEF SessionRow
      <4> QED BY <4>1
    <3>4. sessions'[i] = sessions[i]
      BY <1>9, <3>2, <3>3 DEF Revoked
    <3> QED BY <3>1, <3>2, <3>3, <3>4 DEF Unrevoked
  <2>3. Seen(c)' \subseteq Seen(c) \ call[c].victims
    BY <2>1, <2>2 DEF Seen
  <2>4. IsFiniteSet(Seen(c) \ call[c].victims)
    BY ActiveFinite, FS_Subset
  <2>5. /\ Cardinality(Seen(c) \ call[c].victims) \in Nat
        /\ IsFiniteSet(Seen(c)')
        /\ Cardinality(Seen(c)') <= Cardinality(Seen(c) \ call[c].victims)
    BY <2>3, <2>4, FS_Subset, FS_CardinalityType
  <2>6. Cardinality(Seen(c)') \in Nat
    BY <2>5, FS_CardinalityType
  <2>7. Cardinality(Seen(c)') < Limit
    BY <1>5, <2>5, <2>6, LimitsAssumption
  <2> QED BY <1>7, <1>8, <2>7 DEF LimitOf
<1>10. ASSUME tally'.unpruned
      PROVE  LimitOf(c)'
  BY <1>7, <1>10, <1>8 DEF LimitOf
<1> QED BY <1>1, <1>2, <1>3, <1>9, <1>10, OthersKept DEF Advances

LEMMA LimitStatements ==
  ASSUME TypeOK, LimitInv, NEW c \in Calls, Statements(c)
  PROVE  LimitInv'
<1>1. TypeOK' /\ RowsStep /\ (tally.unpruned => tally'.unpruned)
  BY StatementsType, UnprunedKept
<1>2. \A d \in Calls : d # c => call'[d] = call[d]
  BY StatementsStay
<1>3. call[c] \in CallRecord /\ ProperCall(call[c], Rows, tally.logouts)
  BY CallFits DEF Fit
<1>4. call[c].stage # "reply" /\ call[c].new = 0
  <2>1. call[c].stage # "reply"
    BY DEF Statements, ReadUser, ReadCount, WriteCount, Reset, ListOldest, Prune, RevokeDevice, Insert,
           Lookup, Revoke, DetectReuse, RevokeAll
  <2> QED BY <2>1 DEF LimitInv, LimitOf, At
<1>5. ASSUME NEW next, Advances(c, next), next \notin {"prune", "device"},
             next = "insert" => call[c].op # "login" \/ call[c].stage \in {"device", "insert"}
      PROVE  LimitInv'
  <2>1. call'[c].stage = next /\ call'[c].op = call[c].op /\ call'[c].seen = call[c].seen /\ call'[c].new = 0
    BY <1>4, <1>5 DEF Advances, Same
  <2>2. ~At(c, "prune")' /\ (Looked(c)' => Looked(c))
    BY <1>5, <2>1 DEF Looked, At
  <2> QED BY <1>1, <1>2, <2>1, <2>2, LimitQuiet
<1>6. CASE ListOldest(c) \/ Prune(c)
  BY <1>6, LimitListed, LimitPruned
<1>7. CASE ReadUser(c) \/ Lookup(c) \/ DetectReuse(c)
  <2>1. \E next \in {"reply", "reset", "count", "revoke", "reuse", "alarm", "foreign"} : Goto(c, next)
    BY <1>7 DEF ReadUser, Lookup, DetectReuse
  <2> QED BY <1>5, <2>1, GotoAdvances
<1>8. CASE WriteCount(c) \/ Reset(c)
  BY <1>5, <1>8, CountAdvances
<1>9. CASE ReadCount(c)
  <2>1. call'[c].stage = "write" /\ call'[c].new = 0
    BY <1>3, <1>4, <1>9 DEF ReadCount, TypeOK, CallRecord
  <2>2. ~At(c, "prune")' /\ ~Looked(c)'
    BY <2>1 DEF Looked, At
  <2> QED BY <1>1, <1>2, <2>1, <2>2, LimitQuiet
<1>10. CASE RevokeDevice(c)
  <2>1. PICK next \in {"insert", "reply"} : Advances(c, next)
    BY <1>10, StatementAdvances DEF RevokeDevice
  <2>2. call[c].stage = "device"
    BY <1>10 DEF RevokeDevice
  <2> QED BY <1>5, <2>1, <2>2
<1>11. CASE Revoke(c)
  <2>1. PICK next \in {"insert", "reply"} : Advances(c, next)
    BY <1>11, StatementAdvances DEF Revoke
  <2>2. call[c].op # "login"
    BY <1>3, <1>11 DEF Revoke, ProperCall
  <2> QED BY <1>5, <2>1, <2>2
<1>12. CASE RevokeAll(c)
  <2>1. PICK next \in {"foreign", "reply"} : Advances(c, next)
    BY <1>12, StatementAdvances DEF RevokeAll
  <2> QED BY <1>5, <2>1
<1>13. CASE Insert(c)
  <2>1. CASE Goto(c, "reply")
    BY <1>5, <2>1, GotoAdvances
  <2>2. CASE Inserts(c)
    <3>1. call' = [call EXCEPT ![c] = [call[c] EXCEPT !.stage = "reply", !.new = Len(sessions) + 1]]
      BY <2>2 DEF Inserts
    <3>2. call'[c].stage = "reply" /\ call'[c].op = call[c].op /\ call'[c].seen = call[c].seen
      BY <1>3, <3>1 DEF TypeOK, CallRecord
    <3>3. ~At(c, "prune")' /\ (Looked(c)' => Looked(c)) /\ At(c, "reply")'
      BY <1>13, <3>2, InsertCases DEF Looked, At
    <3> QED BY <1>1, <1>2, <3>2, <3>3, LimitQuiet
  <2> QED BY <1>13, <2>1, <2>2, InsertCases
<1> QED BY <1>6, <1>7, <1>8, <1>9, <1>10, <1>11, <1>12, <1>13 DEF Statements

LEMMA LimitStep ==
  ASSUME TypeOK, LimitInv, [AccountsNext]_allVars
  PROVE  LimitInv'
<1>1. TypeOK' /\ RowsStep
  BY SessionsType
<1>2. CASE (Tabled \/ Expire \/ LockEnds) /\ UNCHANGED call
  <2>1. tally.unpruned => tally'.unpruned
    BY <1>2, Tables DEF Tabled, Expire, LockEnds, TallyType
  <2>2. \A d \in Calls : call[d].new # 0 => At(d, "reply")
    BY DEF LimitInv, LimitOf
  <2>3. \A d \in Calls : LimitOf(d)'
    BY <1>1, <1>2, <2>1, <2>2, LimitKept DEF At, Looked
  <2> QED BY <2>3 DEF LimitInv
<1>3. ASSUME NEW c \in Calls, Restarts(c) PROVE LimitInv'
  <2>1. ~At(c, "prune")' /\ ~Looked(c)' /\ call'[c].new = 0 /\ tally' = tally
    BY <1>3 DEF Restarts, At, Looked
  <2> QED BY <1>1, <1>3, <2>1, LimitQuiet DEF Restarts
<1>4. ASSUME NEW c \in Calls, Verifies(c) PROVE LimitInv'
  <2>1. PICK next \in {"reply", "create", "code", "insert", "consume", "target", "mark"} : Advances(c, next)
    BY <1>4 DEF Verifies
  <2>2. call'[c].stage = next /\ call'[c].op # "login" /\ call'[c].new = call[c].new /\ tally' = tally
    BY <1>4, <2>1 DEF Verifies, Tabled, Advances, Same
  <2>3. ~At(c, "prune")' /\ ~Looked(c)'
    BY <2>2 DEF At, Looked
  <2>4. call[c].new = 0
    BY <1>4 DEF LimitInv, LimitOf, At, Verifies
  <2> QED BY <1>1, <2>1, <2>2, <2>3, <2>4, LimitQuiet DEF Advances
<1> QED BY <1>2, <1>3, <1>4, LimitStatements, AccountsCases

(* When a login has its session, no more are active than the limit and     *)
(* those that others created since it looked.                              *)
THEOREM AccountsSessionLimit == AccountsSpec => []SessionLimit
<1>1. AccountsInit => LimitInv
  BY DEF AccountsInit, InitAfter, LimitInv, LimitOf, Looked, At, NoCall
<1>2. AccountsTypeOK /\ LimitInv /\ [AccountsNext]_allVars => LimitInv'
  BY LimitStep DEF AccountsTypeOK
<1>3. AccountsTypeOK /\ LimitInv => SessionLimit
  <2> SUFFICES ASSUME TypeOK, LimitInv, NEW c \in Calls, call[c].op = "login", call[c].new # 0, ~tally.unpruned
               PROVE  Cardinality(Active) <= Limit + (Len(sessions) - call[c].seen - 1)
    BY DEF AccountsTypeOK, SessionLimit
  <2>1. call[c].seen <= Len(sessions) /\ Cardinality(Seen(c)) < Limit
    BY DEF LimitInv, LimitOf, Looked
  <2>2. call[c].seen \in Nat /\ Len(sessions) \in Nat
    BY CallFits, ActiveFinite DEF Fit, CallRecord
  <2> DEFINE since == (call[c].seen + 1)..Len(sessions)
  <2>3. IsFiniteSet(since) /\ Cardinality(since) = Len(sessions) - call[c].seen
    <3>1. PICK a \in Nat, b \in Nat : a = call[c].seen /\ b = Len(sessions)
      BY <2>2
    <3>2. IsFiniteSet((a + 1)..b) /\ Cardinality((a + 1)..b) = IF a + 1 > b THEN 0 ELSE b - (a + 1) + 1
      BY FS_Interval
    <3> QED BY <2>1, <3>1, <3>2
  <2>4. Active \subseteq Seen(c) \cup since
    BY <2>2, ActiveFinite DEF Seen
  <2>5. IsFiniteSet(Seen(c)) /\ Cardinality(Seen(c)) \in Nat
    BY ActiveFinite
  <2> HIDE DEF since
  <2>6. /\ IsFiniteSet(Seen(c) \cup since)
        /\ Cardinality(Seen(c) \cup since) = Cardinality(Seen(c)) + Cardinality(since) - Cardinality(Seen(c) \cap since)
    BY <2>3, <2>5, FS_Union
  <2>7. Cardinality(Seen(c) \cap since) \in Nat
    <3>1. IsFiniteSet(Seen(c) \cap since)
      BY <2>5, FS_Subset
    <3> QED BY <3>1, FS_CardinalityType
  <2>8. Cardinality(Active) <= Cardinality(Seen(c) \cup since)
    BY <2>4, <2>6, FS_Subset
  <2>9. Cardinality(Active) \in Nat
    BY ActiveFinite, FS_CardinalityType
  <2> QED BY <2>1, <2>2, <2>3, <2>5, <2>6, <2>7, <2>8, <2>9, LimitsAssumption
<1> QED BY <1>1, <1>2, <1>3, AccountsTypes, PTL DEF AccountsSpec

===============================================================================
