----------------------------- MODULE UserAccounts -----------------------------
(***************************************************************************)
(* Registration and verification, in front of the sessions of the user.    *)
(* Clients of one person, with one email address or phone number, register *)
(* and verify it; calls and their retries interleave statement by          *)
(* statement, among each other and with the calls of UserSessions, which   *)
(* need a user.  The verification code is told to the client in the reply  *)
(* of register, once, and no call issues another.                          *)
(***************************************************************************)
EXTENDS UserSessions

CONSTANT Newcomers   \* what may be at the start: TRUE for a person without a user

ASSUME NewcomersAssumption == Newcomers \subseteq BOOLEAN

VARIABLES
    users,     \* rows of users with the person's email or phone
    code,      \* the row of verification_codes
    verified,  \* email_verified_at or phone_verified_at is set
    known,     \* the client was told the code
    proven,    \* ghost: a call presented the code with the person's own target
    spoilt     \* ghost: what stood between the person and the verification

accounts == <<users, code, verified, known, proven, spoilt>>
allVars == <<vars, accounts>>

(* The user of one who is no newcomer is taken to be verified; a newcomer  *)
(* makes one call less, which bounds the model.                            *)
AccountsInit ==
    \E new \in Newcomers :
        /\ InitAfter(IF new THEN 1 ELSE 0)
        /\ users = IF new THEN 0 ELSE 1
        /\ code = IF new THEN "none" ELSE "consumed"
        /\ verified = ~new
        /\ known = FALSE
        /\ proven = ~new
        /\ spoilt = {}

Registered == users > 0
At(c, stage) == call[c].stage = stage

(* A statement fails, and the call is answered with an error.              *)
Fails(c) ==
    /\ faults < MaxFaults
    /\ faults' = faults + 1
    /\ Goto(c, "reply")

Quiet == UNCHANGED <<sessions, account, held, made, lapses, tally>>

------------------------------------------------------------------------------
(* Register                                                                *)

AskRegister(c) ==
    /\ \E d \in Devices : Start(c, "register", d, 0, FALSE)
    /\ UNCHANGED accounts

(* GetUserByEmail and GetUserByPhone: an error of the query is taken for   *)
(* a user that does not exist.                                             *)
CheckTaken(c) ==
    /\ At(c, "taken")
    /\ \/ Goto(c, IF Registered THEN "reply" ELSE "create") /\ UNCHANGED faults
       \/ /\ Registered
          /\ faults < MaxFaults
          /\ faults' = faults + 1
          /\ Goto(c, "create")
    /\ Quiet /\ UNCHANGED accounts

(* CreateUserWithProfile: the unique indices admit one user, whoever has   *)
(* looked before.                                                          *)
CreateUser(c) ==
    /\ At(c, "create")
    /\ \/ /\ ~Registered
          /\ users' = users + 1
          /\ Goto(c, "code")
          /\ UNCHANGED faults
       \/ Registered /\ Goto(c, "reply") /\ UNCHANGED <<users, faults>>
       \/ Fails(c) /\ UNCHANGED users
    /\ Quiet /\ UNCHANGED <<code, verified, known, proven, spoilt>>

(* issueVerification, whose error is dropped; issueTokens follows.         *)
IssueCode(c) ==
    /\ At(c, "code")
    /\ Goto(c, "insert")
    /\ \/ code' = "issued" /\ UNCHANGED <<faults, spoilt>>
       \/ /\ faults < MaxFaults
          /\ faults' = faults + 1
          /\ spoilt' = spoilt \cup {"not issued"}
          /\ UNCHANGED code
    /\ Quiet /\ UNCHANGED <<users, verified, known, proven>>

(* A register whose tokens cannot be stored is answered with an error and  *)
(* without the code.                                                       *)
InsertFirst(c) ==
    /\ At(c, "insert") /\ call[c].op = "register"
    /\ Insert(c)
    /\ spoilt' = IF call'[c].new = 0 THEN spoilt \cup {"not told"} ELSE spoilt
    /\ UNCHANGED <<users, code, verified, known, proven>>

------------------------------------------------------------------------------
(* Verify                                                                  *)

AskVerify(c) ==
    /\ known
    /\ \E right \in BOOLEAN : Start(c, "verify", NoCall.device, 0, right)
    /\ UNCHANGED accounts

(* ConsumeVerification first selects a code that was not consumed ...      *)
FindCode(c) ==
    /\ At(c, "find")
    /\ \/ Goto(c, IF code = "issued" THEN "consume" ELSE "reply") /\ UNCHANGED faults
       \/ Fails(c)
    /\ Quiet /\ UNCHANGED accounts

(* ... and then consumes it, whether or not it was consumed meanwhile.     *)
ConsumeCode(c) ==
    /\ At(c, "consume")
    /\ \/ code' = "consumed" /\ Goto(c, "target") /\ UNCHANGED faults
       \/ Fails(c) /\ UNCHANGED code
    /\ Quiet /\ UNCHANGED <<users, verified, known, proven, spoilt>>

(* Mutant: any target will do.                                             *)
AnyTarget(c) == TRUE

OwnTarget(c) == call[c].right

(* The target is compared when the code is gone.                           *)
CompareTarget(c) ==
    /\ At(c, "target")
    /\ \/ OwnTarget(c) /\ Goto(c, "mark") /\ UNCHANGED <<faults, spoilt>>
       \/ /\ ~OwnTarget(c)
          /\ Goto(c, "reply")
          /\ spoilt' = spoilt \cup {"wrong target"}
          /\ UNCHANGED faults
       \/ Fails(c) /\ spoilt' = spoilt \cup {"not marked"}
    /\ proven' = (proven \/ call[c].right)
    /\ Quiet /\ UNCHANGED <<users, code, verified, known>>

(* Mutant: an email address is marked where a phone number was verified.   *)
MarkOther(c) ==
    /\ At(c, "mark")
    /\ Goto(c, "reply")
    /\ Quiet /\ UNCHANGED <<faults, accounts>>

(* MarkEmailVerified or MarkPhoneVerified.                                 *)
MarkVerified(c) ==
    /\ At(c, "mark")
    /\ \/ verified' = TRUE /\ Goto(c, "reply") /\ UNCHANGED <<faults, spoilt>>
       \/ Fails(c) /\ spoilt' = spoilt \cup {"not marked"} /\ UNCHANGED verified
    /\ Quiet /\ UNCHANGED <<users, code, known, proven>>

------------------------------------------------------------------------------
(* The ends of calls, and time                                             *)

(* The reply of a successful register carries the code.                    *)
DeliverTo(c) ==
    /\ Deliver(c)
    /\ known' = (known \/ (call[c].op = "register" /\ call[c].new # 0 /\ code # "none"))
    /\ UNCHANGED <<users, code, verified, proven, spoilt>>

(* Between these statements the person depends on the call.                *)
Owes(c) ==
    \/ call[c].op = "register" /\ (At(c, "code") \/ At(c, "insert") \/ (At(c, "reply") /\ call[c].new # 0))
    \/ At(c, "target") \/ At(c, "mark")

BreakOff(c) ==
    /\ Break(c)
    /\ spoilt' = IF Owes(c) THEN spoilt \cup {"broken off"} ELSE spoilt
    /\ UNCHANGED <<users, code, verified, known, proven>>

(* Ten minutes have passed.                                                *)
CodeExpires ==
    /\ code = "issued"
    /\ lapses < MaxLapses
    /\ lapses' = lapses + 1
    /\ code' = "expired"
    /\ spoilt' = spoilt \cup {"expired"}
    /\ UNCHANGED <<sessions, account, held, call, made, faults, tally>>
    /\ UNCHANGED <<users, verified, known, proven>>

RegisterOrVerify(c) ==
    \/ AskRegister(c) \/ CheckTaken(c) \/ CreateUser(c) \/ IssueCode(c) \/ InsertFirst(c)
    \/ AskVerify(c) \/ FindCode(c) \/ ConsumeCode(c) \/ CompareTarget(c) \/ MarkVerified(c)

(* Without a user a login is refused, and nobody has tokens.               *)
OfUser(c) == Registered /\ (Request(c) \/ (call[c].op # "register" /\ Statements(c))) /\ UNCHANGED accounts

AccountsNext ==
    \/ \E c \in Calls : RegisterOrVerify(c) \/ OfUser(c) \/ DeliverTo(c) \/ BreakOff(c)
    \/ (Expire \/ LockEnds) /\ UNCHANGED accounts
    \/ CodeExpires

AccountsSpec == AccountsInit /\ [][AccountsNext]_allVars

------------------------------------------------------------------------------
AccountsTypeOK ==
    /\ TypeOK
    /\ users \in 0..1
    /\ code \in {"none", "issued", "consumed", "expired"}
    /\ verified \in BOOLEAN /\ known \in BOOLEAN /\ proven \in BOOLEAN
    /\ spoilt \subseteq {"not issued", "not told", "wrong target", "not marked", "broken off", "expired"}

(* However registrations and verifications race, are repeated and arrive   *)
(* late, a user is verified, or can be (the client has a code that works), *)
(* or a call under way will see to it, unless something is to blame: a     *)
(* failed statement (the session of a register is refused when a login on  *)
(* the same device overtakes it), a broken connection, the time, or a      *)
(* wrong target; each leaves a user that no call can ever verify.          *)
Verifiable ==
    Registered =>
        \/ verified
        \/ code = "issued" /\ known
        \/ \E c \in Calls : Owes(c)
        \/ spoilt # {}

(* A user is verified only by a call with its code and its own target, and *)
(* then the code cannot be used again.                                     *)
VerifiedIsProven == verified => proven /\ code = "consumed"

==============================================================================
