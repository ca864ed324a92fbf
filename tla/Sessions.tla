------------------------------ MODULE Sessions ------------------------------
(***************************************************************************)
(* One account: its users row, its authenticator (table twofactor), its    *)
(* devices and its requests to log in with another device (auth_requests), *)
(* and the handlers that work on them: registration, the password and      *)
(* refresh grants, changes of the password, rotation of the security       *)
(* stamp, enrolment and removal of the authenticator, auth requests.       *)
(*                                                                         *)
(* A password stands for the hash the server stores and for the master key *)
(* that wraps the user key: a change of the KDF settings is a change of    *)
(* both.  A code of the authenticator stands for the time step it is for.  *)
(* Tokens are held by the clients for ever: that they expire only removes  *)
(* sessions.  Push registration and device names are left out.             *)
(***************************************************************************)
EXTENDS Integers, FiniteSets

CONSTANTS
    Device,      \* device identifiers
    Password,    \* master passwords
    AuthRequest, \* ids of auth requests, each used once
    Req,         \* slots for handlers in flight
    SessionWorkload,  \* the routes in use and how many handlers at once, by workload
    None,        \* SQL NULL, or no row
    Drift,       \* time steps by which a code may be off: 1, or 0 when drift is disabled
    Expiry,      \* age at which an auth request expires (AUTH_REQUEST_EXPIRY_MINUTES)
    Retention,   \* age at which it is purged (AUTH_REQUEST_RETENTION_MINUTES)
    MaxTime,     \* bound on the clock, in time steps
    MaxStamp,    \* bound on the security stamps drawn
    MaxFactor    \* bound on the authenticators enrolled

SessionRoutes ==
    {"invite", "register", "login", "loginByRequest", "refresh", "change", "sstamp",
     "enrol", "disable", "requests", "raise", "crash"}

ASSUME SessionWorkloadAssumption ==
    \A l \in DOMAIN SessionWorkload :
        SessionWorkload[l].route \subseteq SessionRoutes /\ SessionWorkload[l].most \in Nat
ASSUME SessionFinite == IsFiniteSet(Req)
ASSUME SessionNoneAssumption == None \notin Device \cup Password \cup AuthRequest \cup Nat
ASSUME SessionBoundsAssumption ==
    /\ Drift \in {0, 1} /\ Expiry \in Nat /\ Retention \in Nat
    /\ MaxTime \in Nat /\ MaxStamp \in Nat /\ MaxFactor \in Nat

VARIABLES
    load,        \* the workload, chosen at the start
    now,         \* the clock
    user,        \* the row of table users, or None
    factor,      \* the authenticator in table twofactor, or None
    device,      \* device[d]: row of table devices, or None
    request,     \* request[a]: row of table auth_requests, or None
    session,     \* sessions handed out: what access and refresh tokens claim
    req,         \* handlers in flight
    \* history, read by no action
    lastStamp,   \* security stamps drawn so far
    lastFactor,  \* authenticators enrolled so far
    asked,       \* ids of auth requests drawn so far
    rejected,    \* auth requests that were rejected
    spent,       \* time steps whose code had its effect since an authenticator is there
    replayed,    \* a code had its effect twice
    cut          \* an enrolment was cut short of its recovery code

sessionVars == <<load, now, user, factor, device, request, session, req, lastStamp, lastFactor,
                 asked, rejected, spent, replayed, cut>>

\* pw: the password whose hash is stored, None for an invited placeholder; key:
\* the password the user key is wrapped for; old: hashed with fewer iterations
\* than the server now asks for; recover: whether there is a recovery code.
User == [pw : Password \cup {None}, key : Password \cup {None}, stamp : Nat,
         old : BOOLEAN, recover : BOOLEAN]
Factor == [uuid : Nat, last : Int]
\* A remember token stands for the authenticator that was proved to obtain it.
DeviceRow == [remember : Nat \cup {None}]
RequestRow == [device : Device, approved : BOOLEAN, created : Nat]
\* pw is what the login verified, None for a login by an approved request.
Session == [device : Device, stamp : Nat, pw : Password \cup {None}]

ASSUME SessionNullAssumption == None \notin User \cup Factor \cup DeviceRow \cup RequestRow

SessionStage ==
    {"idle", "register", "findRequest", "findDevice", "insertDevice", "listFactors", "prove",
     "useStep", "dropFactors", "dropRecovery", "dropRemembers", "migrate", "issue",
     "refresh", "verify", "change", "dropDevices", "rotate", "enrol", "dropOld", "forgetOld",
     "insertFactor", "readRecovery", "setRecovery", "disable", "disableKey", "dropKey",
     "forget", "remaining", "clearRecovery", "insertRequest", "approve", "reject", "answer"}

Slot == [stage : SessionStage, goal : SessionStage,
         device : Device \cup {None}, ask : AuthRequest \cup {None},
         pw : Password \cup {None},        \* the password the request gives
         new : Password \cup {None},       \* the password it asks for
         row : User \cup {None},           \* the users row as it was read
         factor : Factor \cup {None},      \* the authenticator as it was read
         remember : Nat \cup {None},       \* what the remember token to be stored stands for
         keep : BOOLEAN,                   \* a remember token was asked for
         step : Int]                       \* the time step of the code it gives

Unused == [stage |-> "idle", goal |-> "idle", device |-> None, ask |-> None, pw |-> None,
           new |-> None, row |-> None, factor |-> None, remember |-> None, keep |-> FALSE,
           step |-> 0]

\* Types; stamps are drawn before they are used.
SessionTypeOK ==
    /\ load \in DOMAIN SessionWorkload
    /\ now \in Nat
    /\ user \in User \cup {None}
    /\ factor \in Factor \cup {None}
    /\ device \in [Device -> DeviceRow \cup {None}]
    /\ request \in [AuthRequest -> RequestRow \cup {None}]
    /\ session \subseteq Session
    /\ req \in [Req -> Slot]
    /\ lastStamp \in Nat /\ lastFactor \in Nat
    /\ user # None => user.stamp \in 1..lastStamp
    /\ \A s \in session : s.stamp \in 1..lastStamp
    /\ asked \subseteq AuthRequest /\ rejected \subseteq AuthRequest
    /\ spent \subseteq Int /\ replayed \in BOOLEAN /\ cut \in BOOLEAN

SessionInit ==
    /\ load \in DOMAIN SessionWorkload
    /\ now = 1
    /\ user = None
    /\ factor = None
    /\ device = [d \in Device |-> None]
    /\ request = [a \in AuthRequest |-> None]
    /\ session = {}
    /\ req = [r \in Req |-> Unused]
    /\ lastStamp = 0 /\ lastFactor = 0
    /\ asked = {} /\ rejected = {}
    /\ spent = {} /\ replayed = FALSE /\ cut = FALSE

-----------------------------------------------------------------------------
\* Slots, and what a step leaves alone

Asked == SessionWorkload[load]
At(r, stage) == req[r].stage = stage
InFlight == {r \in Req : ~At(r, "idle")}
Begin(r, slot) ==
    At(r, "idle") /\ Cardinality(InFlight) < Asked.most /\ req' = [req EXCEPT ![r] = slot]
Goto(r, slot) == req' = [req EXCEPT ![r] = slot]
Go(r, stage) == req' = [req EXCEPT ![r].stage = stage]
Done(r) == req' = [req EXCEPT ![r] = Unused]

codes == <<spent, replayed>>
drawn == <<lastStamp, lastFactor, asked>>
requests == <<request, rejected>>
SameRows == UNCHANGED <<now, user, factor, device, requests, session, drawn, codes, cut>>
OnlyUser == UNCHANGED <<now, factor, device, requests, session, lastFactor, asked, codes, cut>>
OnlyFactor == UNCHANGED <<now, user, device, requests, session, lastStamp, asked, cut>>
OnlyDevice == UNCHANGED <<now, user, factor, requests, drawn, codes, cut>>
OnlyRequest == UNCHANGED <<now, user, factor, device, session, lastStamp, lastFactor, codes, cut>>

Registered == user # None /\ user.pw # None
\* Mutated form of Stamp: the row keeps the stamp it has.
StampKept(row) == row

\* A fresh security stamp
Stamp(row) == [row EXCEPT !.stamp = lastStamp + 1]
NewStamp == lastStamp < MaxStamp /\ lastStamp' = lastStamp + 1
SameStamp == UNCHANGED lastStamp

\* decode_access_token, its two queries taken together: the stamp is the current one, and the device is there.
Live(s) == user # None /\ s.stamp = user.stamp /\ device[s.device] # None
SignedIn == \E s \in session : Live(s)

Forgotten == [d \in Device |-> IF device[d] = None THEN None ELSE [remember |-> None]]

-----------------------------------------------------------------------------
\* Registration, over nothing or over the placeholder of an invitation

Invite ==
    /\ user = None /\ NewStamp
    /\ user' = Stamp([pw |-> None, key |-> None, stamp |-> 0, old |-> FALSE, recover |-> FALSE])
    /\ UNCHANGED req /\ OnlyUser

StartRegister(r, p) ==
    /\ ~Registered
    /\ Begin(r, [Unused EXCEPT !.stage = "register", !.row = user, !.new = p])
    /\ SameRows

\* INSERT is refused when the email is there; UPDATE overwrites what it finds, totp_recover with NULL.
StoreRegistration(r) ==
    LET h == req[r] IN
    /\ At(r, "register")
    /\ IF h.row = None /\ user # None
         THEN UNCHANGED <<user, lastStamp>>
         ELSE /\ NewStamp
              /\ user' = Stamp([pw |-> h.new, key |-> h.new, stamp |-> 0, old |-> FALSE,
                                recover |-> FALSE])
    /\ Done(r) /\ OnlyUser

\* The server is deployed with a higher PASSWORD_ITERATIONS.
RaiseIterations ==
    /\ Registered /\ ~user.old
    /\ user' = [user EXCEPT !.old = TRUE]
    /\ UNCHANGED req /\ SameStamp /\ OnlyUser

-----------------------------------------------------------------------------
\* The password grant

StartLogin(r, d, p) ==
    /\ Registered /\ user.pw = p
    /\ Begin(r, [Unused EXCEPT !.stage = "findDevice", !.device = d, !.row = user, !.pw = p])
    /\ SameRows

\* The access code of an auth request stands in for the password.
StartLoginByRequest(r, d, a) ==
    /\ user # None /\ a \in asked
    /\ Begin(r, [Unused EXCEPT !.stage = "findRequest", !.device = d, !.row = user, !.ask = a])
    /\ SameRows

Expired(row) == now >= row.created + Expiry

FindRequest(r) ==
    LET row == request[req[r].ask] IN
    /\ At(r, "findRequest")
    /\ IF row # None /\ row.approved /\ ~Expired(row) /\ row.device = req[r].device
         THEN Go(r, "findDevice") ELSE Done(r)
    /\ SameRows

FindDevice(r) ==
    LET row == device[req[r].device] IN
    /\ At(r, "findDevice")
    /\ IF row = None THEN Go(r, "insertDevice")
       ELSE Goto(r, [req[r] EXCEPT !.stage = "listFactors", !.remember = row.remember])
    /\ SameRows

\* PRIMARY KEY(identifier, user_id) refuses a device that came in between.
InsertDevice(r) ==
    LET d == req[r].device IN
    /\ At(r, "insertDevice")
    /\ IF device[d] # None THEN Done(r) /\ UNCHANGED device
       ELSE Go(r, "listFactors") /\ device' = [device EXCEPT ![d] = [remember |-> None]]
    /\ UNCHANGED session /\ OnlyDevice

ListFactors(r) ==
    /\ At(r, "listFactors")
    /\ Goto(r, [req[r] EXCEPT !.stage = IF factor = None THEN "migrate" ELSE "prove",
                              !.factor = factor])
    /\ SameRows

\* validate_totp: a step close to the clock and later than the last one used.
ValidSteps(last) == {n \in (now - Drift)..(now + Drift) : n > last}
ProveStep(r, n, keep) ==
    /\ At(r, "prove") /\ n \in ValidSteps(req[r].factor.last)
    /\ Goto(r, [req[r] EXCEPT !.stage = "useStep", !.step = n, !.keep = keep,
                              !.remember = req[r].factor.uuid])
    /\ SameRows

\* A code for step n has had its effect.
Spend(n) == spent' = spent \cup {n} /\ replayed' = (replayed \/ n \in spent)

\* Mutated form of UseStep: the step is not recorded.
UseStepUnrecorded(r) ==
    /\ At(r, "useStep")
    /\ Spend(req[r].step)
    /\ Go(r, "migrate") /\ UNCHANGED <<factor, lastFactor>> /\ OnlyFactor

\* UPDATE ... WHERE uuid, without another look at last_used.
UseStep(r) ==
    LET h == req[r] IN
    /\ At(r, "useStep")
    /\ factor' = IF factor # None /\ factor.uuid = h.factor.uuid
                 THEN [factor EXCEPT !.last = h.step] ELSE factor
    /\ Spend(h.step)
    /\ Go(r, "migrate") /\ UNCHANGED lastFactor /\ OnlyFactor

\* The device was remembered when its row was read.
ProveRemembered(r, keep) ==
    /\ At(r, "prove") /\ req[r].remember # None
    /\ Goto(r, [req[r] EXCEPT !.stage = "migrate", !.keep = keep])
    /\ SameRows

\* The recovery code takes the second factor away, in three queries.
ProveRecovery(r) ==
    /\ At(r, "prove") /\ req[r].row.recover
    /\ Go(r, "dropFactors") /\ SameRows

DropFactors(r) ==
    /\ At(r, "dropFactors")
    /\ factor' = None /\ spent' = {}
    /\ Go(r, "dropRecovery") /\ UNCHANGED <<replayed, lastFactor>> /\ OnlyFactor

DropRecovery(r) ==
    /\ At(r, "dropRecovery")
    /\ user' = [user EXCEPT !.recover = FALSE]
    /\ Go(r, "dropRemembers") /\ SameStamp /\ OnlyUser

DropRemembers(r) ==
    /\ At(r, "dropRemembers")
    /\ device' = Forgotten
    /\ Go(r, "migrate") /\ UNCHANGED session /\ OnlyDevice

\* No second factor, or a wrong one: the device row stays.
RefuseLogin(r) == At(r, "prove") /\ Done(r) /\ SameRows

\* maybe_upgrade_password_hash: the password verified at the start is hashed
\* anew and written by id.
Migrate(r) ==
    /\ At(r, "migrate")
    /\ user' = IF req[r].pw # None /\ req[r].row.old
               THEN [user EXCEPT !.pw = req[r].pw, !.old = FALSE] ELSE user
    /\ Go(r, "issue") /\ SameStamp /\ OnlyUser

\* Mutated form of Issue: the tokens carry the stamp of the moment.
IssueCurrentStamp(r) ==
    LET h == req[r] IN
    /\ At(r, "issue")
    /\ session' = session \cup {[device |-> h.device, stamp |-> user.stamp, pw |-> h.pw]}
    /\ Done(r) /\ UNCHANGED device /\ OnlyDevice

\* The last query on the device row, then tokens with the stamp as it was read.
Issue(r) ==
    LET h == req[r] IN
    /\ At(r, "issue")
    /\ device' = IF h.keep /\ device[h.device] # None
                 THEN [device EXCEPT ![h.device].remember = h.remember] ELSE device
    /\ session' = session \cup {[device |-> h.device, stamp |-> h.row.stamp, pw |-> h.pw]}
    /\ Done(r) /\ OnlyDevice

-----------------------------------------------------------------------------
\* The refresh grant.  A device deleted and created again has another refresh
\* token: letting the old one through here gives back no session but the old one.

StartRefresh(r, s) ==
    /\ device[s.device] # None
    /\ Begin(r, [Unused EXCEPT !.stage = "refresh", !.device = s.device, !.pw = s.pw,
                               !.step = s.stamp])
    /\ SameRows

Refresh(r) ==
    LET h == req[r] IN
    /\ At(r, "refresh")
    /\ session' = IF h.step # user.stamp THEN session
                  ELSE session \cup {[device |-> h.device, stamp |-> user.stamp, pw |-> h.pw]}
    /\ Done(r) /\ UNCHANGED device /\ OnlyDevice

-----------------------------------------------------------------------------
\* Handlers behind a session that ask for the master password

StartProtected(r, goal, p, q, n) ==
    /\ SignedIn
    /\ Begin(r, [Unused EXCEPT !.stage = "verify", !.goal = goal, !.pw = p, !.new = q,
                               !.step = n])
    /\ SameRows

\* SELECT of the users row, then verify_master_password on what was read.
Verify(r) ==
    /\ At(r, "verify")
    /\ IF user.pw = req[r].pw THEN Go(r, req[r].goal) ELSE Done(r)
    /\ SameRows

\* Mutated form of ChangePassword: the wrapped user key is left to another query.
ChangeHashOnly(r) ==
    /\ At(r, "change") /\ NewStamp
    /\ user' = Stamp([user EXCEPT !.pw = req[r].new, !.old = FALSE])
    /\ Done(r) /\ OnlyUser

\* post_password and post_kdf
ChangePassword(r) ==
    LET q == req[r].new IN
    /\ At(r, "change") /\ NewStamp
    /\ user' = Stamp([user EXCEPT !.pw = q, !.key = q, !.old = FALSE])
    /\ Done(r) /\ OnlyUser

\* post_sstamp: the devices first, then the stamp.
DropDevices(r) ==
    /\ At(r, "dropDevices")
    /\ device' = [d \in Device |-> None]
    /\ Go(r, "rotate") /\ UNCHANGED session /\ OnlyDevice

RotateStamp(r) ==
    /\ At(r, "rotate") /\ NewStamp
    /\ user' = Stamp(user)
    /\ Done(r) /\ OnlyUser

\* activate_authenticator: the code must be later than the last one used.
ReadEnrolled(r) ==
    LET last == IF factor = None THEN 0 ELSE factor.last IN
    /\ At(r, "enrol")
    /\ IF req[r].step \in ValidSteps(last)
         THEN Go(r, "dropOld") /\ spent' = IF factor = None THEN {} ELSE spent
         ELSE Done(r) /\ UNCHANGED spent
    /\ UNCHANGED <<factor, replayed, lastFactor>> /\ OnlyFactor

DropOldFactor(r) ==
    /\ At(r, "dropOld")
    /\ factor' = None
    /\ Go(r, "forgetOld") /\ UNCHANGED <<codes, lastFactor>> /\ OnlyFactor

\* Mutated form of ForgetDevices: the remember tokens stay.
ForgetNone(r) ==
    /\ req[r].stage \in {"forgetOld", "forget"}
    /\ Go(r, IF At(r, "forgetOld") THEN "insertFactor" ELSE "remaining")
    /\ SameRows

\* Device::clear_twofactor_remember_by_user
ForgetDevices(r) ==
    /\ req[r].stage \in {"forgetOld", "forget"}
    /\ device' = Forgotten
    /\ Go(r, IF At(r, "forgetOld") THEN "insertFactor" ELSE "remaining")
    /\ UNCHANGED session /\ OnlyDevice

\* UNIQUE(user_uuid, atype) refuses a second authenticator.
InsertFactor(r) ==
    /\ At(r, "insertFactor") /\ lastFactor < MaxFactor
    /\ IF factor # None THEN Done(r) /\ UNCHANGED <<factor, lastFactor, codes>>
       ELSE /\ factor' = [uuid |-> lastFactor + 1, last |-> req[r].step]
            /\ lastFactor' = lastFactor + 1
            /\ Spend(req[r].step)
            /\ Go(r, "readRecovery")
    /\ OnlyFactor

\* Mutated form of ReadRecovery: no recovery code is made.
ReadRecoveryOnly(r) == At(r, "readRecovery") /\ Done(r) /\ SameRows

\* generate_recovery_code_for_user
ReadRecovery(r) ==
    /\ At(r, "readRecovery")
    /\ IF user.recover THEN Done(r) ELSE Go(r, "setRecovery")
    /\ SameRows

SetRecovery(r) ==
    /\ At(r, "setRecovery")
    /\ user' = [user EXCEPT !.recover = TRUE]
    /\ Done(r) /\ SameStamp /\ OnlyUser

\* disable_twofactor deletes by type ...
DisableFactor(r) ==
    /\ At(r, "disable")
    /\ factor' = None /\ spent' = {}
    /\ Go(r, "forget") /\ UNCHANGED <<replayed, lastFactor>> /\ OnlyFactor

\* ... disable_authenticator the row it read, whose key the client names.
ReadDisabled(r) ==
    /\ At(r, "disableKey")
    /\ IF factor = None THEN Done(r)
       ELSE Goto(r, [req[r] EXCEPT !.stage = "dropKey", !.factor = factor])
    /\ SameRows

DropDisabled(r) ==
    /\ At(r, "dropKey")
    /\ IF factor # None /\ factor.uuid = req[r].factor.uuid
         THEN factor' = None /\ spent' = {} ELSE UNCHANGED <<factor, spent>>
    /\ Go(r, "forget") /\ UNCHANGED <<replayed, lastFactor>> /\ OnlyFactor

\* clear_recovery_if_no_twofactor: a SELECT, then an UPDATE.
ReadRemaining(r) ==
    /\ At(r, "remaining")
    /\ IF factor = None THEN Go(r, "clearRecovery") ELSE Done(r)
    /\ SameRows

ClearRecovery(r) ==
    /\ At(r, "clearRecovery")
    /\ user' = [user EXCEPT !.recover = FALSE]
    /\ Done(r) /\ SameStamp /\ OnlyUser

-----------------------------------------------------------------------------
\* Auth requests

\* post_auth_request, from a device the account knows.
StartRequest(r, d, a) ==
    /\ user # None /\ device[d] # None /\ a \notin asked
    /\ Begin(r, [Unused EXCEPT !.stage = "insertRequest", !.device = d, !.ask = a])
    /\ SameRows

InsertRequest(r) ==
    LET h == req[r] IN
    /\ At(r, "insertRequest") /\ h.ask \notin asked
    /\ request' = [request EXCEPT ![h.ask] = [device |-> h.device, approved |-> FALSE,
                                              created |-> now]]
    /\ asked' = asked \cup {h.ask}
    /\ Done(r) /\ UNCHANGED rejected /\ OnlyRequest

StartAnswer(r, a, goal, p) ==
    /\ SignedIn /\ a \in asked
    /\ Begin(r, [Unused EXCEPT !.stage = "answer", !.goal = goal, !.ask = a, !.pw = p])
    /\ SameRows

\* put_auth_request: answered already, or expired, it cannot be answered.
Answer(r) ==
    LET row == request[req[r].ask] IN
    /\ At(r, "answer")
    /\ IF row = None \/ row.approved \/ Expired(row) THEN Done(r)
       ELSE Go(r, IF req[r].goal = "approve" THEN "verify" ELSE "reject")
    /\ SameRows

\* UPDATE ... WHERE id: whatever was answered in between.
Approve(r) ==
    LET a == req[r].ask IN
    /\ At(r, "approve")
    /\ request' = [request EXCEPT ![a] = IF @ = None THEN None ELSE [@ EXCEPT !.approved = TRUE]]
    /\ Done(r) /\ UNCHANGED <<rejected, asked>> /\ OnlyRequest

\* Mutated form of Reject: the row stays, as a request that is not approved.
RejectKept(r) ==
    /\ At(r, "reject")
    /\ rejected' = rejected \cup {req[r].ask}
    /\ Done(r) /\ UNCHANGED <<request, asked>> /\ OnlyRequest

Reject(r) ==
    /\ At(r, "reject")
    /\ request' = [request EXCEPT ![req[r].ask] = None]
    /\ rejected' = rejected \cup {req[r].ask}
    /\ Done(r) /\ UNCHANGED asked /\ OnlyRequest

\* purge_expired_auth_requests
PurgeRequests ==
    /\ request' = [a \in AuthRequest |->
                     IF request[a] # None /\ request[a].created + Retention < now THEN None
                     ELSE request[a]]
    /\ UNCHANGED <<req, rejected, asked>> /\ OnlyRequest

-----------------------------------------------------------------------------
\* The stages at which an enrolment has still to see to the recovery code.
RecoveryStages == {"readRecovery", "setRecovery"}

\* A query fails or the request is cancelled: nothing done before is undone.
Crash(r) ==
    /\ ~At(r, "idle")
    /\ Done(r) /\ cut' = (cut \/ req[r].stage \in RecoveryStages)
    /\ UNCHANGED <<now, user, factor, device, requests, session, drawn, codes>>

Tick ==
    /\ now < MaxTime
    /\ now' = now + 1
    /\ UNCHANGED <<user, factor, device, requests, session, req, drawn, codes, cut>>

BeginProtected(r, p) ==
    \/ \E q \in Password : "change" \in Asked.route /\ StartProtected(r, "change", p, q, 0)
    \/ "sstamp" \in Asked.route /\ StartProtected(r, "dropDevices", p, None, 0)
    \/ \E n \in (now - Drift)..(now + Drift) :
          "enrol" \in Asked.route /\ StartProtected(r, "enrol", p, None, n)
    \/ \E goal \in {"disable", "disableKey"} :
          "disable" \in Asked.route /\ StartProtected(r, goal, p, None, 0)
    \/ \E a \in AuthRequest, goal \in {"approve", "reject"} :
          "requests" \in Asked.route /\ StartAnswer(r, a, goal, p)

BeginAny(r) ==
    \/ \E p \in Password :
          \/ "register" \in Asked.route /\ StartRegister(r, p)
          \/ \E d \in Device : "login" \in Asked.route /\ StartLogin(r, d, p)
          \/ BeginProtected(r, p)
    \/ \E d \in Device, a \in AuthRequest :
          \/ "loginByRequest" \in Asked.route /\ StartLoginByRequest(r, d, a)
          \/ "requests" \in Asked.route /\ StartRequest(r, d, a)
    \/ \E s \in session : "refresh" \in Asked.route /\ StartRefresh(r, s)

LogInStep(r) ==
    \/ FindRequest(r) \/ FindDevice(r) \/ InsertDevice(r) \/ ListFactors(r)
    \/ (\E n \in (now - Drift)..(now + Drift), keep \in BOOLEAN : ProveStep(r, n, keep))
    \/ UseStep(r) \/ (\E keep \in BOOLEAN : ProveRemembered(r, keep))
    \/ ProveRecovery(r) \/ DropFactors(r) \/ DropRecovery(r) \/ DropRemembers(r)
    \/ RefuseLogin(r) \/ Migrate(r) \/ Issue(r)

Continue(r) ==
    \/ StoreRegistration(r) \/ LogInStep(r) \/ Refresh(r)
    \/ Verify(r) \/ ChangePassword(r) \/ DropDevices(r) \/ RotateStamp(r)
    \/ ReadEnrolled(r) \/ DropOldFactor(r) \/ ForgetDevices(r) \/ InsertFactor(r)
    \/ ReadRecovery(r) \/ SetRecovery(r)
    \/ DisableFactor(r) \/ ReadDisabled(r) \/ DropDisabled(r)
    \/ ReadRemaining(r) \/ ClearRecovery(r)
    \/ InsertRequest(r) \/ Answer(r) \/ Approve(r) \/ Reject(r)
    \/ "crash" \in Asked.route /\ Crash(r)

SessionNext ==
    /\ \/ \E r \in Req : BeginAny(r) \/ Continue(r)
       \/ "invite" \in Asked.route /\ Invite
       \/ "raise" \in Asked.route /\ RaiseIterations
       \/ "requests" \in Asked.route /\ PurgeRequests
       \/ Tick
    /\ UNCHANGED load

SessionSpec == SessionInit /\ [][SessionNext]_sessionVars

-----------------------------------------------------------------------------
\* Properties

\* What is promised of one handler at a time only.
OneAtATime == Asked.most = 1

\* Migrations of the hash do not overlap with other handlers.
Settled == OneAtATime \/ "raise" \notin Asked.route

\* A session opened with a password is usable only while that password is the
\* account's and the wrapped user key can be decrypted with it: logins, refreshes and
\* changes of the password may interleave, and one at a time migrations of the hash.
SessionsProvePassword ==
    Settled => \A s \in session : Live(s) /\ s.pw # None => s.pw = user.pw /\ s.pw = user.key

\* Whoever has an authenticator has a recovery code, once no handler is in
\* flight; handlers may be cut short anywhere but between the INSERT of the authenticator
\* and the UPDATE with its code.  Handlers that overlapped are exempt.
RecoverableFactor == OneAtATime /\ InFlight = {} /\ ~cut /\ factor # None => user.recover

\* A device is remembered for the authenticator in force, never an earlier one,
\* as long as handlers do not overlap.
RememberedForFactor ==
    OneAtATime /\ factor # None =>
        \A d \in Device : device[d] # None /\ device[d].remember # None
                          => device[d].remember = factor.uuid

\* No code has its effect twice, a login or an enrolment, as long as there is an
\* authenticator, its replacement by another one included, as long as handlers do not overlap.
NoReplay == OneAtATime => ~replayed

\* An auth request that was rejected lets nobody log in, whatever else answered it.
RejectedStaysRejected ==
    [][\A r \in Req : At(r, "findRequest") /\ (At(r, "findDevice"))'
                      => req[r].ask \notin rejected]_sessionVars
=============================================================================
