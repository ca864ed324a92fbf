------------------------------ MODULE Messages ------------------------------
(***************************************************************************)
(* The two ways a client of an account is reached: the push relay, with    *)
(* which the server registers phones, and the sockets of the durable       *)
(* object NotifyDo, to which it fans messages out.                         *)
(*                                                                         *)
(* A phone is registered in a row of devices and at the relay, by separate *)
(* calls of which any may fail; the durable object checks an access token  *)
(* once, when a socket is opened, and messages are sent by tasks that run  *)
(* after the request is answered and may be lost.                          *)
(*                                                                         *)
(* Of the messages the model has those that end something for the client:  *)
(* the logout after a change of the security stamp, and the answer to an   *)
(* auth request, for whom no token is asked.  Pushing to the relay and the *)
(* messages about the vault change no state.                               *)
(***************************************************************************)
EXTENDS Naturals, FiniteSets

CONSTANTS
    Device,     \* identifiers of devices
    Phone,      \* those of type Android or iOS
    PushToken,  \* tokens phones are given by their platform
    Socket,
    Req,        \* slots for handlers in flight
    MsgWorkloads,  \* sets of routes in use together, and how many handlers at once
    None,       \* SQL NULL, or no row
    MaxStamp,   \* bound on the security stamps drawn
    MaxUuid     \* bound on the push_uuids drawn

MsgRoutes == {"token", "clear", "login", "connect", "listen", "password", "sstamp", "deleteAccount",
              "approve", "crash"}
MsgWorkload == [route : SUBSET MsgRoutes, most : Nat]
ASSUME MsgWorkloadAssumption == MsgWorkloads \subseteq MsgWorkload
ASSUME PhoneAssumption == Phone \subseteq Device
ASSUME MsgNoneAssumption == None \notin Device \cup PushToken \cup Socket \cup Nat
ASSUME MsgBoundAssumption == MaxStamp \in Nat /\ MaxUuid \in Nat

VARIABLES
    load,     \* the workload, chosen at the start
    stamp,    \* users.security_stamp, 0 without an account
    answer,   \* how often the auth request was approved
    dev,      \* dev[d]: row of table devices, or None
    relay,    \* registrations the push relay holds
    session,  \* access tokens handed out
    sock,     \* sock[s]: socket the durable object holds, or None
    job,      \* messages that tasks have still to fan out
    req,      \* handlers in flight
    \* history, read by no guard
    lastStamp, lastUuid,  \* drawn so far
    lost,     \* messages whose task failed
    behind,   \* phones whose registration a failed call left unlike their row
    parted    \* phones of which the relay may hold what no row knows

msgVars == <<load, stamp, answer, dev, relay, session, sock, job, req, lastStamp, lastUuid,
             lost, behind, parted>>

DevRow == [token : PushToken \cup {None}, uuid : Nat \cup {None}]
ASSUME DevRowAssumption == None \notin DevRow
\* External: the relay keeps one registration for each uuid (deviceId).
Registration == [uuid : Nat, token : PushToken, device : Device]
AccessToken == [device : Device, stamp : Nat]
Topic == {"account", "request"}
Message == [topic : Topic, number : Nat]
\* since: the messages of its topic that were on their way when the protocol was
\* initialized, 0 before; told: those it was sent, both history.
Connection == [topic : Topic, initialized : BOOLEAN, broken : BOOLEAN,
               since : Nat \cup {None}, told : SUBSET Nat]

MsgStage == {"idle", "vet", "readRow", "setToken", "register", "persist", "unregister", "find",
             "insert", "touch", "issue", "listUuids", "dropDevices", "dropUser", "replace",
             "readRequest", "approve"}
MsgHandler ==
    [stage : MsgStage, route : MsgRoutes \cup {None},
     device : Device \cup {None}, socket : Socket \cup {None},
     token : PushToken \cup {None},    \* the one to be stored, then that of device in memory
     uuid : Nat \cup {None},           \* push_uuid of device in memory
     created : BOOLEAN,                \* drawn by this handler
     uuids : SUBSET Nat,               \* still to be unregistered
     stamp : Nat]                      \* a login: as it was read
MsgIdle == [stage |-> "idle", route |-> None, device |-> None, socket |-> None, token |-> None,
            uuid |-> None, created |-> FALSE, uuids |-> {}, stamp |-> 0]

\* Types; a row of a device has an account, a uuid was drawn, and is that of one device.
MsgTypeOK ==
    /\ load \in MsgWorkloads
    /\ stamp \in 0..lastStamp /\ answer \in Nat
    /\ dev \in [Device -> DevRow \cup {None}]
    /\ stamp = 0 => \A d \in Device : dev[d] = None
    /\ \A d \in Device : dev[d] # None /\ dev[d].uuid # None => d \in Phone /\ dev[d].uuid \in 1..lastUuid
    /\ relay \subseteq Registration
    /\ \A g, h \in relay : g.uuid = h.uuid => g = h
    /\ session \subseteq AccessToken
    /\ sock \in [Socket -> Connection \cup {None}]
    /\ job \subseteq Message /\ lost \subseteq Message
    /\ req \in [Req -> MsgHandler]
    /\ behind \subseteq Phone /\ parted \subseteq Device

MsgInit ==
    /\ load \in MsgWorkloads
    /\ stamp = 1 /\ lastStamp = 1 /\ answer = 0 /\ lastUuid = 0
    /\ dev = [d \in Device |-> [token |-> None, uuid |-> None]]
    /\ relay = {}
    /\ session = [device : Device, stamp : {1}]
    /\ sock = [s \in Socket |-> None]
    /\ job = {} /\ lost = {} /\ behind = {} /\ parted = {}
    /\ req = [r \in Req |-> MsgIdle]

-----------------------------------------------------------------------------
At(r, stage) == req[r].stage = stage
Goto(r, h) == req' = [req EXCEPT ![r] = h]
Proceed(r, stage) == Goto(r, [req[r] EXCEPT !.stage = stage])
Finish(r) == Goto(r, MsgIdle)
Busy == {r \in Req : ~At(r, "idle")}
Whole == {"sstamp", "deleteAccount"}
\* The devices a handler has read to change their row or registration.
Engaged(h) ==
    CASE h.stage \in {"setToken", "register", "persist"} -> {h.device}
      [] h.stage = "touch" /\ h.token # None -> {h.device}
      [] h.stage = "unregister" /\ h.route = "clear" -> {h.device}
      [] h.stage \in {"unregister", "dropDevices", "dropUser"} /\ h.route \in Whole -> Device
      [] OTHER -> {}
\* Two handlers that read before either is done may part the relay from the rows.
Meets(r) == parted' = parted \cup UNION {Engaged(req[q]) \cap Engaged(req'[r]) : q \in Req \ {r}}

accounts == <<stamp, lastStamp, answer, session>>
hub == <<sock, job, lost>>
pushes == <<dev, relay, lastUuid, behind, parted>>
UuidOf(d) == IF dev[d] = None THEN None ELSE dev[d].uuid
Set(d, field, value) ==
    dev' = IF dev[d] = None THEN dev ELSE
               IF field = "token" THEN [dev EXCEPT ![d].token = value]
                                  ELSE [dev EXCEPT ![d].uuid = value]

Begin(r, h) ==
    /\ At(r, "idle") /\ h.route \in load.route /\ Cardinality(Busy) < load.most
    /\ Goto(r, h)
    /\ UNCHANGED <<load, accounts, pushes, hub>>

Asks(route, stage, d, s, token) ==
    [MsgIdle EXCEPT !.stage = stage, !.route = route, !.device = d, !.socket = s, !.token = token]

\* decode_access_token reads the stamp, and the row of the device with another query.
Start(r, route, d, s, token) ==
    /\ [device |-> d, stamp |-> stamp] \in session /\ stamp # 0
    /\ Begin(r, Asks(route, "vet", d, s, token))

Opening(topic) ==
    [topic |-> topic, initialized |-> FALSE, broken |-> FALSE, since |-> None, told |-> {}]

AfterVet(route) ==
    CASE route \in {"token", "clear"} -> "readRow"
      [] route \in Whole -> "listUuids"
      [] route = "password" -> "replace" [] route = "approve" -> "readRequest"

Vet(r) ==
    LET h == req[r] IN
    /\ At(r, "vet")
    /\ IF dev[h.device] = None THEN Finish(r) /\ UNCHANGED sock
       ELSE IF h.route = "connect"
       THEN sock' = [sock EXCEPT ![h.socket] = Opening("account")] /\ Finish(r)
       ELSE Proceed(r, AfterVet(h.route)) /\ UNCHANGED sock
    /\ UNCHANGED <<load, accounts, pushes, job, lost>>

-----------------------------------------------------------------------------
\* upsert_device_token, clear_device_token

ReadRow(r) ==
    LET h == req[r]  row == dev[h.device] IN
    /\ At(r, "readRow")
    /\ IF \/ row = None
          \/ h.route = "token" /\ row.token = h.token /\ row.uuid # None
       THEN Finish(r)
       ELSE Goto(r, [h EXCEPT !.stage = "setToken", !.uuid = row.uuid])
    /\ Meets(r)
    /\ UNCHANGED <<load, accounts, dev, relay, lastUuid, behind, hub>>

SetToken(r) ==
    LET h == req[r] IN
    /\ At(r, "setToken")
    /\ Set(h.device, "token", h.token)
    /\ IF h.route = "token" /\ h.device \in Phone THEN Proceed(r, "register")
       ELSE IF h.route = "clear" /\ h.uuid # None THEN Proceed(r, "unregister")
       ELSE Finish(r)
    /\ UNCHANGED <<load, accounts, relay, lastUuid, behind, parted, hub>>

\* Mutated form of EnsureUuid: a push_uuid for every registration.
EnsureUuidNew(h) == [h EXCEPT !.uuid = lastUuid + 1, !.created = TRUE]

EnsureUuid(h) ==
    IF h.uuid = None THEN [h EXCEPT !.uuid = lastUuid + 1, !.created = TRUE] ELSE h

Registering(h) ==
    relay' = {g \in relay : g.uuid # h.uuid}
             \cup {[uuid |-> h.uuid, token |-> h.token, device |-> h.device]}

\* A login goes on whether or not the relay answered.
AfterRelay(r, h) == IF h.route = "login" THEN Goto(r, [h EXCEPT !.stage = "issue"]) ELSE Finish(r)

Register(r) ==
    LET h == EnsureUuid(req[r]) IN
    /\ At(r, "register") /\ h.uuid <= MaxUuid
    /\ Registering(h)
    /\ behind' = IF h.created THEN behind ELSE behind \ {h.device}
    /\ IF h.created THEN Goto(r, [h EXCEPT !.stage = "persist"]) ELSE AfterRelay(r, h)
    /\ lastUuid' = IF h.created THEN h.uuid ELSE lastUuid
    /\ UNCHANGED <<load, accounts, dev, parted, hub>>

\* No token of the relay, a refusal or no answer: then the relay may know a uuid that
\* is forgotten here.  (With the uuid of the row, done without an answer is as done.)
RegisterFails(r) ==
    LET h == EnsureUuid(req[r]) IN
    /\ At(r, "register") /\ h.uuid <= MaxUuid
    /\ \/ /\ h.created /\ Registering(h) /\ lastUuid' = h.uuid
          /\ parted' = parted \cup {h.device}
          /\ UNCHANGED behind
       \/ /\ behind' = IF h.created THEN behind ELSE behind \cup {h.device}
          /\ UNCHANGED <<relay, lastUuid, parted>>
    /\ AfterRelay(r, h)
    /\ UNCHANGED <<load, accounts, dev, hub>>

Persist(r) ==
    LET h == req[r] IN
    /\ At(r, "persist")
    /\ Set(h.device, "uuid", h.uuid)
    /\ AfterRelay(r, h)
    /\ UNCHANGED <<load, accounts, relay, lastUuid, behind, parted, hub>>

\* A login only logs it: the relay knows a uuid that is forgotten here.
PersistFails(r) ==
    LET h == req[r] IN
    /\ At(r, "persist")
    /\ parted' = parted \cup {h.device}
    /\ AfterRelay(r, h)
    /\ UNCHANGED <<load, accounts, dev, relay, lastUuid, behind, hub>>

\* unregister_push_device of clear_device_token
Unregister(r) ==
    LET h == req[r] IN
    /\ At(r, "unregister") /\ h.route = "clear"
    /\ \/ relay' = {g \in relay : g.uuid # h.uuid} /\ behind' = behind \ {h.device}
       \/ UNCHANGED relay /\ behind' = behind \cup {h.device}
    /\ Finish(r)
    /\ UNCHANGED <<load, accounts, dev, lastUuid, parted, hub>>

-----------------------------------------------------------------------------
\* The end of a login with the password

StartLogin(r, d) ==
    /\ stamp # 0
    /\ Begin(r, [Asks("login", "find", d, None, None) EXCEPT !.stamp = stamp])

\* get_or_create, then what it returned in memory
FindDevice(r) ==
    LET h == req[r]  row == dev[h.device] IN
    /\ At(r, "find")
    /\ IF row = None THEN Proceed(r, "insert")
       ELSE Goto(r, [h EXCEPT !.stage = "touch", !.token = row.token, !.uuid = row.uuid])
    /\ Meets(r)
    /\ UNCHANGED <<load, accounts, dev, relay, lastUuid, behind, hub>>

\* The primary key and the foreign key of devices may refuse the row.
InsertDevice(r) ==
    LET h == req[r] IN
    /\ At(r, "insert")
    /\ IF stamp = 0 \/ dev[h.device] # None THEN Finish(r) /\ UNCHANGED dev
       ELSE /\ dev' = [dev EXCEPT ![h.device] = [token |-> None, uuid |-> None]]
            /\ Proceed(r, "touch")
    /\ UNCHANGED <<load, accounts, relay, lastUuid, behind, parted, hub>>

\* touch, which changes nothing the model has, and the test that follows
Reregister(r) ==
    /\ At(r, "touch")
    /\ Proceed(r, IF req[r].token # None /\ req[r].device \in Phone THEN "register" ELSE "issue")
    /\ UNCHANGED <<load, accounts, pushes, hub>>

Issue(r) ==
    /\ At(r, "issue")
    /\ session' = session \cup {[device |-> req[r].device, stamp |-> req[r].stamp]}
    /\ Finish(r)
    /\ UNCHANGED <<load, stamp, lastStamp, answer, pushes, hub>>

-----------------------------------------------------------------------------
\* post_sstamp, delete_account, post_password

ListUuids(h) == {UuidOf(d) : d \in Device} \ {None}

AfterList(h) == IF h.route = "sstamp" THEN "dropDevices" ELSE "dropUser"

List(r) ==
    LET h == req[r] IN
    /\ At(r, "listUuids")
    /\ Goto(r, [h EXCEPT !.uuids = ListUuids(h),
                         !.stage = IF ListUuids(h) = {} THEN AfterList(h) ELSE "unregister"])
    /\ Meets(r)
    /\ UNCHANGED <<load, accounts, dev, relay, lastUuid, behind, hub>>

\* A failure is logged, and the row of the phone goes all the same.
UnregisterEach(r) ==
    LET h == req[r] IN
    /\ At(r, "unregister") /\ h.route \in Whole
    /\ \E u \in h.uuids :
          /\ \/ relay' = {g \in relay : g.uuid # u} /\ UNCHANGED parted
             \/ UNCHANGED relay /\ parted' = parted \cup {g.device : g \in {g \in relay : g.uuid = u}}
          /\ Goto(r, [h EXCEPT !.uuids = @ \ {u},
                               !.stage = IF h.uuids = {u} THEN AfterList(h) ELSE @])
    /\ UNCHANGED <<load, accounts, dev, lastUuid, behind, hub>>

DropDevices(r) ==
    /\ At(r, "dropDevices")
    /\ dev' = [d \in Device |-> None]
    /\ Proceed(r, "replace")
    /\ UNCHANGED <<load, accounts, relay, lastUuid, behind, parted, hub>>

\* Mutated form of DropUser: without the cascade to devices.
DropUserOnly(r) ==
    /\ At(r, "dropUser")
    /\ stamp' = 0 /\ UNCHANGED dev
    /\ Finish(r)
    /\ UNCHANGED <<load, lastStamp, answer, session, relay, lastUuid, behind, parted, hub>>

\* The end of delete_account: the rows of devices cascade.
DropUser(r) ==
    /\ At(r, "dropUser")
    /\ stamp' = 0 /\ dev' = [d \in Device |-> None]
    /\ Finish(r)
    /\ UNCHANGED <<load, lastStamp, answer, session, relay, lastUuid, behind, parted, hub>>

Publish(topic, number) == job' = job \cup {[topic |-> topic, number |-> number]}

\* The new stamp of post_sstamp, post_password, post_kdf and post_rotatekey, and the
\* task publish_user_logout leaves behind.  Without an account the UPDATE has no effect.
Replace(r) ==
    /\ At(r, "replace") /\ lastStamp < MaxStamp
    /\ IF stamp = 0 THEN UNCHANGED <<stamp, lastStamp>>
       ELSE lastStamp' = lastStamp + 1 /\ stamp' = lastStamp'
    /\ Publish("account", lastStamp')
    /\ Finish(r)
    /\ UNCHANGED <<load, answer, session, pushes, sock, lost>>

-----------------------------------------------------------------------------
\* put_auth_request, approving

ReadRequest(r) ==
    /\ At(r, "readRequest")
    /\ IF answer > 0 THEN Finish(r) ELSE Proceed(r, "approve")
    /\ UNCHANGED <<load, accounts, pushes, hub>>

Approve(r) ==
    /\ At(r, "approve")
    /\ answer' = answer + 1
    /\ Publish("request", answer')
    /\ Finish(r)
    /\ UNCHANGED <<load, stamp, lastStamp, session, pushes, sock, lost>>

-----------------------------------------------------------------------------
\* The durable object.  Each of its events is one step: it awaits nothing but the
\* token of a socket for a user.

\* handle_anonymous_hub: whoever names a token gets a socket.
Listen(s) ==
    /\ "listen" \in load.route /\ sock[s] = None
    /\ sock' = [sock EXCEPT ![s] = Opening("request")]
    /\ UNCHANGED <<load, accounts, pushes, job, lost, req>>

Current(topic) == IF topic = "account" THEN lastStamp ELSE answer

\* The first frame of the client, which it may send again.
Handshake(s) ==
    /\ sock[s] # None /\ ~sock[s].broken
    /\ sock' = [sock EXCEPT ![s].initialized = TRUE,
                            ![s].since = IF @ = None THEN Current(sock[s].topic) ELSE @]
    /\ UNCHANGED <<load, accounts, pushes, job, lost, req>>

\* The client is gone, which the object learns when it sends, or from a close event.
Break(s) ==
    /\ sock[s] # None /\ ~sock[s].broken
    /\ sock' = [sock EXCEPT ![s].broken = TRUE]
    /\ UNCHANGED <<load, accounts, pushes, job, lost, req>>

Close(s) ==
    /\ sock[s] # None /\ sock[s].broken
    /\ sock' = [sock EXCEPT ![s] = None]
    /\ UNCHANGED <<load, accounts, pushes, job, lost, req>>

\* get_websockets_with_tag, and the sockets a message goes to
Tagged(m) == {s \in Socket : sock[s] # None /\ sock[s].topic = m.topic}
Matched(m) == {s \in Tagged(m) : sock[s].initialized}

Sent(m, s) == [sock[s] EXCEPT !.told = @ \cup {m.number}]

\* Mutated form of Fanned: the first failing socket ends the loop.
FannedUntilBroken(m) ==
    [s \in Socket |->
        IF s \notin Matched(m) THEN sock[s]
        ELSE IF sock[s].broken THEN None
        ELSE IF \E t \in Matched(m) : sock[t].broken THEN sock[s] ELSE Sent(m, s)]

\* What ws_fanout makes of each socket.
Fanned(m) ==
    [s \in Socket |->
        IF s \notin Matched(m) THEN sock[s]
        ELSE IF sock[s].broken THEN None ELSE Sent(m, s)]

FanOut(m) ==
    /\ m \in job
    /\ job' = job \ {m}
    /\ sock' = Fanned(m)
    /\ UNCHANGED <<load, accounts, pushes, lost, req>>

\* The task, or the request it sends, fails.
Lose(m) ==
    /\ m \in job
    /\ job' = job \ {m} /\ lost' = lost \cup {m}
    /\ UNCHANGED <<load, accounts, pushes, sock, req>>

-----------------------------------------------------------------------------
\* A handler is cut short between two calls.
Crash(r) ==
    LET h == req[r] IN
    /\ ~At(r, "idle")
    /\ Finish(r)
    /\ behind' = behind \cup
          (IF \/ At(r, "register") /\ h.uuid # None
              \/ At(r, "unregister") /\ h.route = "clear"
           THEN {h.device}
           ELSE IF h.route \in Whole THEN Phone ELSE {})
    /\ parted' = parted \cup (IF At(r, "persist") THEN {h.device} ELSE {})
    /\ UNCHANGED <<load, accounts, dev, relay, lastUuid, hub>>

MsgBegin(r) ==
    \/ \E d \in Device :
          \/ \E t \in PushToken : Start(r, "token", d, None, t)
          \/ \E route \in {"clear", "password", "sstamp", "deleteAccount", "approve"} :
                Start(r, route, d, None, None)
          \/ \E s \in Socket : sock[s] = None /\ Start(r, "connect", d, s, None)
          \/ StartLogin(r, d)

MsgStep(r) ==
    \/ MsgBegin(r) \/ Vet(r)
    \/ ReadRow(r) \/ SetToken(r) \/ Register(r) \/ RegisterFails(r)
    \/ Persist(r) \/ PersistFails(r) \/ Unregister(r)
    \/ FindDevice(r) \/ InsertDevice(r) \/ Reregister(r) \/ Issue(r)
    \/ List(r) \/ UnregisterEach(r) \/ DropDevices(r) \/ DropUser(r) \/ Replace(r)
    \/ ReadRequest(r) \/ Approve(r)
    \/ "crash" \in load.route /\ Crash(r)

MsgNext ==
    \/ \E r \in Req : MsgStep(r)
    \/ \E s \in Socket : Listen(s) \/ Handshake(s) \/ Break(s) \/ Close(s)
    \/ \E m \in job : FanOut(m) \/ Lose(m)

MsgSpec == MsgInit /\ [][MsgNext]_msgVars

-----------------------------------------------------------------------------
\* Properties

Held(d) ==
    IF dev[d] = None THEN {}
    ELSE IF None \in {dev[d].token, dev[d].uuid} THEN {} ELSE {<<dev[d].uuid, dev[d].token>>}
Registered(d) == {<<g.uuid, g.token>> : g \in {g \in relay : g.device = d}}

\* What the relay holds of a phone no handler works on is what its row says, no more
\* and no less, but for calls that failed (until a later one makes it good) and for
\* handlers that met: upsert_device_token and clear_device_token write the row first,
\* a login registers again what it finds, and who loses the row is unregistered before.
RelayAgrees ==
    \A d \in Device \ (behind \cup parted) :
        (\A r \in Req : d \notin Engaged(req[r])) => Registered(d) = Held(d)

\* Whoever has the protocol initialized when the stamp is changed or the request is
\* approved hears of it, unless the message is on its way or was lost: sockets that
\* are gone or came later make no difference (publish_user_logout,
\* publish_anonymous_update, ws_fanout).
LogoutTold ==
    \A s \in Socket :
        LET c == sock[s] IN
        c # None /\ ~c.broken /\ c.initialized =>
            \A n \in (c.since + 1)..Current(c.topic) :
                n \in c.told \/ [topic |-> c.topic, number |-> n] \in job \cup lost
=============================================================================
