------------------------------- MODULE Sends -------------------------------
(***************************************************************************)
(* Bitwarden Sends: the tables sends and sends_pending (D1), the object    *)
(* store that holds the files (KV or R2), the signed tokens handed out,    *)
(* the HTTP handlers that work on them and the cron purge.                 *)
(*                                                                         *)
(* One D1 query, one D1 batch or one store call is one step: D1 runs each  *)
(* of them atomically and every handler may be suspended at each .await,   *)
(* so handlers interleave between those steps and may die between them.    *)
(* A handler in flight is a slot of req; the row it read stays in its slot *)
(* as the snapshot it goes on to act upon.                                 *)
(*                                                                         *)
(* All sends belong to one account, whose users.updated_at is revision.    *)
(* A file id is drawn once per send, so a storage key is a send id here.   *)
(***************************************************************************)
EXTENDS Naturals, FiniteSets

CONSTANTS
    Send,        \* send identifiers, each used for one creation
    Req,         \* slots for handlers in flight
    Route,       \* the routes in use: all of AllRoutes, or those an instance is about
    Password,    \* passwords
    Payload,     \* request bodies of create and update
    None,        \* SQL NULL, or no row
    LinkTtl,     \* SEND_TTL_SECS, for upload and download links
    AccessTtl,   \* SEND_ACCESS_TOKEN_TTL_SECS
    StaleAfter,  \* age at which a pending send is purged (one day)
    MaxDeletion, \* MAX_DELETION_DAYS
    MaxTime,     \* bound on the clock
    MaxCharges   \* bound on the accesses begun per send

ASSUME NoneAssumption == None \notin Nat \cup Password \cup Send

AllRoutes ==
    {"createText", "createFileV2", "createFileLegacy", "streamUpload",
     "directUpload", "update", "removePassword", "delete", "access",
     "accessFile", "grant", "download", "tokenAccess", "tokenAccessFile", "purge"}
ASSUME RouteAssumption == Route \subseteq AllRoutes
ASSUME ReqAssumption == IsFiniteSet(Req)
ASSUME BoundsAssumption ==
    /\ LinkTtl \in Nat /\ AccessTtl \in Nat /\ StaleAfter \in Nat
    /\ MaxDeletion \in Nat /\ MaxTime \in Nat /\ MaxCharges \in Nat

\* A request body: setPw tells whether "password" is present, and pw = None
\* is the empty string; exp and del are offsets from the time of the request.
ASSUME PayloadAssumption ==
    Payload \subseteq [setPw : BOOLEAN, pw : Password \cup {None},
                       max : Nat \cup {None}, exp : Nat \cup {None},
                       del : Nat, disabled : BOOLEAN]

VARIABLES
    now,        \* the wall clock
    sends,      \* table sends: sends[s] is a row or None
    pending,    \* table sends_pending
    store,      \* sends whose file is in the object store
    req,        \* handlers in flight
    cron,       \* the scheduled purge
    link,       \* link[s]: latest expiry of a download link issued for s
    access,     \* access[s]: latest expiry of a send access token issued for s
    revision,   \* users.updated_at of the owner
    \* history, read by no action
    used,       \* ids already drawn
    cap,        \* cap[s]: maximum access count s was created with
    edited,     \* sends on which an owner's update was begun
    charged,    \* charged[s]: accesses charged to s
    served,     \* served[s]: contents released against a charge
    uploads,    \* uploads[s]: uploads begun for s, 2 standing for more
    cut,        \* sends on which a handler or the purge died half done
    late        \* sends promoted when already stale

tables == <<sends, pending>>
tokens == <<link, access>>
ghosts == <<used, cap, edited, charged, served, uploads, cut, late>>
vars == <<now, sends, pending, store, req, cron, link, access, revision,
          used, cap, edited, charged, served, uploads, cut, late>>

-----------------------------------------------------------------------------
\* Rows and handlers

SendType == {"text", "file"}
Row == [type : SendType, pw : Password \cup {None}, max : Nat \cup {None},
        count : Nat, exp : Nat \cup {None}, del : Nat, disabled : BOOLEAN,
        created : Nat, updated : Nat]
ASSUME NullAssumption == None \notin Row

\* Stages at which a handler still holds the row it read or built ...
SnapshotStage ==
    {"insert", "putStream", "putBytes", "streamed", "stored", "write", "bump",
     "deleteObject", "deleteRow",
     "chargeText", "chargeLink", "chargeDownload", "chargeGrant"}
\* ... and stages at which only the account's revision bump and the reply are left.
ReplyStage == {"touch", "serve", "serveFree", "link", "stream"}

Idle == [stage |-> "idle", id |-> None, row |-> None, at |-> 0]
Handler == {Idle} \cup [stage : SnapshotStage, id : Send, row : Row, at : Nat]
                  \cup [stage : ReplyStage, id : Send, row : {None}, at : Nat]

CronStage == {"idle", "staleObjects", "expired", "expiredObjects", "expiredRows"}

TypeOK ==
    /\ now \in Nat
    /\ sends \in [Send -> Row \cup {None}]
    /\ pending \in [Send -> Row \cup {None}]
    /\ store \subseteq Send
    /\ req \in [Req -> Handler]
    /\ cron \in [stage : CronStage, found : SUBSET Send, keys : SUBSET Send, at : Nat,
                failed : BOOLEAN]
    /\ link \in [Send -> Nat]
    /\ access \in [Send -> Nat]
    /\ revision \in Nat
    /\ used \subseteq Send
    /\ cap \in [Send -> Nat \cup {None}]
    /\ edited \subseteq Send
    /\ charged \in [Send -> Nat]
    /\ served \in [Send -> Nat]
    /\ uploads \in [Send -> 0..2]
    /\ cut \subseteq Send
    /\ late \subseteq Send

Init ==
    /\ now = 1
    /\ sends = [s \in Send |-> None]
    /\ pending = [s \in Send |-> None]
    /\ store = {}
    /\ req = [r \in Req |-> Idle]
    /\ cron = [stage |-> "idle", found |-> {}, keys |-> {}, at |-> 0, failed |-> FALSE]
    /\ link = [s \in Send |-> 0]
    /\ access = [s \in Send |-> 0]
    /\ revision = 0
    /\ used = {}
    /\ cap = [s \in Send |-> None]
    /\ edited = {}
    /\ charged = [s \in Send |-> 0]
    /\ served = [s \in Send |-> 0]
    /\ uploads = [s \in Send |-> 0]
    /\ cut = {}
    /\ late = {}

\* Handler r holds the row of send s and waits to perform its next call.
Hold(r, stage, s, row) ==
    req' = [req EXCEPT ![r] = [stage |-> stage, id |-> s, row |-> row, at |-> 0]]
\* Handler r is left with the bump of users.updated_at to time t and its reply.
Reply(r, stage, s, t) ==
    req' = [req EXCEPT ![r] = [stage |-> stage, id |-> s, row |-> None, at |-> t]]
Finish(r) == req' = [req EXCEPT ![r] = Idle]
At(r, stage) == req[r].stage = stage

\* validate_send_dates
ValidDates(p) ==
    /\ p.del > 0 /\ p.del <= MaxDeletion
    /\ p.exp # None => p.exp > 0 /\ p.exp <= p.del

\* The settings both create and update take from a request body.
Later(offset) == IF offset = None THEN None ELSE now + offset
Configured(row, p) ==
    [row EXCEPT !.max = p.max, !.exp = Later(p.exp), !.del = now + p.del,
                !.disabled = p.disabled,
                !.pw = IF p.setPw THEN p.pw ELSE @]

NewRow(type, p) ==
    Configured([type |-> type, pw |-> None, max |-> None, count |-> 0,
                exp |-> None, del |-> 0, disabled |-> FALSE,
                created |-> now, updated |-> now], p)

\* validate_access
Accessible(row) ==
    /\ ~row.disabled
    /\ row.del > now
    /\ row.exp # None => row.exp > now
    /\ row.max # None => row.count < row.max

\* has_password and check_password
PasswordMatches(row, guess) == row.pw # None => guess = row.pw

\* Mutated form of Written: the full-row write sets access_count as well.
WrittenWithCount(row, snapshot) ==
    [snapshot EXCEPT !.type = row.type, !.created = row.created, !.updated = now]

\* What UPDATE sends SET ... of SendDB::update leaves in the table: every
\* column but type, access_count and created_at comes from the snapshot.
Written(row, snapshot) ==
    [snapshot EXCEPT !.type = row.type, !.count = row.count,
                     !.created = row.created, !.updated = now]
WriteSnapshot(s, snapshot) ==
    sends' = IF sends[s] = None THEN sends
             ELSE [sends EXCEPT ![s] = Written(@, snapshot)]

Fresh(s, p) ==
    /\ s \notin used /\ used' = used \cup {s}
    /\ cap' = [cap EXCEPT ![s] = p.max]
    /\ UNCHANGED <<edited, charged, served, uploads, cut, late>>

-----------------------------------------------------------------------------
\* Creation and upload

CreateTextSend(r, s, p) ==
    /\ At(r, "idle") /\ ValidDates(p)
    /\ Fresh(s, p)
    /\ sends' = [sends EXCEPT ![s] = NewRow("text", p)]
    /\ Reply(r, "touch", s, now)
    /\ UNCHANGED <<now, pending, store, cron, tokens, revision>>

\* The reply carries an upload link that expires LinkTtl later.
CreateFileSendV2(r, s, p) ==
    /\ At(r, "idle") /\ ValidDates(p)
    /\ Fresh(s, p)
    /\ pending' = [pending EXCEPT ![s] = NewRow("file", p)]
    /\ UNCHANGED <<now, sends, store, req, cron, tokens, revision>>

\* The legacy multipart route stores the file first and inserts the row next.
CreateFileSendLegacy(r, s, p) ==
    /\ At(r, "idle") /\ ValidDates(p)
    /\ Fresh(s, p)
    /\ store' = store \cup {s}
    /\ Hold(r, "insert", s, NewRow("file", p))
    /\ UNCHANGED <<now, tables, cron, tokens, revision>>

InsertLegacy(r) ==
    /\ At(r, "insert")
    /\ sends' = [sends EXCEPT ![req[r].id] = req[r].row]
    /\ Reply(r, "touch", req[r].id, req[r].row.updated)
    /\ UNCHANGED <<now, pending, store, cron, tokens, revision, ghosts>>

CountUpload(s) ==
    /\ uploads' = [uploads EXCEPT ![s] = IF @ = 2 THEN 2 ELSE @ + 1]
    /\ UNCHANGED <<used, cap, edited, charged, served, cut, late>>

\* handle_send_upload: the link's signature and expiry stand for the session.
StartStreamUpload(r, s) ==
    /\ At(r, "idle") /\ pending[s] # None
    /\ now < pending[s].created + LinkTtl
    /\ Hold(r, "putStream", s, pending[s])
    /\ CountUpload(s)
    /\ UNCHANGED <<now, tables, store, cron, tokens, revision>>

\* upload_file_send_direct: the owner's session, at any time.
StartDirectUpload(r, s) ==
    /\ At(r, "idle") /\ pending[s] # None
    /\ Hold(r, "putBytes", s, pending[s])
    /\ CountUpload(s)
    /\ UNCHANGED <<now, tables, store, cron, tokens, revision>>

PutObject(r) ==
    /\ req[r].stage \in {"putStream", "putBytes"}
    /\ store' = store \cup {req[r].id}
    /\ Hold(r, IF At(r, "putStream") THEN "streamed" ELSE "stored", req[r].id, req[r].row)
    /\ UNCHANGED <<now, tables, cron, tokens, revision, ghosts>>

\* put_stream_to_storage found another size than declared in the R2 object.
DiscardMismatch(r) ==
    /\ At(r, "streamed")
    /\ store' = store \ {req[r].id}
    /\ Finish(r)
    /\ UNCHANGED <<now, tables, cron, tokens, revision, ghosts>>

\* SendDB::finalize: one batch deletes the pending row and inserts the final
\* one.  Deleting no row is no error; an id already in sends is, and rolls back.
Finalize(r) ==
    LET s == req[r].id IN
    /\ req[r].stage \in {"streamed", "stored"}
    /\ IF sends[s] # None
         THEN Finish(r) /\ UNCHANGED <<tables, late>>
         ELSE /\ pending' = [pending EXCEPT ![s] = None]
              /\ sends' = [sends EXCEPT ![s] = [req[r].row EXCEPT !.updated = now]]
              /\ late' = IF now > req[r].row.created + StaleAfter THEN late \cup {s} ELSE late
              /\ Reply(r, "touch", s, now)
    /\ UNCHANGED <<now, store, cron, tokens, revision,
                   used, cap, edited, charged, served, uploads, cut>>

-----------------------------------------------------------------------------
\* The owner's changes

StartUpdate(r, s, p) ==
    /\ At(r, "idle") /\ ValidDates(p) /\ sends[s] # None
    /\ Hold(r, "write", s, Configured(sends[s], p))
    /\ edited' = edited \cup {s}
    /\ UNCHANGED <<now, tables, store, cron, tokens, revision,
                   used, cap, charged, served, uploads, cut, late>>

StartRemovePassword(r, s) ==
    /\ At(r, "idle") /\ sends[s] # None
    /\ Hold(r, "write", s, [sends[s] EXCEPT !.pw = None])
    /\ UNCHANGED <<now, tables, store, cron, tokens, revision, ghosts>>

\* The row may be gone by now: the query then changes nothing and is no error.
WriteRow(r) ==
    /\ At(r, "write")
    /\ WriteSnapshot(req[r].id, req[r].row)
    /\ Reply(r, "touch", req[r].id, now)
    /\ UNCHANGED <<now, pending, store, cron, tokens, revision, ghosts>>

\* Mutated form of StartDelete: the file is left in the store.
StartDeleteRowOnly(r, s) ==
    /\ At(r, "idle") /\ sends[s] # None
    /\ Hold(r, "deleteRow", s, sends[s])
    /\ UNCHANGED <<now, tables, store, cron, tokens, revision, ghosts>>

StartDelete(r, s) ==
    /\ At(r, "idle") /\ sends[s] # None
    /\ Hold(r, IF sends[s].type = "file" THEN "deleteObject" ELSE "deleteRow", s, sends[s])
    /\ UNCHANGED <<now, tables, store, cron, tokens, revision, ghosts>>

DeleteObject(r) ==
    /\ At(r, "deleteObject")
    /\ store' = store \ {req[r].id}
    /\ Hold(r, "deleteRow", req[r].id, req[r].row)
    /\ UNCHANGED <<now, tables, cron, tokens, revision, ghosts>>

DeleteRow(r) ==
    /\ At(r, "deleteRow")
    /\ sends' = [sends EXCEPT ![req[r].id] = None]
    /\ Reply(r, "touch", req[r].id, now)
    /\ UNCHANGED <<now, pending, store, cron, tokens, revision, ghosts>>

-----------------------------------------------------------------------------
\* Anonymous access

\* A row that can be read, is accessible now and whose password was given.
Opens(r, s, guess) ==
    /\ At(r, "idle") /\ sends[s] # None
    /\ Accessible(sends[s]) /\ PasswordMatches(sends[s], guess)
    /\ charged[s] < MaxCharges
    /\ UNCHANGED <<now, tables, store, cron, tokens, revision, ghosts>>

\* Mutated form of StartAccess: the text is served without counting the access.
StartAccessUncounted(r, s, guess) ==
    /\ Opens(r, s, guess) /\ sends[s].type = "text"
    /\ Reply(r, "serve", s, now)

StartAccess(r, s, guess) ==
    /\ Opens(r, s, guess)
    /\ Hold(r, IF sends[s].type = "text" THEN "chargeText" ELSE "bump", s, sends[s])

StartAccessFile(r, s, guess) ==
    /\ Opens(r, s, guess) /\ sends[s].type = "file"
    /\ Hold(r, "chargeLink", s, sends[s])

\* grant_type=send_access
StartGrant(r, s, guess) ==
    /\ Opens(r, s, guess)
    /\ Hold(r, "chargeGrant", s, sends[s])

\* Mutated form of StartDownload: the access that issued the link is the one counted.
StartDownloadUncounted(r, s) ==
    /\ now < link[s]
    /\ Opens(r, s, sends[s].pw) /\ sends[s].type = "file"
    /\ Reply(r, "stream", s, now)

\* The link stands for the password.
StartDownload(r, s) ==
    /\ now < link[s]
    /\ Opens(r, s, sends[s].pw) /\ sends[s].type = "file"
    /\ Hold(r, "chargeDownload", s, sends[s])

\* access_send on a file send: SendDB::update with the row as it was read.
BumpRow(r) ==
    /\ At(r, "bump")
    /\ WriteSnapshot(req[r].id, req[r].row)
    /\ Reply(r, "serveFree", req[r].id, now)
    /\ UNCHANGED <<now, pending, store, cron, tokens, revision, ghosts>>

\* Mutated form of Chargeable: only the earlier validate_access compares.
ChargeableUnguarded(s) == sends[s] # None

\* The guard of the UPDATE in increment_access_count.
Chargeable(s) ==
    /\ sends[s] # None
    /\ sends[s].max # None => sends[s].count < sends[s].max

\* Mutated form of AfterCharge: the handler of a text send ends without its bump.
AfterChargeDone == [chargeText |-> "idle", chargeLink |-> "link", chargeDownload |-> "stream"]

AfterCharge == [chargeText |-> "serve", chargeLink |-> "link", chargeDownload |-> "stream"]

\* increment_access_count, and what the handler does with its outcome.
Charge(r) ==
    LET s == req[r].id
        grant == At(r, "chargeGrant")
    IN
    /\ req[r].stage \in {"chargeText", "chargeLink", "chargeDownload", "chargeGrant"}
    /\ IF ~Chargeable(s)
         THEN Finish(r) /\ UNCHANGED <<sends, access, charged>>
         ELSE /\ sends' = [sends EXCEPT ![s].count = @ + 1, ![s].updated = now]
              /\ charged' = [charged EXCEPT ![s] = @ + 1]
              /\ IF grant
                   THEN Finish(r) /\ access' = [access EXCEPT ![s] = now + AccessTtl]
                   ELSE Reply(r, AfterCharge[req[r].stage], s, now) /\ UNCHANGED access
    /\ UNCHANGED <<now, pending, store, cron, link, revision,
                   used, cap, edited, served, uploads, cut, late>>

\* A send access token is honoured for as long as the row is there.
StartTokenAccess(r, s) ==
    /\ At(r, "idle") /\ now < access[s] /\ sends[s] # None
    /\ Reply(r, "serveFree", s, sends[s].updated)
    /\ UNCHANGED <<now, tables, store, cron, tokens, revision, ghosts>>

StartTokenAccessFile(r, s) ==
    /\ At(r, "idle") /\ now < access[s] /\ sends[s] # None
    /\ Reply(r, "link", s, sends[s].updated)
    /\ UNCHANGED <<now, tables, store, cron, tokens, revision, ghosts>>

-----------------------------------------------------------------------------
\* The last step of a handler: bump users.updated_at, then answer

Touch(r) == revision' = req[r].at /\ Finish(r)

Answer(r) ==
    /\ req[r].stage \in {"touch", "serveFree"}
    /\ Touch(r)
    /\ UNCHANGED <<now, tables, store, cron, tokens, ghosts>>

IssueLink(r) ==
    /\ At(r, "link")
    /\ Touch(r)
    /\ link' = [link EXCEPT ![req[r].id] = now + LinkTtl]
    /\ UNCHANGED <<now, tables, store, cron, access, ghosts>>

\* The text of the send, or the bytes of its file if they are in the store.
ServeContent(r) ==
    LET s == req[r].id IN
    /\ req[r].stage \in {"serve", "stream"}
    /\ Touch(r)
    /\ served' = IF At(r, "stream") /\ s \notin store THEN served
                 ELSE [served EXCEPT ![s] = @ + 1]
    /\ UNCHANGED <<now, tables, store, cron, tokens,
                   used, cap, edited, charged, uploads, cut, late>>

\* Stages between a change of the store and the query that goes with it.
HalfDone == {"insert", "streamed", "stored", "deleteRow"}

\* A query or store call fails, the rate limiter refuses, or the client goes
\* away: the handler ends there and nothing it did is undone.
Abort(r) ==
    /\ ~At(r, "idle")
    /\ cut' = IF req[r].stage \in HalfDone THEN cut \cup {req[r].id} ELSE cut
    /\ Finish(r)
    /\ UNCHANGED <<now, tables, store, cron, tokens, revision,
                   used, cap, edited, charged, served, uploads, late>>

-----------------------------------------------------------------------------
\* The scheduled purge: stale pending sends first, then expired sends

\* Mutated form of Stale: the age of the pending row is not compared.
StaleAtAnyAge(s, t) == pending[s] # None /\ pending[s].created <= t

Stale(s, t) == pending[s] # None /\ pending[s].created + StaleAfter < t
Expired(s, t) == sends[s] # None /\ sends[s].del <= t

CronAt(stage, found, t) ==
    cron' = [stage |-> stage, found |-> found, keys |-> found, at |-> t, failed |-> FALSE]
CronIdle == CronAt("idle", {}, 0)

CronFindStale ==
    /\ cron.stage = "idle"
    /\ CronAt("staleObjects", {s \in Send : Stale(s, now)}, now)
    /\ UNCHANGED <<now, tables, store, req, tokens, revision, ghosts>>

CronDeleteObject(s) ==
    /\ cron.stage \in {"staleObjects", "expiredObjects"} /\ s \in cron.keys
    /\ store' = store \ {s}
    /\ cron' = [cron EXCEPT !.keys = @ \ {s}]
    /\ UNCHANGED <<now, tables, req, tokens, revision, ghosts>>

\* Mutated form of CronDeleteStale: the cutoff is not kept for the second query.
CronDeleteStaleNoCutoff ==
    /\ cron.stage = "staleObjects" /\ cron.keys = {}
    /\ pending' = [s \in Send |-> IF Stale(s, 0) THEN None ELSE pending[s]]
    /\ CronAt("expired", {}, 0)
    /\ UNCHANGED <<now, sends, store, req, tokens, revision, ghosts>>

CronDeleteStale ==
    /\ cron.stage = "staleObjects" /\ cron.keys = {}
    /\ pending' = [s \in Send |-> IF Stale(s, cron.at) THEN None ELSE pending[s]]
    /\ CronAt("expired", {}, 0)
    /\ UNCHANGED <<now, sends, store, req, tokens, revision, ghosts>>

\* Mutated form of CronFindExpired: the purge returns early when no file expired.
CronFindExpiredFiles ==
    LET files == {s \in Send : Expired(s, now) /\ sends[s].type = "file"} IN
    /\ cron.stage = "expired"
    /\ IF files = {} THEN CronIdle
       ELSE cron' = [stage |-> "expiredObjects", found |-> files, keys |-> files, at |-> now,
                failed |-> FALSE]
    /\ UNCHANGED <<now, tables, store, req, tokens, revision, ghosts>>

CronFindExpired ==
    LET found == {s \in Send : Expired(s, now)}
        files == {s \in found : sends[s].type = "file"}
    IN
    /\ cron.stage = "expired"
    /\ IF found = {} THEN CronIdle
       ELSE cron' = [stage |-> "expiredObjects", found |-> found, keys |-> files, at |-> now,
                failed |-> FALSE]
    /\ UNCHANGED <<now, tables, store, req, tokens, revision, ghosts>>

CronDeleteExpired(s) ==
    /\ cron.stage \in {"expiredObjects", "expiredRows"}
    /\ cron.keys = {} /\ s \in cron.found
    /\ sends' = [sends EXCEPT ![s] = None]
    /\ cron' = [cron EXCEPT !.stage = "expiredRows", !.found = @ \ {s}]
    /\ UNCHANGED <<now, pending, store, req, tokens, revision, ghosts>>

CronTouch ==
    /\ cron.stage = "expiredRows" /\ cron.found = {}
    /\ revision' = cron.at
    /\ CronIdle
    /\ UNCHANGED <<now, tables, store, req, tokens, ghosts>>

\* A failed query or store call ends its purge; the next purge still runs.
CronFail ==
    LET next == IF cron.stage = "staleObjects" THEN "expired" ELSE "idle" IN
    /\ cron.stage # "idle"
    /\ cron' = [stage |-> next, found |-> {}, keys |-> {}, at |-> 0, failed |-> TRUE]
    /\ cut' = IF next = "idle" THEN cut \cup cron.found ELSE cut
    /\ UNCHANGED <<now, tables, store, req, tokens, revision,
                   used, cap, edited, charged, served, uploads, late>>

Cron ==
    \/ CronFindStale \/ CronDeleteStale \/ CronFindExpired \/ CronTouch \/ CronFail
    \/ \E s \in Send : CronDeleteObject(s) \/ CronDeleteExpired(s)

-----------------------------------------------------------------------------
Tick ==
    /\ now < MaxTime
    /\ now' = now + 1
    /\ UNCHANGED <<tables, store, req, cron, tokens, revision, ghosts>>

Begin(r, s) ==
    \/ \E p \in Payload :
          \/ "createText" \in Route /\ CreateTextSend(r, s, p)
          \/ "createFileV2" \in Route /\ CreateFileSendV2(r, s, p)
          \/ "createFileLegacy" \in Route /\ CreateFileSendLegacy(r, s, p)
          \/ "update" \in Route /\ StartUpdate(r, s, p)
    \/ "streamUpload" \in Route /\ StartStreamUpload(r, s)
    \/ "directUpload" \in Route /\ StartDirectUpload(r, s)
    \/ "removePassword" \in Route /\ StartRemovePassword(r, s)
    \/ "delete" \in Route /\ StartDelete(r, s)
    \/ \E guess \in Password \cup {None} :
          \/ "access" \in Route /\ StartAccess(r, s, guess)
          \/ "accessFile" \in Route /\ StartAccessFile(r, s, guess)
          \/ "grant" \in Route /\ StartGrant(r, s, guess)
    \/ "download" \in Route /\ StartDownload(r, s)
    \/ "tokenAccess" \in Route /\ StartTokenAccess(r, s)
    \/ "tokenAccessFile" \in Route /\ StartTokenAccessFile(r, s)

Continue(r) ==
    \/ InsertLegacy(r) \/ PutObject(r) \/ DiscardMismatch(r) \/ Finalize(r)
    \/ WriteRow(r) \/ DeleteObject(r) \/ DeleteRow(r)
    \/ BumpRow(r) \/ Charge(r)
    \/ Answer(r) \/ IssueLink(r) \/ ServeContent(r) \/ Abort(r)

Next ==
    \/ \E r \in Req : (\E s \in Send : Begin(r, s)) \/ Continue(r)
    \/ "purge" \in Route /\ Cron
    \/ Tick

Spec == Init /\ [][Next]_vars

-----------------------------------------------------------------------------
\* Properties

\* access_count never passes the maximum of a send whose owner has not changed
\* it, however many accesses were validated against the same stale row: the
\* comparison that counts is the one in increment_access_count.
CountWithinCap ==
    \A s \in Send \ edited :
        sends[s] # None /\ cap[s] # None => sends[s].count <= cap[s]

\* Why CountWithinCap holds: every copy of the row of such a send, in either
\* table or in the slot of a handler, still has the maximum it was created with,
\* and a row yet to be inserted has no access counted.
Unborn == {"insert", "putStream", "putBytes", "streamed", "stored"}
Undrawn(s) == sends[s] = None /\ pending[s] = None /\ \A r \in Req : req[r].id # s
RowCapped(s) ==
    sends[s] # None => /\ sends[s].max = cap[s]
                       /\ (cap[s] # None => sends[s].count <= cap[s])
PendingCapped(s) == pending[s] # None => pending[s].max = cap[s] /\ pending[s].count = 0
SlotCapped(s, r) ==
    req[r].id = s /\ req[r].stage \in SnapshotStage =>
        /\ req[r].row.max = cap[s]
        /\ (req[r].stage \in Unborn => req[r].row.count = 0)
CapInv ==
    \A s \in Send :
        /\ s \notin used => Undrawn(s)
        /\ s \notin edited =>
              RowCapped(s) /\ PendingCapped(s) /\ (\A r \in Req : SlotCapped(s, r))

\* Why a row always enters sends with a count of zero: no access is counted on
\* a row before it is there, and a legacy upload in flight has its id to itself.
BirthInv ==
    \A s \in Send :
        /\ pending[s] # None => pending[s].count = 0
        /\ \A r \in Req : req[r].id = s =>
              /\ req[r].stage \in Unborn => req[r].row.count = 0
              /\ At(r, "insert") => /\ sends[s] = None /\ pending[s] = None
                                   /\ \A q \in Req \ {r} : req[q].id # s

\* Text and file contents that left the server against no send access token
\* were all charged first, one charge each: the accesses still being answered
\* included, so that two concurrent accesses never share a charge.
Answering(s) == {r \in Req : req[r].id = s /\ req[r].stage \in {"serve", "stream"}}
ServedWasPaid ==
    \A s \in Send : served[s] + Cardinality(Answering(s)) <= charged[s]

\* The access counter keeps the promises of SendBudget: a charge compares and
\* adds in one step, full-row writes of stale snapshots never move the count,
\* and nothing is released that was not charged.
Counts == [s \in Send |-> IF sends[s] = None THEN None ELSE sends[s].count]
Maxima == [s \in Send |-> IF sends[s] = None THEN None ELSE sends[s].max]
Budget == INSTANCE SendBudget WITH count <- Counts, max <- Maxima
ImplementsBudget == Budget!BudgetSpec

\* A finalized file send has its file, unless a deletion is between its store
\* call and its query, a handler or the purge was cut short on it, two uploads
\* were begun for it, or it was promoted when it was already due for the purge.
HasFile(s) == sends[s] = None \/ sends[s].type = "text" \/ s \in store
BeingDeleted(s) ==
    \/ \E r \in Req : req[r].id = s /\ At(r, "deleteRow")
    \/ s \in cron.found \ cron.keys /\ cron.stage \in {"expiredObjects", "expiredRows"}
FilesPresent ==
    \A s \in Send : HasFile(s) \/ BeingDeleted(s)
                    \/ s \in cut \cup late \/ uploads[s] = 2

\* A stored file belongs to a row, or to a handler about to insert one, unless a
\* handler was cut short on that send or two uploads were begun for it.
NoOrphanFiles ==
    \A s \in store :
        \/ sends[s] # None \/ pending[s] # None
        \/ \E r \in Req : req[r].id = s /\ req[r].stage \in {"insert", "streamed", "stored"}
        \/ s \in cut \/ uploads[s] = 2

\* The access count of a file send moves on its downloads only.
FileCountMovesOnDownload ==
    [][\A r \in Req :
         Charge(r) /\ sends'[req[r].id] # sends[req[r].id]
             /\ sends[req[r].id].type = "file"
         => At(r, "chargeDownload")]_vars

\* A stale pending send leaves sends_pending, by the purge or by its upload.
StalePendingLeaves ==
    \A s \in Send : (pending[s] # None /\ Stale(s, now)) ~> pending[s] = None

\* A send past its deletion date is purged, unless its owner moves the date.
ExpiredSendLeaves == \A s \in Send : Expired(s, now) ~> ~Expired(s, now)

\* The scheduler runs the purge again and again, and its queries and store
\* calls stop failing at some point.
CronFairness ==
    /\ WF_vars(CronFindStale) /\ WF_vars(CronDeleteStale)
    /\ WF_vars(CronFindExpired) /\ WF_vars(CronTouch)
    /\ \A s \in Send : WF_vars(CronDeleteObject(s)) /\ WF_vars(CronDeleteExpired(s))
    /\ <>[][~CronFail]_vars

FairSpec == Spec /\ CronFairness
=============================================================================
