---------------------------- MODULE Attachments ----------------------------
(***************************************************************************)
(* The attachments of ciphers: a row and an object in a store that no      *)
(* transaction joins to the database.  An upload in two phases puts a row  *)
(* into attachments_pending, then the object, then moves the row; the      *)
(* legacy upload inserts the row first.  Removals delete objects first.    *)
(* The scheduled purges run between the queries of all of them.            *)
(*                                                                         *)
(* Every file has size one.  Ciphers and memberships are there at the      *)
(* start and only go; trash and restore of a cipher, which module Vault    *)
(* has query by query, are one step here.  The store is R2: with KV the    *)
(* size of a stream is not looked at and "cleanUp" does not happen.        *)
(* Encrypted names and keys and the notifications are left out.            *)
(***************************************************************************)
EXTENDS Integers, FiniteSets

CONSTANTS
    User, Cipher, Att,
    Req,          \* slots for handlers in flight
    Workloads,    \* who may ask for what, see Workload
    Creator,      \* Creator[c]: column user_id of the cipher
    Shared,       \* the ciphers of the organization
    FirstMember,  \* FirstMember[u]: what the organization lets u do with them at the start
    Limit,        \* ATTACHMENT_TOTAL_LIMIT_KB, in files
    None

AttachRoutes ==
    {"create", "upload", "stream", "legacy", "get", "download", "delete", "hardDelete",
     "purgeVault", "deleteAccount", "trash", "leave", "purge", "crash"}

\* The routes in use, the callers and the ciphers they name, how many ids are drawn
\* and how many handlers are in flight at most.
Workload == [route : SUBSET AttachRoutes, users : SUBSET User, ciphers : SUBSET Cipher,
             ids : Nat, most : Nat]

ASSUME AttachFinite == IsFiniteSet(Att) /\ IsFiniteSet(Req) /\ Req # {}
ASSUME AttachWorkloads == Workloads \subseteq Workload
ASSUME CipherAssumption == Creator \in [Cipher -> User] /\ Shared \subseteq Cipher
ASSUME MemberAssumption == FirstMember \in [User -> {"no", "read", "write"}]
ASSUME LimitAssumption == Limit \in Nat
ASSUME AttachNoneAssumption == None \notin User \cup Cipher \cup Att \cup AttachRoutes

VARIABLES
    load,      \* the workload, chosen at the start
    account,   \* table users
    member,    \* member[u]: what u may do with the ciphers of the organization
    trash,     \* trash[c]: deleted_at of the cipher, or "gone"
    row,       \* table attachments
    pend,      \* pend[a]: row of attachments_pending, "old" once past its retention
    home,      \* home[a]: column cipher_id of either row, None until the id is drawn
    object,    \* the ids whose object is in the store
    link,      \* pairs <<user, id>> of the signed tokens that have not expired
    req,       \* handlers in flight
    cron,      \* the scheduled purge
    \* history, read by no guard
    could,     \* could[r]: what the caller of r could read and write when it began
    lost,      \* ids whose object may be missing, and
    stray,     \* ids whose object may be left over: see Causes
    untold,    \* users whose attachments changed after their updated_at was last bumped
    excused    \* why someone was not told

attachVars == <<load, account, member, trash, row, pend, home, object, link, req, cron,
                could, lost, stray, untold, excused>>

Stage ==
    {"idle", "access", "cipher", "limits", "insertPending", "insertRow", "pending", "dropPending",
     "put", "cleanUp", "finalize", "attachment", "read", "list", "objects", "deleteRow",
     "deleteCiphers", "deletePersonal", "dropMember", "account", "touch"}

Handler ==
    [stage : Stage, route : AttachRoutes \cup {None}, user : User \cup {None},
     cs : SUBSET Cipher, vet : SUBSET Cipher,      \* the ciphers it names, those not yet vetted
     att : Att \cup {None},
     files : SUBSET Att, left : SUBSET Att]        \* keys it listed, objects not yet deleted

Idle == [stage |-> "idle", route |-> None, user |-> None, cs |-> {}, vet |-> {}, att |-> None,
         files |-> {}, left |-> {}]

CronStage == {"idle", "pendingCount", "pendingDelete", "users", "count", "list", "objects",
              "delete", "touch"}
CronIdle == [stage |-> "idle", files |-> {}, left |-> {}, users |-> {}]

AttachTypeOK ==
    /\ load \in Workloads
    /\ account \subseteq User
    /\ member \in [User -> {"no", "read", "write"}]
    /\ trash \in [Cipher -> {"no", "trash", "old", "gone"}]
    /\ row \subseteq Att
    /\ pend \in [Att -> {"no", "new", "old"}]
    /\ home \in [Att -> Cipher \cup {None}]
    /\ \A a \in Att : a \in row \/ pend[a] # "no" => home[a] # None /\ trash[home[a]] # "gone"
    /\ object \subseteq Att
    /\ link \subseteq User \X Att /\ \A l \in link : home[l[2]] # None
    /\ req \in [Req -> Handler]
    /\ cron \in [stage : CronStage, files : SUBSET Att, left : SUBSET Att, users : SUBSET User]
    /\ could \in [Req -> [read : SUBSET Cipher, write : SUBSET Cipher]]
    /\ lost \subseteq Att /\ stray \subseteq Att
    /\ untold \subseteq User
    /\ excused \subseteq {"died", "cascade", "purge"}

AttachInit ==
    /\ load \in Workloads
    /\ account = User
    /\ member = FirstMember
    /\ trash = [c \in Cipher |-> "no"]
    /\ row = {} /\ object = {} /\ link = {}
    /\ pend = [a \in Att |-> "no"]
    /\ home = [a \in Att |-> None]
    /\ req = [r \in Req |-> Idle]
    /\ cron = CronIdle
    /\ could = [r \in Req |-> [read |-> {}, write |-> {}]]
    /\ lost = {} /\ stray = {} /\ untold = {} /\ excused = {}

-----------------------------------------------------------------------------
\* Access and usage

Personal(u) == {c \in Cipher \ Shared : Creator[c] = u}

CanRead(u, c) ==
    trash[c] # "gone" /\ (IF c \in Shared THEN member[u] # "no" ELSE Creator[c] = u)
\* ensure_cipher_write, ensure_cipher_delete
CanWrite(u, c) ==
    trash[c] # "gone" /\ (IF c \in Shared THEN member[u] = "write" ELSE Creator[c] = u)

\* user_attachment_usage: all that lies on ciphers u created, those of the
\* organization included.
Usage(u) ==
    Cardinality({a \in row : Creator[home[a]] = u})
    + Cardinality({a \in Att : pend[a] # "no" /\ Creator[home[a]] = u})

\* Mutated form of WithinLimit: a total that has reached the limit passes.
WithinLimitInclusive(u) == Usage(u) <= Limit

\* enforce_limits for a file of size one
WithinLimit(u) == Usage(u) + 1 <= Limit

\* What a sync shows u.
View(u) == {a \in row : CanRead(u, home[a])}

Route == load.route
Drawn == {a \in Att : home[a] # None}
Busy == {r \in Req : req[r].stage # "idle"}

At(r, stage) == req[r].stage = stage
Goto(r, h) == req' = [req EXCEPT ![r] = h]
Proceed(r, stage) == Goto(r, [req[r] EXCEPT !.stage = stage])
\* A handler that ends, with an error or without.
Finish(r) == Goto(r, Idle)

people == <<load, account, member>>
tables == <<load, account, member, trash, row, pend, home>>
history == <<could, lost, stray, untold, excused>>
Query == UNCHANGED <<tables, object, link, cron, history>>
Noting == untold' = (untold \cup {u \in User : View(u)' # View(u)}) \cap account

\* The ciphers whose files a handler that has listed them takes away.
Taking(h) ==
    IF h.stage \notin {"objects", "deleteRow", "deleteCiphers", "deletePersonal"} THEN {}
    ELSE IF h.route \in {"purgeVault", "deleteAccount"} THEN Personal(h.user)
    ELSE h.cs
CronTaking == IF cron.stage \in {"objects", "delete"} THEN {c \in Cipher : trash[c] = "old"} ELSE {}
\* What is added to a now, after the files were listed, stays behind.
BeingTaken(a) == home[a] \in CronTaking \cup UNION {Taking(req[r]) : r \in Req}
\* An upload has put the object of a and not yet moved its row.
Awaited(a) == \E r \in Req : At(r, "finalize") /\ req[r].att = a

-----------------------------------------------------------------------------
\* How a request begins

Begin(r, h) ==
    /\ At(r, "idle") /\ Cardinality(Busy) < load.most
    /\ h.route \in Route
    /\ h.user \in load.users
    /\ Goto(r, h)
    /\ could' = [could EXCEPT ![r] = [read |-> {c \in Cipher : CanRead(h.user, c)},
                                     write |-> {c \in Cipher : CanWrite(h.user, c)}]]
    /\ UNCHANGED <<tables, object, link, cron, lost, stray, untold, excused>>

\* A request about the ciphers cs, with none of them vetted, or about all of the
\* caller's, with nothing to vet.
Asking(route, u, cs, a) ==
    [stage |-> "access", route |-> route, user |-> u, cs |-> cs, vet |-> cs, att |-> a,
     files |-> {}, left |-> {}]
Sweeping(route, u) ==
    [stage |-> "list", route |-> route, user |-> u, cs |-> {}, vet |-> {}, att |-> None,
     files |-> {}, left |-> {}]

StartUpload(r, u, c) ==
    \E route \in {"create", "legacy"} :
        u \in account /\ Begin(r, Asking(route, u, {c}, None))

\* The path names a cipher and an attachment, which need not belong together.
StartFile(r, u, c, a) ==
    \E route \in {"upload", "get", "delete"} :
        u \in account /\ home[a] # None /\ Begin(r, Asking(route, u, {c}, a))

\* Mutated form of StartLink: a token is taken for access to the file.
StartLinkTrusted(r, u, a) ==
    \E route \in {"stream", "download"} :
        /\ <<u, a>> \in link
        /\ Begin(r, [Asking(route, u, {home[a]}, a) EXCEPT
                       !.stage = IF route = "stream" THEN "pending" ELSE "attachment", !.vet = {}])

\* With a signed token, which names both, instead of a session.  One kind of
\* token serves uploads and downloads.
StartLink(r, u, a) ==
    \E route \in {"stream", "download"} :
        <<u, a>> \in link /\ Begin(r, Asking(route, u, {home[a]}, a))

\* hard_delete_cipher and hard_delete_ciphers_bulk
StartHardDelete(r, u, cs) ==
    u \in account /\ cs # {} /\ Begin(r, Asking("hardDelete", u, cs, None))

\* purge_vault and delete_account, the password verified.
StartPurge(r, u) ==
    \E route \in {"purgeVault", "deleteAccount"} :
        u \in account /\ Begin(r, Sweeping(route, u))

-----------------------------------------------------------------------------
\* Queries before the writes

\* The access to each cipher named.
Access(r) ==
    LET h == req[r] IN
    /\ At(r, "access")
    /\ \E c \in h.vet :
          IF ~(IF h.route \in {"get", "download"} THEN CanRead(h.user, c) ELSE CanWrite(h.user, c))
          THEN Finish(r)
          ELSE Goto(r, [h EXCEPT !.vet = @ \ {c},
                                 !.stage = IF h.vet # {c} THEN "access"
                                           ELSE IF h.route = "hardDelete" THEN "list" ELSE "cipher"])
    /\ Query

\* fetch_cipher_by_id: a cipher in the trash, or gone, is refused.
FetchCipher(r) ==
    LET h == req[r] IN
    /\ At(r, "cipher")
    /\ IF \E c \in h.cs : trash[c] # "no" THEN Finish(r)
       ELSE Proceed(r, CASE h.route \in {"create", "legacy"} -> "limits"
                         [] h.route \in {"upload", "stream"} -> "pending"
                         [] OTHER -> "attachment")
    /\ Query

\* The limit is that of the creator of ciphers, the caller the one it is checked
\* for.  The id is drawn next, of no query.
Limits(r) ==
    LET h == req[r] IN
    /\ At(r, "limits")
    /\ IF ~WithinLimit(h.user) THEN Finish(r) /\ UNCHANGED home
       ELSE \E a \in Att :
               /\ home[a] = None /\ Cardinality(Drawn) < load.ids
               /\ \E c \in h.cs : home' = [home EXCEPT ![a] = c]
               /\ Goto(r, [h EXCEPT !.att = a,
                              !.stage = IF h.route = "create" THEN "insertPending" ELSE "insertRow"])
    /\ UNCHANGED <<people, trash, row, pend, object, link, cron, history>>

\* Mutated form of FetchPending: the row is not compared with the path.
FetchPendingAny(r) ==
    LET h == req[r] IN
    /\ At(r, "pending")
    /\ IF pend[h.att] = "no" THEN Finish(r)
       ELSE \/ Proceed(r, "put")
            \/ Finish(r)
            \/ h.route = "upload" /\ Proceed(r, "dropPending")
    /\ Query

\* fetch_pending_attachment.  The body has the declared size, or not: then the
\* POST drops the row and the PUT only answers.
FetchPending(r) ==
    LET h == req[r] IN
    /\ At(r, "pending")
    /\ IF pend[h.att] = "no" \/ home[h.att] \notin h.cs THEN Finish(r)
       ELSE \/ Proceed(r, "put")
            \/ Finish(r)
            \/ h.route = "upload" /\ Proceed(r, "dropPending")
    /\ Query

\* fetch_attachment, then the link, the read or the removal.
FetchAttachment(r) ==
    LET h == req[r]
        found == h.att \in row /\ home[h.att] \in h.cs
    IN
    /\ At(r, "attachment")
    /\ CASE ~found -> Finish(r) /\ UNCHANGED link
         [] found /\ h.route = "get" -> link' = link \cup {<<h.user, h.att>>} /\ Finish(r)
         [] found /\ h.route = "download" -> Proceed(r, "read") /\ UNCHANGED link
         [] OTHER -> /\ Goto(r, [h EXCEPT !.stage = "objects", !.files = {h.att}, !.left = {h.att}])
                     /\ UNCHANGED link
    /\ UNCHANGED <<tables, object, cron, history>>

\* The object is streamed, or found missing.
Read(r) == At(r, "read") /\ Finish(r) /\ Query

-----------------------------------------------------------------------------
\* Uploads

\* The INSERT needs the cipher to be there (foreign key).  The answer of
\* create_attachment_v2 carries the token for the upload.
InsertPending(r) ==
    LET h == req[r]
        there == trash[home[h.att]] # "gone"
    IN
    /\ At(r, "insertPending")
    /\ pend' = IF there THEN [pend EXCEPT ![h.att] = "new"] ELSE pend
    /\ link' = IF there THEN link \cup {<<h.user, h.att>>} ELSE link
    /\ Finish(r)
    /\ UNCHANGED <<people, trash, row, home, object, cron, history>>

\* The row of a legacy upload comes before its object.
InsertRow(r) ==
    LET h == req[r] IN
    /\ At(r, "insertRow")
    /\ IF trash[home[h.att]] = "gone" THEN Finish(r) /\ UNCHANGED <<row, stray>>
       ELSE /\ row' = row \cup {h.att}
            /\ stray' = IF BeingTaken(h.att) THEN stray \cup {h.att} ELSE stray
            /\ Proceed(r, "put")
    /\ UNCHANGED <<people, trash, pend, home, object, link, cron, could, lost, excused>>
    /\ Noting

DropPending(r) ==
    /\ At(r, "dropPending")
    /\ pend' = [pend EXCEPT ![req[r].att] = "no"]
    /\ Finish(r)
    /\ UNCHANGED <<people, trash, row, home, object, link, cron, history>>

\* upload_to_storage and put_stream_to_storage; R2 may find that a stream had
\* another size than its Content-Length said.
Put(r) ==
    LET h == req[r] IN
    /\ At(r, "put")
    /\ object' = object \cup {h.att}
    /\ stray' = IF BeingTaken(h.att) \/ (h.route = "legacy" /\ h.att \notin row)
                THEN stray \cup {h.att} ELSE stray
    /\ \/ Proceed(r, IF h.route = "legacy" THEN "touch" ELSE "finalize")
       \/ h.route = "stream" /\ Proceed(r, "cleanUp")
    /\ UNCHANGED <<tables, link, cron, could, lost, untold, excused>>

\* The object goes, even when another upload has put it and moved the row.
CleanUp(r) ==
    LET a == req[r].att IN
    /\ At(r, "cleanUp")
    /\ object' = object \ {a}
    /\ lost' = IF a \in row \/ Awaited(a) THEN lost \cup {a} ELSE lost
    /\ Finish(r)
    /\ UNCHANGED <<tables, link, cron, could, stray, untold, excused>>

\* finalize_pending is one batch: without the cipher (foreign key), or with the
\* row there already (primary key), it fails as a whole.  It does not ask for the
\* pending row.
Finalize(r) ==
    LET a == req[r].att
        gone == trash[home[a]] = "gone"
    IN
    /\ At(r, "finalize")
    /\ IF gone \/ a \in row THEN Finish(r) /\ UNCHANGED <<row, pend>>
       ELSE /\ row' = row \cup {a}
            /\ pend' = [pend EXCEPT ![a] = "no"]
            /\ Proceed(r, "touch")
    /\ stray' = IF gone \/ (a \notin row /\ BeingTaken(a)) THEN stray \cup {a} ELSE stray
    /\ UNCHANGED <<people, trash, home, object, link, cron, could, lost, excused>>
    /\ Noting

-----------------------------------------------------------------------------
\* Removals

\* Mutated form of ListKeys: the filter on personal ciphers in every list.
ListKeysPersonal(r) ==
    LET h == req[r]
        cs == IF h.route = "hardDelete" THEN h.cs \ Shared ELSE Personal(h.user)
        keys == {a \in row : home[a] \in cs}
    IN
    /\ At(r, "list")
    /\ Goto(r, [h EXCEPT !.files = keys, !.left = keys, !.stage = "objects"])
    /\ Query

\* list_attachment_keys_for_cipher_ids_json, list_attachment_keys_for_user: the
\* table attachments only.
ListKeys(r) ==
    LET h == req[r]
        cs == IF h.route = "hardDelete" THEN h.cs ELSE Personal(h.user)
        keys == {a \in row : home[a] \in cs}
    IN
    /\ At(r, "list")
    /\ Goto(r, [h EXCEPT !.files = keys, !.left = keys, !.stage = "objects"])
    /\ Query

\* delete_storage_objects, one key after the other.
RemoveObject(r) ==
    LET h == req[r] IN
    /\ At(r, "objects")
    /\ \E a \in h.left :
          /\ object' = object \ {a}
          /\ lost' = IF Awaited(a) THEN lost \cup {a} ELSE lost
          /\ Goto(r, [h EXCEPT !.left = @ \ {a}])
    /\ UNCHANGED <<tables, link, cron, could, stray, untold, excused>>

\* All keys are gone: a step of the handler without a query.
RemovedObjects(r) ==
    LET h == req[r] IN
    /\ At(r, "objects") /\ h.left = {}
    /\ Proceed(r, CASE h.route = "delete" -> "deleteRow"
                    [] h.route = "hardDelete" -> "deleteCiphers"
                    [] OTHER -> "deletePersonal")
    /\ Query

DeleteRow(r) ==
    /\ At(r, "deleteRow")
    /\ row' = row \ {req[r].att}
    /\ Goto(r, [req[r] EXCEPT !.stage = "touch", !.files = {}])
    /\ UNCHANGED <<people, trash, pend, home, object, link, cron, could, lost, stray, excused>>
    /\ Noting

\* Mutated form of WithoutCiphers: the pending rows stay.
WithoutCiphersPending(cs) ==
    /\ trash' = [c \in Cipher |-> IF c \in cs THEN "gone" ELSE trash[c]]
    /\ row' = {a \in row : home[a] \notin cs}
    /\ UNCHANGED pend

\* The rows of a cipher, pending or not, go with it (ON DELETE CASCADE).
WithoutCiphers(cs) ==
    /\ trash' = [c \in Cipher |-> IF c \in cs THEN "gone" ELSE trash[c]]
    /\ row' = {a \in row : home[a] \notin cs}
    /\ pend' = [a \in Att |-> IF home[a] \in cs THEN "no" ELSE pend[a]]

DeleteCiphers(r) ==
    LET h == req[r] IN
    /\ h.stage \in {"deleteCiphers", "deletePersonal"}
    /\ WithoutCiphers(IF h.route = "hardDelete" THEN h.cs ELSE Personal(h.user))
    /\ Goto(r, [h EXCEPT !.stage = IF h.route = "deleteAccount" THEN "dropMember" ELSE "touch",
                         !.files = {}])
    /\ UNCHANGED <<people, home, object, link, cron, could, lost, stray, excused>>
    /\ Noting

\* delete_account: the grants and the membership.
DropMember(r) ==
    /\ At(r, "dropMember")
    /\ member' = [member EXCEPT ![req[r].user] = "no"]
    /\ Proceed(r, "account")
    /\ UNCHANGED <<load, account, trash, row, pend, home, object, link, cron, history>>

\* The ciphers u created go with the account, those of the organization too: their
\* objects were not listed and nobody is told.
DeleteAccount(r) ==
    LET u == req[r].user
        cs == {c \in Cipher : Creator[c] = u}
    IN
    /\ At(r, "account")
    /\ account' = account \ {u}
    /\ WithoutCiphers(cs)
    /\ stray' = stray \cup {a \in Att : home[a] \in cs}
    /\ excused' = excused \cup {"cascade"}
    /\ untold' = untold \ {u}
    /\ Finish(r)
    /\ UNCHANGED <<load, member, home, object, link, cron, could, lost>>

\* Mutated form of Told: only the caller is told.
ToldCaller(h) == {h.user}

\* touch_attachment_scope_updated_at, touch_access_scopes: the caller for ciphers of
\* an account, the members for those of the organization.
Told(h) ==
    (IF h.route = "purgeVault" \/ h.cs \ Shared # {} THEN {h.user} ELSE {})
    \cup (IF h.cs \cap Shared # {} THEN {u \in User : member[u] # "no"} ELSE {})

Touch(r) ==
    /\ At(r, "touch")
    /\ untold' = untold \ Told(req[r])
    /\ Finish(r)
    /\ UNCHANGED <<tables, object, link, cron, could, lost, stray, excused>>

\* A handler dies: what it has removed, or put, stays so.
Die(r) ==
    LET h == req[r] IN
    /\ "crash" \in Route
    /\ ~At(r, "idle")
    /\ Finish(r)
    /\ lost' = CASE Taking(h) # {} -> lost \cup h.files
                 [] h.route = "legacy" /\ h.stage = "put" -> lost \cup {h.att}
                 [] OTHER -> lost
    /\ stray' = IF h.stage \in {"finalize", "cleanUp"} THEN stray \cup {h.att} ELSE stray
    /\ excused' = IF h.stage \in {"touch", "dropMember", "account"} \/ (h.route = "legacy" /\ h.stage = "put")
                  THEN excused \cup {"died"} ELSE excused
    /\ UNCHANGED <<tables, object, link, cron, could, untold>>

-----------------------------------------------------------------------------
\* Other changes

\* Into the trash and back, with the access to the cipher.  A file the purge has
\* listed is lost to a cipher that is restored.
Trash(c) ==
    /\ "trash" \in Route
    /\ \E u \in account : CanWrite(u, c)
    /\ \/ trash[c] = "no" /\ trash' = [trash EXCEPT ![c] = "trash"] /\ UNCHANGED lost
       \/ /\ trash[c] # "no"
          /\ trash' = [trash EXCEPT ![c] = "no"]
          /\ lost' = lost \cup {a \in cron.files : home[a] = c}
    /\ UNCHANGED <<people, row, pend, home, object, link, req, cron, could, stray, untold, excused>>

\* A member is removed, which tells it, or demoted to read only.
Leave(u) ==
    /\ "leave" \in Route
    /\ \/ /\ member[u] # "no"
          /\ member' = [member EXCEPT ![u] = "no"]
          /\ untold' = untold \ {u}
       \/ /\ member[u] = "write"
          /\ member' = [member EXCEPT ![u] = "read"]
          /\ UNCHANGED untold
    /\ UNCHANGED <<load, account, trash, row, pend, home, object, link, req, cron, could, lost, stray,
                   excused>>

Expire(l) ==
    /\ link' = link \ {l}
    /\ UNCHANGED <<tables, object, req, cron, history>>

\* created_at or deleted_at passes the cutoff of the next purge.
AgePending(a) ==
    /\ "purge" \in Route /\ cron = CronIdle
    /\ pend[a] = "new"
    /\ pend' = [pend EXCEPT ![a] = "old"]
    /\ UNCHANGED <<people, trash, row, home, object, link, req, cron, history>>
AgeTrash(c) ==
    /\ "purge" \in Route /\ cron = CronIdle
    /\ trash[c] = "trash"
    /\ trash' = [trash EXCEPT ![c] = "old"]
    /\ UNCHANGED <<people, row, pend, home, object, link, req, cron, history>>

-----------------------------------------------------------------------------
\* The scheduled purge: pending attachments, then the trash

OldPending == {a \in Att : pend[a] = "old"}
OldTrash == {c \in Cipher : trash[c] = "old"}

CronGo(stage) == cron' = [cron EXCEPT !.stage = stage]

CronStart ==
    /\ "purge" \in Route
    /\ cron.stage = "idle"
    /\ CronGo("pendingCount")
    /\ UNCHANGED <<tables, object, link, req, history>>

\* Mutated form of CronPendingCount: one row is not worth a purge.
CronPendingCountMany ==
    /\ cron.stage = "pendingCount"
    /\ CronGo(IF Cardinality(OldPending) <= 1 THEN "users" ELSE "pendingDelete")
    /\ UNCHANGED <<tables, object, link, req, history>>

CronPendingCount ==
    /\ cron.stage = "pendingCount"
    /\ CronGo(IF OldPending = {} THEN "users" ELSE "pendingDelete")
    /\ UNCHANGED <<tables, object, link, req, history>>

\* Rows only: an object that an upload has left is not looked for.
CronPendingDelete ==
    /\ cron.stage = "pendingDelete"
    /\ pend' = [a \in Att |-> IF pend[a] = "old" THEN "no" ELSE pend[a]]
    /\ CronGo("users")
    /\ UNCHANGED <<people, trash, row, home, object, link, req, history>>

CronUsers ==
    /\ cron.stage = "users"
    /\ cron' = [cron EXCEPT !.stage = "count", !.users = {Creator[c] : c \in OldTrash}]
    /\ UNCHANGED <<tables, object, link, req, history>>

CronCount ==
    /\ cron.stage = "count"
    /\ IF OldTrash = {} THEN cron' = CronIdle ELSE CronGo("list")
    /\ UNCHANGED <<tables, object, link, req, history>>

\* Mutated form of CronList: the files of all that lies in the trash.
CronListTrash ==
    LET keys == {a \in row : trash[home[a]] # "no"} IN
    /\ cron.stage = "list"
    /\ cron' = [cron EXCEPT !.stage = "objects", !.files = keys, !.left = keys]
    /\ UNCHANGED <<tables, object, link, req, history>>

\* list_attachment_keys_for_soft_deleted_before
CronList ==
    LET keys == {a \in row : home[a] \in OldTrash} IN
    /\ cron.stage = "list"
    /\ cron' = [cron EXCEPT !.stage = "objects", !.files = keys, !.left = keys]
    /\ UNCHANGED <<tables, object, link, req, history>>

CronObject ==
    /\ cron.stage = "objects"
    /\ \E a \in cron.left :
          /\ object' = object \ {a}
          /\ lost' = IF Awaited(a) THEN lost \cup {a} ELSE lost
          /\ cron' = [cron EXCEPT !.left = @ \ {a}]
    /\ UNCHANGED <<tables, link, req, could, stray, untold, excused>>
CronObjects ==
    /\ cron.stage = "objects" /\ cron.left = {}
    /\ CronGo("delete")
    /\ UNCHANGED <<tables, object, link, req, history>>

\* What has been restored meanwhile stays.  Creators are told, other members not.
CronDelete ==
    /\ cron.stage = "delete"
    /\ WithoutCiphers(OldTrash)
    /\ cron' = [cron EXCEPT !.stage = "touch", !.files = {}]
    /\ excused' = IF OldTrash \cap Shared # {} THEN excused \cup {"purge"} ELSE excused
    /\ UNCHANGED <<people, home, object, link, req, could, lost, stray>>
    /\ Noting

CronTouch ==
    /\ cron.stage = "touch"
    /\ \E u \in cron.users :
          /\ untold' = untold \ {u}
          /\ cron' = IF cron.users = {u} THEN CronIdle ELSE [cron EXCEPT !.users = @ \ {u}]
    /\ UNCHANGED <<tables, object, link, req, could, lost, stray, excused>>

\* A run that fails leaves the rest to the next one.
CronDie ==
    /\ "crash" \in Route
    /\ cron.stage \in {"list", "objects", "delete", "touch"}
    /\ cron' = CronIdle
    /\ lost' = lost \cup cron.files
    /\ excused' = IF cron.stage = "touch" THEN excused \cup {"died"} ELSE excused
    /\ UNCHANGED <<tables, object, link, req, could, stray, untold>>

-----------------------------------------------------------------------------
Requests(r) ==
    \/ \E u \in User, c \in load.ciphers : StartUpload(r, u, c) \/ \E a \in Att : StartFile(r, u, c, a)
    \/ \E u \in User, a \in Att : StartLink(r, u, a)
    \/ \E u \in User, cs \in SUBSET load.ciphers : StartHardDelete(r, u, cs)
    \/ \E u \in User : StartPurge(r, u)

Handling(r) ==
    \/ Access(r) \/ FetchCipher(r) \/ Limits(r) \/ FetchPending(r) \/ FetchAttachment(r) \/ Read(r)
    \/ InsertPending(r) \/ InsertRow(r) \/ DropPending(r) \/ Put(r) \/ CleanUp(r) \/ Finalize(r)
    \/ ListKeys(r) \/ RemoveObject(r) \/ RemovedObjects(r) \/ DeleteRow(r) \/ DeleteCiphers(r)
    \/ DropMember(r) \/ DeleteAccount(r) \/ Touch(r)

Purging ==
    \/ CronStart \/ CronPendingCount \/ CronPendingDelete \/ CronUsers \/ CronCount \/ CronList
    \/ CronObject \/ CronObjects \/ CronDelete \/ CronTouch

Passing ==
    \/ \E c \in Cipher : Trash(c) \/ AgeTrash(c)
    \/ \E u \in User : Leave(u)
    \/ \E l \in link : Expire(l)
    \/ \E a \in Att : AgePending(a)

AttachNext ==
    \/ \E r \in Req : Requests(r) \/ Handling(r) \/ Die(r)
    \/ Purging \/ CronDie
    \/ Passing

AttachSpec == AttachInit /\ [][AttachNext]_attachVars

\* The schedule keeps firing and no query fails in every run of the purge; time passes.
\* No request, handler or death is owed.
AttachFair ==
    /\ AttachSpec
    /\ WF_attachVars(Purging)
    /\ SF_attachVars(CronPendingDelete) /\ SF_attachVars(CronList) /\ SF_attachVars(CronObject)
    /\ SF_attachVars(CronObjects) /\ SF_attachVars(CronDelete)
    /\ \A a \in Att : SF_attachVars(AgePending(a))

-----------------------------------------------------------------------------
\* Properties

\* The files of u, and those a handler in flight is about to add.
Held(u) ==
    {a \in Att :
       /\ home[a] \in Personal(u)
       /\ \/ a \in row \/ pend[a] # "no"
          \/ \E r \in Req : /\ req[r].stage \in {"insertPending", "insertRow", "put", "finalize"}
                            /\ req[r].att = a}

\* Limit is checked before the insertion and nothing holds it: with n handlers the files
\* on the ciphers of an account may be n - 1 more than it, and never more than that,
\* whatever uploads are repeated, dropped, purged or finalised late.
QuotaOvershoot == \A u \in User : Cardinality(Held(u)) <= Limit + Cardinality(Req) - 1

\* A row of attachments has its object, unless a legacy upload or a removal of it is under
\* way, or one of the causes noted in lost came about: a death half way, the purge of a
\* cipher restored meanwhile, an object removed under a second upload of the same id.
FilesPresent ==
    \A a \in row \ lost :
        \/ a \in object
        \/ a \in cron.files
        \/ \E r \in Req : \/ a \in req[r].files
                          \/ At(r, "put") /\ req[r].route = "legacy" /\ req[r].att = a

\* An object has its row, unless an upload has just put it, or one of the causes noted in
\* stray came about: a death half way, a file added to what a removal had listed, a cipher
\* that went during the upload, the cascade from an account to ciphers of the organization.
NoOrphanObjects ==
    \A a \in object \ (row \cup stray) :
        \E r \in Req : req[r].stage \in {"finalize", "cleanUp"} /\ req[r].att = a

\* Files come and go by handlers whose caller could write their cipher, and are streamed to
\* callers who could read it, at the time the handler began: a path that names another
\* cipher than that of the file, or a link that outlives the access, opens nothing.
ByRights ==
    [][\A r \in Req, a \in Att :
         req'[r] # req[r] /\ req'[r].stage # req[r].stage =>
         /\ req[r].stage \in {"insertPending", "insertRow", "dropPending", "finalize", "deleteRow", "deleteCiphers"}
            /\ ((a \in row) # (a \in row') \/ pend'[a] # pend[a])
            => home[a] \in could[r].write
         /\ At(r, "read") /\ a = req[r].att => home[a] \in could[r].read]_attachVars

\* Whose list of attachments changed is told, unless the handler died before, or they saw
\* a file go with the account or the purge of another's cipher.
ToldOfFiles ==
    excused = {} /\ cron.stage # "touch"
    /\ (\A r \in Req : req[r].stage \notin {"touch", "dropMember", "account"}
                       /\ ~(At(r, "put") /\ req[r].route = "legacy"))
    => untold = {}

\* An upload announced and never made gives its share of the limit back, and what has been
\* long in the trash goes or is restored, although any run of the purge may fail.
Reclaimed ==
    /\ \A a \in Att : pend[a] # "no" ~> pend[a] = "no"
    /\ \A c \in Cipher : trash[c] = "old" ~> trash[c] # "old"
=============================================================================
