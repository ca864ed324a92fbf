---------------------------- MODULE KeyRotation ----------------------------
(***************************************************************************)
(* The rotation of the user key of one account.  All that is encrypted     *)
(* under it is rewritten in batches, folders first, then personal ciphers, *)
(* attachments and sends, and the new key is stored at the end, by a       *)
(* handler that holds nothing while others of the same account create,     *)
(* change, share and delete what it rewrites, or change the password.      *)
(*                                                                         *)
(* Of an item the model keeps the key it is encrypted under.  A session    *)
(* encrypts under the key it got when it logged in.  The client of a       *)
(* rotation sends all it has seen, attachments included: the code leaves   *)
(* that field optional.  Ciphers are the account's own; once shared with   *)
(* an organization they are under the organization's key.                  *)
(***************************************************************************)
EXTENDS Naturals, FiniteSets

CONSTANTS
    Folder, Cipher, Send, File,   \* ids; File has those of attachments
    Home,        \* Home[f]: the cipher of an attachment
    Key,         \* user keys
    FirstKey,
    Session, Req,
    RotWorkloads,  \* what is there at the start, the routes, items and keys in use
    BatchSize,   \* IMPORT_BATCH_SIZE, 0 for one batch
    None

RotRoutes == {"rotate", "password", "create", "announce", "update", "removePassword", "share", "delete",
              "crash"}
Item == Folder \cup Cipher \cup Send \cup File
OrgKey == "org"

RotWorkload == [first : SUBSET Item, route : SUBSET RotRoutes, items : SUBSET Item, keys : SUBSET Key]

ASSUME KindsAssumption ==
    /\ Folder \cap Cipher = {} /\ Folder \cap Send = {} /\ Folder \cap File = {}
    /\ Cipher \cap Send = {} /\ Cipher \cap File = {} /\ Send \cap File = {}
ASSUME HomeAssumption == Home \in [File -> Cipher]
\* An attachment that is there at the start has its cipher.
ASSUME RotWorkloadAssumption ==
    /\ RotWorkloads \subseteq RotWorkload
    /\ \A l \in RotWorkloads : \A f \in File \cap l.first : Home[f] \in l.first
ASSUME RotKeyAssumption == FirstKey \in Key /\ OrgKey \notin Key /\ None \notin Key \cup Item \cup {OrgKey}
ASSUME BatchAssumption == BatchSize \in Nat

VARIABLES
    load,     \* the workload, chosen at the start
    key,      \* users.key
    live,     \* the sessions under the current security_stamp
    holds,    \* holds[s]: the user key of the client of session s
    under,    \* under[i]: the key of item i, None without a row
    pend,     \* pend[i]: that of a row of attachments_pending or sends_pending
    shared,   \* ciphers with an organization_id
    filed,    \* filed[c]: column folder_id
    req,      \* handlers in flight
    knows,    \* the handlers whose request proves the current password
    \* history, read by no guard
    drawn,    \* keys and ids used so far
    stale,    \* handlers that began before the last change of users.key, or write back a key
              \* they read that was not it
    mixed     \* items that may be under another key than theirs for a known cause: a write
              \* that a rotation did not see or met, one of a handler begun before the last
              \* change of the key, a rotation cut short

rotVars == <<load, key, live, holds, under, pend, shared, filed, req, knows, drawn, stale, mixed>>

RotStage == {"idle", "user", "validate", "folders", "ciphers", "files", "checkSends", "sends",
             "replace", "read", "write", "announce"}
RotHandler ==
    [stage : RotStage, route : RotRoutes \cup {None},
     key : Key \cup {OrgKey, None},   \* the one it encrypts under: for a rotation, the new one
     ids : SUBSET Item,               \* the items named
     left : SUBSET Item,              \* those of them a rotation has still to rewrite
     filed : [Cipher -> Folder \cup {None}],
     org : BOOLEAN]                   \* an update: the organization_id it read
Unfiled == [c \in Cipher |-> None]
RotIdle == [stage |-> "idle", route |-> None, key |-> None, ids |-> {}, left |-> {},
            filed |-> Unfiled, org |-> FALSE]

RotTypeOK ==
    /\ load \in RotWorkloads
    /\ key \in Key
    /\ live \subseteq Session
    /\ holds \in [Session -> Key]
    /\ under \in [Item -> Key \cup {OrgKey, None}]
    /\ pend \in [File \cup Send -> Key \cup {OrgKey, None}]
    /\ shared \subseteq Cipher
    /\ filed \in [Cipher -> Folder \cup {None}]
    /\ \A c \in Cipher : filed[c] # None => under[c] # None /\ under[filed[c]] # None
    /\ \A f \in File : under[f] # None \/ pend[f] # None => under[Home[f]] # None
    /\ req \in [Req -> RotHandler]
    /\ knows \subseteq Req /\ stale \subseteq Req
    /\ drawn \subseteq Item \cup Key
    /\ mixed \subseteq Item

RotInit ==
    /\ load \in RotWorkloads
    /\ key = FirstKey
    /\ live = Session
    /\ holds = [s \in Session |-> FirstKey]
    /\ under = [i \in Item |-> IF i \in load.first THEN FirstKey ELSE None]
    /\ pend = [i \in File \cup Send |-> None]
    /\ shared = {}
    /\ filed \in [Cipher -> Folder \cup {None}]
    /\ \A c \in Cipher : filed[c] # None => c \in load.first /\ filed[c] \in load.first
    /\ req = [r \in Req |-> RotIdle]
    /\ knows = {} /\ stale = {} /\ mixed = {}
    /\ drawn = load.first \cup {FirstKey}

-----------------------------------------------------------------------------
There == {i \in Item : under[i] # None}
Personal == {c \in Cipher : under[c] # None /\ c \notin shared}
OfRotation == ((Folder \cup Send) \cap There) \cup Personal
              \cup {f \in File : under[f] # None /\ Home[f] \in Personal}

At(r, stage) == req[r].stage = stage
Goto(r, h) == req' = [req EXCEPT ![r] = h]
Proceed(r, stage) == Goto(r, [req[r] EXCEPT !.stage = stage])
Finish(r) == Goto(r, RotIdle) /\ knows' = knows \ {r} /\ stale' = stale \ {r}

account == <<load, key, live, holds>>
tables == <<under, pend, shared, filed>>
RotQuery == UNCHANGED <<account, tables, drawn, mixed>>

\* The key item i has to be under.  What becomes of the attachments of a cipher that
\* is shared is not looked at.
Proper(i) == IF i \in shared THEN OrgKey ELSE key
FilesOf(cs) == {f \in File : Home[f] \in cs}

\* What a rotation in flight will not rewrite any more and will not miss.  Attachments
\* it never misses.
Settled(h) ==
    CASE h.stage \in {"user", "validate"} /\ h.route = "rotate" -> File \ h.left
      [] h.stage \in {"folders", "ciphers", "files", "checkSends"} -> (Item \ h.left) \ Send
      [] h.stage \in {"sends", "replace"} -> Item \ h.left
      [] OTHER -> {}
SettledByOther(r) == UNION {Settled(req[q]) : q \in Req \ {r}}

\* r writes item i under k, which is then its key or not.
Mixing(r, i, k) ==
    mixed' = (IF k \in {key, OrgKey} THEN mixed \ {i} ELSE mixed)
             \cup {j \in {i} : k # OrgKey /\ (j \in SettledByOther(r) \/ (r \in stale /\ k # key))}

\* The items a rotation has rewritten.
Written(h) ==
    CASE h.stage = "folders" -> (h.ids \cap Folder) \ h.left
      [] h.stage = "ciphers" -> (h.ids \cap (Folder \cup Cipher)) \ h.left
      [] h.stage \in {"files", "checkSends"} -> (h.ids \ Send) \ h.left
      [] h.stage \in {"sends", "replace"} -> h.ids \ h.left
      [] OTHER -> {}

-----------------------------------------------------------------------------
\* How a request begins: with a token of the current stamp

Begin(r, s, h) ==
    /\ At(r, "idle") /\ s \in live
    /\ h.route \in load.route
    /\ Goto(r, h)
    /\ knows' = knows \cup {r}
    /\ UNCHANGED <<account, tables, stale, mixed>>

\* The client draws a key and encrypts all it sees.
StartRotation(r, s, k) ==
    /\ k \in load.keys \ drawn
    /\ Begin(r, s, [RotIdle EXCEPT !.stage = "user", !.route = "rotate", !.key = k,
                      !.ids = OfRotation, !.left = OfRotation, !.filed = filed])
    /\ drawn' = drawn \cup {k}

\* post_password and post_kdf: the key the client holds, wrapped anew.
StartPassword(r, s) ==
    /\ Begin(r, s, [RotIdle EXCEPT !.stage = "user", !.route = "password", !.key = holds[s]])
    /\ UNCHANGED drawn

\* A cipher is put in folder f, which was there when that was last looked at.
StartCreate(r, s, i, f) ==
    /\ i \in load.items \ drawn
    /\ i \in File => under[Home[i]] # None /\ Home[i] \notin shared
    /\ f # None => i \in Cipher /\ under[f] # None
    /\ \/ i \notin File
          /\ Begin(r, s, [RotIdle EXCEPT !.stage = "write", !.route = "create", !.key = holds[s], !.ids = {i},
                            !.filed = IF f = None THEN @ ELSE [@ EXCEPT ![i] = f]])
       \/ i \in File \cup Send
          /\ Begin(r, s, [RotIdle EXCEPT !.stage = "announce", !.route = "announce", !.key = holds[s],
                            !.ids = {i}])
    /\ drawn' = drawn \cup {i}

StartChange(r, s, i) ==
    /\ i \in load.items \ File
    /\ \E route \in {"update", "removePassword", "share", "delete"} :
          /\ route = "share" => i \in Cipher
          /\ route = "removePassword" => i \in Send
          /\ Begin(r, s, [RotIdle EXCEPT !.stage = "read", !.route = route, !.ids = {i},
                            !.key = IF route = "share" THEN OrgKey ELSE holds[s]])
    /\ UNCHANGED drawn

-----------------------------------------------------------------------------
\* The rotation

\* The user row is read and the password verified.
ReadUser(r) ==
    /\ At(r, "user")
    /\ IF r \notin knows THEN Finish(r)
       ELSE /\ Proceed(r, IF req[r].route = "rotate" THEN "validate" ELSE "write")
            /\ UNCHANGED <<knows, stale>>
    /\ RotQuery

\* Mutated form of Validate: the numbers are compared and not the ids.
ValidateCounts(r) ==
    LET h == req[r] IN
    /\ At(r, "validate")
    /\ IF Cardinality(Personal) = Cardinality(h.ids \cap Cipher)
          /\ Cardinality(Folder \cap There) = Cardinality(h.ids \cap Folder)
       THEN Proceed(r, "folders") /\ UNCHANGED <<knows, stale>>
       ELSE Finish(r)
    /\ RotQuery

\* One batch: two counts and two EXCEPTs.
Validate(r) ==
    LET h == req[r] IN
    /\ At(r, "validate")
    /\ IF /\ Cardinality(Personal) = Cardinality(h.ids \cap Cipher)
          /\ Cardinality(Folder \cap There) = Cardinality(h.ids \cap Folder)
          /\ Personal \cup (Folder \cap There) \subseteq h.ids
       THEN Proceed(r, "folders") /\ UNCHANGED <<knows, stale>>
       ELSE Finish(r)
    /\ RotQuery

KindOf(stage) ==
    CASE stage = "folders" -> Folder [] stage = "ciphers" -> Cipher
      [] stage = "files" -> File [] stage = "sends" -> Send

\* execute_in_batches
Chunk(todo) ==
    IF BatchSize = 0 THEN {todo}
    ELSE {b \in SUBSET todo : Cardinality(b) = BatchSize
                              \/ (b = todo /\ Cardinality(b) < BatchSize)}

\* One batch of updates by id and user_id: a row that is gone stays gone, a cipher
\* that has been shared is rewritten all the same.  A folder that is gone fails the
\* batch (foreign key), and the rotation ends there.
Rewrite(r) ==
    LET h == req[r]
        todo == h.left \cap KindOf(h.stage)
    IN
    /\ h.stage \in {"folders", "ciphers", "files", "sends"}
    /\ todo # {}
    /\ \E b \in Chunk(todo) :
          IF \E c \in b \cap Cipher \cap There : h.filed[c] # None /\ under[h.filed[c]] = None
          THEN /\ Finish(r) /\ UNCHANGED <<under, filed>>
               /\ mixed' = mixed \cup Written(h)
          ELSE /\ under' = [i \in Item |-> IF i \in b \cap There THEN h.key ELSE under[i]]
               /\ filed' = [c \in Cipher |-> IF c \in b \cap There THEN h.filed[c] ELSE filed[c]]
               /\ Goto(r, [h EXCEPT !.left = @ \ b])
               /\ mixed' = (mixed \ b) \cup (b \cap (SettledByOther(r) \cup shared \cup FilesOf(shared)))
               /\ UNCHANGED <<knows, stale>>
    /\ UNCHANGED <<account, pend, shared, drawn>>

\* Nothing of a kind is left: a step without a query.
Rewritten(r) ==
    LET h == req[r] IN
    /\ h.stage \in {"folders", "ciphers", "files", "sends"}
    /\ h.left \cap KindOf(h.stage) = {}
    /\ Proceed(r, CASE h.stage = "folders" -> "ciphers" [] h.stage = "ciphers" -> "files"
                    [] h.stage = "files" -> "checkSends" [] h.stage = "sends" -> "replace")
    /\ UNCHANGED <<knows, stale>> /\ RotQuery

\* Mutated form of CheckSends: sends the request lacks are not missed.
CheckSendsNone(r) ==
    /\ At(r, "checkSends")
    /\ Proceed(r, "sends") /\ UNCHANGED <<mixed, knows, stale>>
    /\ UNCHANGED <<account, tables, drawn>>

\* rotate_user_sends compares only now: a refusal leaves what is rewritten rewritten.
CheckSends(r) ==
    LET h == req[r] IN
    /\ At(r, "checkSends")
    /\ IF Send \cap There = h.ids \cap Send
       THEN Proceed(r, "sends") /\ UNCHANGED <<mixed, knows, stale>>
       ELSE Finish(r) /\ mixed' = mixed \cup Written(h)
    /\ UNCHANGED <<account, tables, drawn>>

\* A new hash, key and stamp: no session or request of before knows them, unless the
\* password stays the same.
NewAccount(r, k) ==
    /\ key' = k
    /\ live' = {}
    /\ knows' \in {{}, knows \ {r}}
    /\ stale' = IF k = key THEN stale \ {r} ELSE {q \in Req \ {r} : ~At(q, "idle")}
    /\ Goto(r, RotIdle)
    /\ UNCHANGED <<load, holds, tables, drawn>>

Replace(r) == At(r, "replace") /\ NewAccount(r, req[r].key) /\ UNCHANGED mixed

\* It wraps the key its client holds, whatever key the account has by now: after a
\* rotation in between nothing can be read any more.
ChangePassword(r) ==
    /\ At(r, "write") /\ req[r].route = "password"
    /\ NewAccount(r, req[r].key)
    /\ mixed' = IF req[r].key # key /\ r \in stale THEN mixed \cup There ELSE mixed

-----------------------------------------------------------------------------
\* Other handlers of the account

\* fetch of the row that is to change.  remove_password writes back what it read, the
\* key included; an update of a cipher writes its organization_id back.  A cipher that is
\* the organization's may be shared with it again.
ReadItem(r) ==
    LET h == req[r] IN
    /\ At(r, "read") /\ h.route # "delete"
    /\ \E i \in h.ids :
          IF under[i] = None THEN Finish(r)
          ELSE /\ Goto(r, [h EXCEPT !.stage = "write", !.org = i \in shared,
                             !.key = IF h.route = "removePassword" THEN under[i]
                                     ELSE IF i \in shared THEN OrgKey ELSE h.key])
               /\ stale' = IF h.route = "removePassword" /\ under[i] # key THEN stale \cup {r} ELSE stale
               /\ UNCHANGED knows
    /\ RotQuery

\* INSERT, refused for a folder that is gone (foreign key).
Insert(r) ==
    LET h == req[r] IN
    /\ At(r, "write") /\ h.route = "create"
    /\ \E i \in h.ids :
          IF i \in Cipher /\ h.filed[i] # None /\ under[h.filed[i]] = None
          THEN UNCHANGED <<under, filed, mixed>>
          ELSE /\ under' = [under EXCEPT ![i] = h.key]
               /\ filed' = [c \in Cipher |-> IF c = i THEN h.filed[c] ELSE filed[c]]
               /\ Mixing(r, i, h.key)
    /\ Finish(r)
    /\ UNCHANGED <<account, pend, shared, drawn>>

\* UPDATE by id, of what was read before.
Update(r) ==
    LET h == req[r] IN
    /\ At(r, "write") /\ h.route \in {"update", "removePassword", "share"}
    /\ \E i \in h.ids :
          IF under[i] = None THEN UNCHANGED <<under, shared, filed, mixed>>
          ELSE /\ under' = [under EXCEPT ![i] = h.key]
               /\ shared' = IF i \notin Cipher THEN shared
                            ELSE IF h.route = "share" \/ h.org THEN shared \cup {i} ELSE shared \ {i}
               /\ filed' = [c \in Cipher |-> IF c = i /\ (h.route = "share" \/ h.org) THEN None ELSE filed[c]]
               /\ IF h.route = "share" \/ h.org THEN mixed' = (mixed \ {i}) \cup FilesOf({i})
                  ELSE Mixing(r, i, h.key)
    /\ Finish(r)
    /\ UNCHANGED <<account, pend, drawn>>

\* Mutated form of Delete: a cipher keeps a folder that is gone.
DeleteKeepFiled(r) ==
    LET gone == req[r].ids \cup FilesOf(req[r].ids) IN
    /\ At(r, "read") /\ req[r].route = "delete"
    /\ under' = [i \in Item |-> IF i \in gone THEN None ELSE under[i]]
    /\ pend' = [i \in File \cup Send |-> IF i \in FilesOf(gone) THEN None ELSE pend[i]]
    /\ shared' = shared \ gone
    /\ Finish(r)
    /\ UNCHANGED <<account, filed, drawn, mixed>>

\* DELETE, with the rows that hang on it.
Delete(r) ==
    LET gone == req[r].ids \cup FilesOf(req[r].ids) IN
    /\ At(r, "read") /\ req[r].route = "delete"
    /\ under' = [i \in Item |-> IF i \in gone THEN None ELSE under[i]]
    /\ pend' = [i \in File \cup Send |-> IF i \in FilesOf(gone) THEN None ELSE pend[i]]
    /\ filed' = [c \in Cipher |-> IF c \in gone \/ filed[c] \in gone THEN None ELSE filed[c]]
    /\ shared' = shared \ gone
    /\ Finish(r)
    /\ UNCHANGED <<account, drawn, mixed>>

\* An upload is announced under the key of the session, and its row moved to the
\* table the rotation looks at some time later, by any request that has the bytes.
Announce(r) ==
    LET h == req[r] IN
    /\ At(r, "announce")
    /\ \E i \in h.ids :
          pend' = IF i \in File /\ under[Home[i]] = None THEN pend ELSE [pend EXCEPT ![i] = h.key]
    /\ Finish(r)
    /\ UNCHANGED <<account, under, shared, filed, drawn, mixed>>

FinalizePending(i) ==
    /\ pend[i] # None
    /\ under' = [under EXCEPT ![i] = pend[i]]
    /\ pend' = [pend EXCEPT ![i] = None]
    /\ mixed' = IF pend[i] # key \/ i \in FilesOf(shared) \cup UNION {Settled(req[q]) : q \in Req}
                THEN mixed \cup {i} ELSE mixed
    /\ UNCHANGED <<account, shared, filed, req, knows, drawn, stale>>

Login(s) ==
    /\ s \notin live
    /\ live' = live \cup {s}
    /\ holds' = [holds EXCEPT ![s] = key]
    /\ UNCHANGED <<load, key, tables, req, knows, drawn, stale, mixed>>

\* A handler dies, or one of its queries fails.
Die(r) ==
    /\ "crash" \in load.route
    /\ ~At(r, "idle")
    /\ Finish(r)
    /\ mixed' = mixed \cup Written(req[r])
    /\ UNCHANGED <<account, tables, drawn>>

-----------------------------------------------------------------------------
Rotating(r) == ReadUser(r) \/ Validate(r) \/ Rewrite(r) \/ Rewritten(r) \/ CheckSends(r) \/ Replace(r)
Changing(r) == ReadItem(r) \/ Insert(r) \/ Update(r) \/ Delete(r) \/ Announce(r) \/ ChangePassword(r)

Asked(r, s) ==
    \/ \E k \in Key : StartRotation(r, s, k)
    \/ StartPassword(r, s)
    \/ \E i \in Item : StartChange(r, s, i) \/ \E f \in Folder \cup {None} : StartCreate(r, s, i, f)

RotNext ==
    \/ \E r \in Req : Rotating(r) \/ Changing(r) \/ Die(r) \/ \E s \in Session : Asked(r, s)
    \/ \E i \in File \cup Send : FinalizePending(i)
    \/ \E s \in Session : Login(s)

RotSpec == RotInit /\ [][RotNext]_rotVars

-----------------------------------------------------------------------------
\* Properties

\* Every item is under the key of the account, or of its organization once shared, or has
\* just been rewritten by a rotation that is still to store its key.  The exceptions are
\* those of mixed; an item a client created between its sync and the check of the
\* rotation, a folder renamed or a send edited before its batch is none of them.
OneKey ==
    \A i \in There \ mixed :
        \/ under[i] = Proper(i)
        \/ \E r \in Req : i \in Written(req[r]) /\ under[i] = req[r].key
=============================================================================
