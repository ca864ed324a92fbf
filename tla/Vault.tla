------------------------------- MODULE Vault -------------------------------
(***************************************************************************)
(* The ciphers of the accounts and of one organization: who may change     *)
(* them, the collections they are placed in, the folders they lie in, the  *)
(* trash and its purge.  A handler reads its access to each cipher it      *)
(* names, one query per cipher, and writes afterwards by id.               *)
(*                                                                         *)
(* All members are confirmed.  Memberships and grants are given at the     *)
(* start and only taken away here: module OrgMembership has the rest.  The *)
(* encrypted data, favorite, archived_at, attachments and notifications    *)
(* are left out.  reject_stale_revision, which may refuse an update or a share *)
(* before its first write, is left out too: a refused request is one that  *)
(* was not made.                                                           *)
(***************************************************************************)
EXTENDS Naturals, FiniteSets

CONSTANTS
    User, Cipher, Collection, Folder,
    Req,          \* slots for handlers in flight
    VaultWorkload,  \* what is asked for, by the name of the workload
    FirstMember,  \* the memberships at the start
    FolderOwner,  \* FolderOwner[f]: the account whose client drew the id f
    None          \* SQL NULL, no row, or a field absent from the request

VaultRoutes ==
    {"create", "import", "update", "share", "collections", "bulkCollections", "partial",
     "softDelete", "restore", "archive", "unarchive", "hardDelete", "move", "purgeVault",
     "createFolder", "deleteFolder", "deleteAccount", "deleteMember", "deleteCollection",
     "purge", "crash"}

Member == [admin : BOOLEAN, all : BOOLEAN]
Grant == User \X Collection \X {"readOnly", "write"}

\* The routes in use, and whether handlers crash; how many of them may be in flight, and
\* how many ciphers are made; the sets of ciphers, and of collections, a request may name,
\* and the folders; what the table of grants may be at the start.
ASSUME VaultWorkloadAssumption ==
    \A l \in DOMAIN VaultWorkload :
        LET w == VaultWorkload[l] IN
        /\ w.route \subseteq VaultRoutes /\ {w.most, w.ciphers} \subseteq Nat
        /\ w.batch \subseteq SUBSET Cipher /\ w.cols \subseteq SUBSET Collection
        /\ w.folder \subseteq Folder
        /\ w.grants \subseteq SUBSET Grant
ASSUME FirstAssumption == FirstMember \in [User -> Member \cup {None}]
ASSUME FolderAssumption == FolderOwner \in [Folder -> User]
ASSUME VaultFinite == IsFiniteSet(Req)

VARIABLES
    load,        \* the workload, chosen at the start
    account,     \* table users
    member,      \* member[u]: users_organizations, or None
    grant,       \* table users_collections
    collection,  \* table collections
    folder,      \* table folders
    cipher,      \* cipher[c]: table ciphers, or None
    placed,      \* pairs <<c, col>> of ciphers_collections
    req,         \* handlers in flight
    cron,        \* the purge of the trash
    \* history, read by no guard
    drawn,       \* cipher and folder ids used so far
    seen,        \* seen[r]: what the caller of r could do at some time since r began
    untold,      \* users whose view changed after their updated_at was last bumped
    excused,     \* why someone was not told: how a handler ended after a write of its own,
                 \* the cascade from an account, the purge
    reverted     \* ciphers written back as personal after they were the organization's

tables == <<account, member, grant, collection, folder, cipher, placed>>
vaultVars == <<load, account, member, grant, collection, folder, cipher, placed, req, cron,
               drawn, seen, untold, excused, reverted>>

\* trash is "old" once deleted_at is before the cutoff of the purge.
Row == [creator : User, org : BOOLEAN, folder : Folder \cup {None},
        trash : {"no", "trash", "old"}]
ASSUME VaultNoneAssumption == None \notin User \cup Cipher \cup Folder \cup Member \cup Row
ASSUME VaultAskAssumption == \A cols \in SUBSET Collection : cols # None

Stage ==
    {"idle", "access", "fetch", "vetBulk", "vetAssignment", "vetManage", "vetFolder", "insertFolder",
     "insert", "place", "bump", "writeRow", "write", "refetch", "dropPlaced", "deleteRows",
     "deletePersonal", "accountGrants", "accountMember", "dropFolders", "account",
     "memberGrants", "memberRow", "colPlaced", "colGrants", "colRow", "touch"}

\* What a handler carries from one query to the next.
Handler ==
    [stage : Stage, route : VaultRoutes \cup {None}, user : User \cup {None},
     ids : SUBSET Cipher, todo : SUBSET Cipher,      \* all it names, those still to come
     c : Cipher \cup {None},                         \* the one it is at
     org : BOOLEAN, folder : Folder \cup {None},     \* what it is to write there
     ask : (SUBSET Collection) \cup {None}, remove : BOOLEAN,
     cols : SUBSET Collection,                       \* the collections it is to place c in
     scopes : SUBSET {"personal", "org"},            \* whom it is to tell
     other : User \cup {None}, wrote : BOOLEAN]

Idle == [stage |-> "idle", route |-> None, user |-> None, ids |-> {}, todo |-> {}, c |-> None,
         org |-> FALSE, folder |-> None, ask |-> None, remove |-> FALSE, cols |-> {},
         scopes |-> {}, other |-> None, wrote |-> FALSE]

CronIdle == [stage |-> "idle", ids |-> {}, users |-> {}]
Unseen == [edit |-> {}, admin |-> FALSE]

VaultTypeOK ==
    /\ load \in DOMAIN VaultWorkload
    /\ account \subseteq User
    /\ member \in [User -> Member \cup {None}]
    /\ grant \subseteq Grant
    /\ collection \subseteq Collection
    /\ folder \subseteq Folder
    /\ cipher \in [Cipher -> Row \cup {None}]
    /\ placed \subseteq {c \in Cipher : cipher[c] # None} \X collection
    /\ req \in [Req -> Handler]
    /\ cron \in [stage : {"idle", "count", "delete", "touch"}, ids : SUBSET Cipher,
                 users : SUBSET User]
    /\ drawn \subseteq Cipher \cup Folder
    /\ seen \in [Req -> [edit : SUBSET Cipher, admin : BOOLEAN]]
    /\ untold \subseteq User
    /\ excused \subseteq {"error", "crash", "cascade", "purge"}
    /\ reverted \subseteq Cipher

VaultInit ==
    /\ load \in DOMAIN VaultWorkload
    /\ account = User
    /\ member = FirstMember
    /\ grant \in VaultWorkload[load].grants
    /\ collection = Collection
    /\ folder = {}
    /\ cipher = [c \in Cipher |-> None]
    /\ placed = {}
    /\ req = [r \in Req |-> Idle]
    /\ cron = CronIdle
    /\ drawn = {}
    /\ seen = [r \in Req |-> Unseen]
    /\ untold = {}
    /\ excused = {}
    /\ reverted = {}

-----------------------------------------------------------------------------
\* Access

Members == {u \in User : member[u] # None}
Admin(u) == member[u] # None /\ member[u].admin
Strong(u) == member[u] # None /\ (member[u].admin \/ member[u].all)
ColsOf(c) == {col \in Collection : <<c, col>> \in placed}

\* How the collections of c are granted to u.
Granted(u, c) == {g \in {"readOnly", "write"} : \E col \in ColsOf(c) : <<u, col, g>> \in grant}

\* get_cipher_access_view returns a row.
Reads(u, c) ==
    /\ cipher[c] # None
    /\ IF cipher[c].org THEN Strong(u) \/ (member[u] # None /\ Granted(u, c) # {})
       ELSE cipher[c].creator = u

\* Mutated form of ReadOnly: the flag of the grants is not looked at.
ReadOnlyNever(u, c) == ~Strong(u) /\ Granted(u, c) = {}

\* The least restrictive of the grants counts; with none, read-only.
ReadOnly(u, c) == ~Strong(u) /\ "write" \notin Granted(u, c)

\* ensure_cipher_write and ensure_cipher_delete
CanEdit(u, c) == Reads(u, c) /\ (cipher[c].org => ~ReadOnly(u, c))

\* ensure_org_cipher_write_access: all collections named, or none to administer.
WriteAccess(u, cols) ==
    /\ member[u] # None
    /\ Strong(u) \/ (cols # {} /\ \A col \in cols : <<u, col, "write">> \in grant)

\* What a sync shows u.
View(u) ==
    [c \in {d \in Cipher : Reads(u, d)} |-> <<cipher[c], ColsOf(c), CanEdit(u, c)>>]

At(r, stage) == req[r].stage = stage
Goto(r, h) == req' = [req EXCEPT ![r] = h]
Proceed(r, stage) == req' = [req EXCEPT ![r].stage = stage]
Wrote(r, stage) == req' = [req EXCEPT ![r].stage = stage, ![r].wrote = TRUE]
Leave(r, how) ==
    /\ req' = [req EXCEPT ![r] = Idle]
    /\ excused' = IF req[r].wrote THEN excused \cup {how} ELSE excused
GiveUp(r) == Leave(r, "error")
Finish(r) == req' = [req EXCEPT ![r] = Idle] /\ UNCHANGED excused
Go(r, stage) == Proceed(r, stage) /\ UNCHANGED excused

\* A read of the tables; and writes to one or two of them, after which those who
\* see something else than before, or a row written again, are to be told.
Query == UNCHANGED <<tables, drawn, untold, cron>>
Noting(cs) ==
    untold' = untold \cup {u \in User : View(u)' # View(u) \/ \E c \in cs : Reads(u, c)'}
OnlyCiphers(cs) == UNCHANGED <<account, member, grant, collection, folder, cron>> /\ Noting(cs)

\* Mutated form of WithoutCiphers: the placements do not go with the ciphers.
WithoutCiphersOnly(cs) ==
    /\ cipher' = [c \in Cipher |-> IF c \in cs THEN None ELSE cipher[c]]
    /\ UNCHANGED placed

\* Rows of ciphers, and their placements with them.
WithoutCiphers(cs) ==
    /\ cipher' = [c \in Cipher |-> IF c \in cs THEN None ELSE cipher[c]]
    /\ placed' = {p \in placed : p[1] \notin cs}
\* ON DELETE SET NULL
Unfiled(c, fs) == IF cipher[c] # None /\ cipher[c].folder \in fs
                  THEN [cipher[c] EXCEPT !.folder = None] ELSE cipher[c]
WithoutFolders(fs) ==
    /\ folder' = folder \ fs
    /\ cipher' = [c \in Cipher |-> Unfiled(c, fs)]
Personal(u) == {c \in Cipher : cipher[c] # None /\ cipher[c].creator = u /\ ~cipher[c].org}
WithoutGrants(u) == grant' = {g \in grant : g[1] # u}

-----------------------------------------------------------------------------
\* How a request begins: the slot is idle, and Claims has just found the account

Asked == VaultWorkload[load]
InFlight == {r \in Req : ~At(r, "idle")}

Start(r, route, u, h) ==
    /\ route \in Asked.route
    /\ Goto(r, [h EXCEPT !.route = route, !.user = u])
    /\ Query /\ UNCHANGED excused

\* Ids are random: new ones are fresh, and a request names ciphers that exist or did.
BeingMade == UNION {req[r].ids : r \in {s \in Req : req[s].route \in {"create", "import"}}}
Named(cs) == cs # {} /\ cs \subseteq drawn

\* create_cipher and create_cipher_simple of one cipher, import_data of several
\* with the folder they lie in.
StartCreate(r, u, cs, org, cols, f) ==
    LET h == [Idle EXCEPT !.ids = cs, !.todo = cs, !.org = org, !.cols = cols, !.folder = f,
                          !.scopes = IF org THEN {"org"} ELSE {"personal"}]
    IN
    /\ Cardinality(cs \cup BeingMade \cup (drawn \cap Cipher)) <= Asked.ciphers
    /\ cs # {} /\ cs \cap (drawn \cup BeingMade) = {} /\ (org => f = None) /\ (~org => cols = {})
    /\ \/ /\ Cardinality(cs) = 1
          /\ Start(r, "create", u, [h EXCEPT !.stage = IF org THEN "vetAssignment"
                                       ELSE IF f # None THEN "vetFolder" ELSE "insert"])
       \/ /\ f # None => FolderOwner[f] = u
          /\ Start(r, "import", u,
                [h EXCEPT !.scopes = @ \cup {"personal"},
                          !.stage = IF f # None /\ f \notin folder THEN "insertFolder"
                                    ELSE "vetAssignment"])

\* The routes that name ciphers to be changed, one or several.
StartChange(r, route, u, cs, f) ==
    /\ Named(cs)
    /\ route \in {"hardDelete", "softDelete", "restore", "archive", "unarchive", "partial", "move"}
    /\ route = "partial" => Cardinality(cs) = 1
    /\ route \notin {"partial", "move"} => f = None
    /\ Start(r, route, u, [Idle EXCEPT !.stage = "access", !.ids = cs, !.todo = cs, !.folder = f])

\* organizationId may be absent from an update, and so may collectionIds.
StartUpdate(r, u, c, org, cols, f) ==
    /\ Named({c})
    /\ Start(r, "update", u, [Idle EXCEPT !.stage = "access", !.ids = {c}, !.todo = {c}, !.org = org,
                                       !.ask = cols, !.folder = f])

\* share_cipher of one cipher, share_ciphers of several.
StartShare(r, u, cs, cols) ==
    /\ Named(cs)
    /\ Start(r, "share", u, [Idle EXCEPT !.stage = "access", !.ids = cs, !.todo = cs, !.org = TRUE,
                                         !.ask = cols])

StartCollections(r, u, c, cols) ==
    /\ Named({c})
    /\ Start(r, "collections", u, [Idle EXCEPT !.stage = "access", !.ids = {c}, !.todo = {c},
                                            !.org = TRUE, !.ask = cols])

StartBulkCollections(r, u, cs, cols, remove) ==
    /\ Named(cs)
    /\ Start(r, "bulkCollections", u,
             [Idle EXCEPT !.stage = "vetBulk", !.ids = cs, !.todo = cs, !.org = TRUE,
                          !.ask = cols, !.remove = remove])

-----------------------------------------------------------------------------
\* What is read before the write

\* The access to one cipher; the routes that write once for all go on when they
\* have read them all.
Access(r) ==
    LET h == req[r]
        inTurn == h.route \in {"update", "share", "collections", "bulkCollections"}
        then == IF h.route \in {"update", "share"} THEN "fetch"
                ELSE IF inTurn THEN "vetAssignment"
                ELSE IF h.route = "hardDelete" THEN "dropPlaced"
                ELSE IF h.folder # None THEN "vetFolder" ELSE "write"
        refused(c) ==
            \/ ~CanEdit(h.user, c)
            \/ h.route = "move" /\ cipher[c].org
            \/ h.route = "partial" /\ cipher[c].org /\ h.folder # None
            \/ h.route \in {"collections", "bulkCollections"} /\ ~cipher[c].org
        next(c) == CASE h.route = "collections" -> h.ask
                     [] h.route = "bulkCollections" ->
                           IF h.remove THEN ColsOf(c) \ h.ask ELSE ColsOf(c) \cup h.ask
                     [] OTHER -> {}
    IN
    /\ At(r, "access")
    /\ \E c \in h.todo :
          IF refused(c) THEN GiveUp(r)
          ELSE /\ Goto(r, [h EXCEPT !.todo = @ \ {c}, !.c = c, !.cols = next(c),
                                    !.scopes = @ \cup {IF cipher[c].org THEN "org" ELSE "personal"},
                                    !.stage = IF inTurn \/ h.todo = {c} THEN then ELSE "access"])
               /\ UNCHANGED excused
    /\ Query

AfterVetting(h) == IF h.folder # None THEN "vetFolder"
                   ELSE IF h.route \in {"create", "import"} THEN "insert"
                   ELSE IF h.route = "bulkCollections" THEN "place" ELSE "writeRow"

\* fetch_cipher_by_id: the row may be gone, or another one than was found to be
\* accessible.  Only a share changes organization_id.
Fetch(r) ==
    LET h == req[r]
        row == cipher[h.c]
        org == h.route = "share" \/ row.org
    IN
    /\ At(r, "fetch")
    /\ IF \/ row = None
          \/ h.route = "update" /\ ((h.org /\ ~row.org) \/ (row.org /\ h.folder # None))
         THEN GiveUp(r)
         ELSE /\ Goto(r, [h EXCEPT !.org = org, !.cols = IF h.ask = None THEN {} ELSE h.ask,
                             !.stage = IF h.ask # None THEN "vetAssignment"
                                       ELSE AfterVetting(h)])
              /\ UNCHANGED excused
    /\ Query

\* validate_collections_for_org at the start of bulk_update_cipher_collections.
VetBulk(r) ==
    /\ At(r, "vetBulk")
    /\ IF req[r].ask \subseteq collection THEN Go(r, "vetManage") ELSE GiveUp(r)
    /\ Query

\* validate_cipher_org_assignment, its lookups taken together.
VetAssignment(r) ==
    LET h == req[r] IN
    /\ At(r, "vetAssignment")
    /\ IF ~(IF h.org THEN h.cols \subseteq collection /\ WriteAccess(h.user, h.cols)
            ELSE h.cols = {})
         THEN GiveUp(r)
         ELSE Go(r, IF h.org /\ h.route \in {"update", "share", "collections"} THEN "vetManage"
                    ELSE IF h.route = "import" THEN "insert" ELSE AfterVetting(h))
    /\ Query

\* Mutated form of VetManage: write access is held to be enough.
VetManageAny(r) ==
    LET h == req[r] IN
    /\ At(r, "vetManage")
    /\ IF member[h.user] = None THEN GiveUp(r)
       ELSE Go(r, CASE h.route = "bulkCollections" -> "access"
                    [] h.route = "collections" -> "place"
                    [] OTHER -> AfterVetting(h))
    /\ Query

\* ensure_org_cipher_collection_manage_access: access_all is not enough.
VetManage(r) ==
    LET h == req[r] IN
    /\ At(r, "vetManage")
    /\ IF ~Admin(h.user) THEN GiveUp(r)
       ELSE Go(r, CASE h.route = "bulkCollections" -> "access"
                    [] h.route = "collections" -> "place"
                    [] OTHER -> AfterVetting(h))
    /\ Query

\* Mutated form of VetFolder: the folder is looked up by its id alone.
VetFolderAnyOwner(r) ==
    LET h == req[r] IN
    /\ At(r, "vetFolder")
    /\ IF h.folder \notin folder THEN GiveUp(r)
       ELSE Go(r, CASE h.route = "create" -> "insert"
                    [] h.route = "update" -> "writeRow"
                    [] OTHER -> "write")
    /\ Query

\* validate_folder_for_user
VetFolder(r) ==
    LET h == req[r] IN
    /\ At(r, "vetFolder")
    /\ IF h.folder \notin folder \/ FolderOwner[h.folder] # h.user THEN GiveUp(r)
       ELSE Go(r, CASE h.route = "create" -> "insert"
                    [] h.route = "update" -> "writeRow"
                    [] OTHER -> "write")
    /\ Query

-----------------------------------------------------------------------------
\* Creation and import

\* The folders of an import: a batch of inserts, refused when one is there by now.
InsertFolder(r) ==
    LET f == req[r].folder IN
    /\ At(r, "insertFolder")
    /\ IF f \in folder \/ req[r].user \notin account THEN GiveUp(r) /\ UNCHANGED folder
       ELSE folder' = folder \cup {f} /\ Wrote(r, "vetAssignment") /\ UNCHANGED excused
    /\ drawn' = drawn \cup {f}
    /\ UNCHANGED <<account, member, grant, collection, cipher, placed, cron>> /\ Noting({})

\* The inserts of an import go in batches; the foreign keys may refuse one.
Insert(r) ==
    LET h == req[r] IN
    /\ At(r, "insert")
    /\ \E cs \in SUBSET h.todo :
          /\ cs # {}
          /\ IF h.user \notin account \/ (h.folder # None /\ h.folder \notin folder)
               THEN GiveUp(r) /\ UNCHANGED <<cipher, placed>>
               ELSE /\ cipher' = [c \in Cipher |-> IF c \in cs
                          THEN [creator |-> h.user, org |-> h.org, folder |-> h.folder,
                                trash |-> "no"] ELSE cipher[c]]
                    /\ Goto(r, IF cs # h.todo THEN [h EXCEPT !.todo = @ \ cs, !.wrote = TRUE]
                               ELSE [h EXCEPT !.todo = h.ids, !.wrote = TRUE, !.stage = "place"])
                    /\ UNCHANGED <<placed, excused>>
          /\ drawn' = drawn \cup h.ids
          /\ OnlyCiphers(cs)

\* replace_cipher_collections: one batch, which the foreign keys refuse when the
\* cipher or a collection is gone.
Place(r) ==
    LET h == req[r]
        new == h.route \in {"create", "import"}
    IN
    /\ At(r, "place")
    /\ \E c \in IF new THEN h.todo ELSE {h.c} :
          /\ IF h.cols # {} /\ (cipher[c] = None \/ ~(h.cols \subseteq collection))
               THEN GiveUp(r) /\ UNCHANGED placed
               ELSE /\ placed' = {p \in placed : p[1] # c} \cup ({c} \X h.cols)
                    /\ Goto(r, [h EXCEPT !.todo = @ \ {c}, !.wrote = TRUE,
                                         !.stage = IF new THEN IF h.todo = {c} THEN "touch" ELSE @
                                                   ELSE IF h.route \in {"update", "share"} THEN "touch"
                                                   ELSE "bump"])
                    /\ UNCHANGED excused
          /\ UNCHANGED <<cipher, drawn>> /\ OnlyCiphers({})

-----------------------------------------------------------------------------
\* The other writes, each by id

\* Mutated form of Updated: a cipher that is shared keeps its folder.
UpdatedKeepingFolder(row, h) ==
    [row EXCEPT !.org = h.org, !.folder = IF h.route = "share" THEN @ ELSE h.folder]

\* The row after update_cipher or share_cipher_payload; a share names no folder.
Updated(row, h) == [row EXCEPT !.org = h.org, !.folder = h.folder]

WriteRow(r) ==
    LET h == req[r]
        c == h.c
    IN
    /\ At(r, "writeRow")
    /\ IF cipher[c] # None /\ h.folder # None /\ h.folder \notin folder
         THEN GiveUp(r) /\ UNCHANGED cipher
         ELSE /\ cipher' = [cipher EXCEPT ![c] = IF @ = None THEN None ELSE Updated(@, h)]
              /\ Goto(r, [h EXCEPT !.wrote = TRUE, !.stage = IF h.ask = None THEN "touch" ELSE "place",
                                   !.scopes = {IF h.org THEN "org" ELSE "personal"}])
              /\ UNCHANGED excused
    /\ UNCHANGED <<placed, drawn>> /\ OnlyCiphers({c})

\* One UPDATE for all ciphers named: the trash, archived_at, and the folder.  The
\* handlers of one cipher read it again for their answer.
Marked(row, h) ==
    CASE h.route = "softDelete" -> [row EXCEPT !.trash = "trash"]
      [] h.route = "restore" -> [row EXCEPT !.trash = "no"]
      [] h.route \in {"archive", "unarchive"} -> row
      [] OTHER -> [row EXCEPT !.folder = h.folder]

Write(r) ==
    LET h == req[r]
        cs == {c \in h.ids : cipher[c] # None /\ (h.route = "move" => cipher[c].creator = h.user)}
        single == Cardinality(h.ids) = 1 /\ h.route \in {"restore", "archive", "unarchive"}
    IN
    /\ At(r, "write")
    /\ IF cs # {} /\ h.folder # None /\ h.folder \notin folder
         THEN GiveUp(r) /\ UNCHANGED cipher
         ELSE /\ cipher' = [c \in Cipher |-> IF c \in cs THEN Marked(cipher[c], h) ELSE cipher[c]]
              /\ \E next \in {"touch"} \cup IF single THEN {"refetch"} ELSE {} : Wrote(r, next)
              /\ UNCHANGED excused
    /\ UNCHANGED <<placed, drawn>> /\ OnlyCiphers(cs)

\* The new updated_at of a cipher whose collections were replaced.
Bump(r) ==
    LET h == req[r] IN
    /\ At(r, "bump")
    /\ Go(r, IF h.route = "collections" THEN "refetch"
             ELSE IF h.todo # {} THEN "access" ELSE "touch")
    /\ UNCHANGED <<cipher, placed, drawn>> /\ OnlyCiphers({h.c})

\* fetch_cipher_by_id, for the answer: the row must still be there.
Refetch(r) ==
    /\ At(r, "refetch")
    /\ IF cipher[req[r].c] = None THEN GiveUp(r) ELSE Go(r, "touch")
    /\ Query

\* Hard deletion, in two queries.
DropPlaced(r) ==
    /\ At(r, "dropPlaced")
    /\ placed' = {p \in placed : p[1] \notin req[r].ids}
    /\ Wrote(r, "deleteRows")
    /\ UNCHANGED <<cipher, drawn, excused>> /\ OnlyCiphers({})

DeleteRows(r) ==
    /\ At(r, "deleteRows")
    /\ WithoutCiphers(req[r].ids)
    /\ Proceed(r, "touch")
    /\ UNCHANGED <<drawn, excused>> /\ OnlyCiphers({})

-----------------------------------------------------------------------------
\* Folders, the whole vault, the account

StartCreateFolder(r, u, f) ==
    /\ f \notin drawn /\ FolderOwner[f] = u
    /\ "createFolder" \in Asked.route
    /\ folder' = folder \cup {f} /\ drawn' = drawn \cup {f}
    /\ Goto(r, [Idle EXCEPT !.stage = "touch", !.route = "createFolder", !.user = u,
                            !.scopes = {"personal"}, !.wrote = TRUE])
    /\ UNCHANGED <<account, member, grant, collection, cipher, placed, cron, untold, excused>>

\* delete_folder: its ciphers stay, in no folder.
StartDeleteFolder(r, u, f) ==
    /\ FolderOwner[f] = u
    /\ "deleteFolder" \in Asked.route
    /\ WithoutFolders({f})
    /\ Goto(r, [Idle EXCEPT !.stage = "touch", !.route = "deleteFolder", !.user = u,
                            !.scopes = {"personal"}, !.wrote = TRUE])
    /\ UNCHANGED <<account, member, grant, collection, placed, cron, drawn, excused>>
    /\ Noting({})

StartWhole(r, route, u) ==
    /\ route \in {"purgeVault", "deleteAccount"}
    /\ Start(r, route, u, [Idle EXCEPT !.stage = "deletePersonal", !.scopes = {"personal"}])

DeletePersonal(r) ==
    /\ At(r, "deletePersonal")
    /\ WithoutCiphers(Personal(req[r].user))
    /\ Wrote(r, IF req[r].route = "purgeVault" THEN "dropFolders" ELSE "accountGrants")
    /\ UNCHANGED <<drawn, excused>> /\ OnlyCiphers({})

DropFolders(r) ==
    /\ At(r, "dropFolders")
    /\ WithoutFolders({f \in folder : FolderOwner[f] = req[r].user})
    /\ Proceed(r, IF req[r].route = "purgeVault" THEN "touch" ELSE "account")
    /\ UNCHANGED <<account, member, grant, collection, placed, cron, drawn, excused>> /\ Noting({})

\* The deletes of delete_account, and the first two of delete_org_user.
DropUserGrants(r) ==
    LET h == req[r] IN
    /\ h.stage \in {"accountGrants", "memberGrants"}
    /\ WithoutGrants(IF h.other = None THEN h.user ELSE h.other)
    /\ Wrote(r, IF h.other = None THEN "accountMember" ELSE "memberRow")
    /\ UNCHANGED <<account, member, collection, folder, cipher, placed, cron, drawn, excused>>
    /\ Noting({})

DropMember(r) ==
    LET h == req[r] IN
    /\ h.stage \in {"accountMember", "memberRow"}
    /\ member' = [member EXCEPT ![IF h.other = None THEN h.user ELSE h.other] = None]
    /\ Proceed(r, IF h.other = None THEN "dropFolders" ELSE "touch")
    /\ UNCHANGED <<account, grant, collection, folder, cipher, placed, cron, drawn, excused>>
    /\ Noting({})

\* The foreign keys to users cascade, that of ciphers.user_id included.
DeleteUser(r) ==
    LET u == req[r].user
        made == {c \in Cipher : cipher[c] # None /\ cipher[c].creator = u}
        own == {f \in folder : FolderOwner[f] = u}
    IN
    /\ At(r, "account")
    /\ account' = account \ {u}
    /\ member' = [member EXCEPT ![u] = None]
    /\ WithoutGrants(u)
    /\ folder' = folder \ own
    /\ cipher' = [c \in Cipher |-> IF c \in made THEN None ELSE Unfiled(c, own)]
    /\ placed' = {p \in placed : p[1] \notin made}
    /\ req' = [req EXCEPT ![r] = Idle]
    /\ UNCHANGED <<collection, cron, drawn>> /\ Noting({})
    /\ excused' = IF \E v \in account' : View(v)' # View(v) THEN excused \cup {"cascade"} ELSE excused

-----------------------------------------------------------------------------
\* What administrators take away: delete_org_user, without its checks of the
\* type and of the last owner, and delete_collection

StartDeleteMember(r, a, u) ==
    /\ Admin(a) /\ member[u] # None
    /\ Start(r, "deleteMember", a, [Idle EXCEPT !.stage = "memberGrants", !.other = u,
                                                !.scopes = {"org"}])

StartDeleteCollection(r, a, col) ==
    /\ Admin(a) /\ col \in collection
    /\ Start(r, "deleteCollection", a, [Idle EXCEPT !.stage = "colPlaced", !.cols = {col},
                                                    !.scopes = {"org"}])

DeleteCollection(r) ==
    LET h == req[r] IN
    /\ h.stage \in {"colPlaced", "colGrants", "colRow"}
    /\ placed' = IF h.stage = "colGrants" THEN placed ELSE {p \in placed : p[2] \notin h.cols}
    /\ grant' = IF h.stage = "colPlaced" THEN grant ELSE {g \in grant : g[2] \notin h.cols}
    /\ collection' = IF h.stage = "colRow" THEN collection \ h.cols ELSE collection
    /\ Wrote(r, CASE h.stage = "colPlaced" -> "colGrants"
                  [] h.stage = "colGrants" -> "colRow"
                  [] OTHER -> "touch")
    /\ UNCHANGED <<account, member, folder, cipher, cron, drawn, excused>> /\ Noting({})

-----------------------------------------------------------------------------
\* Mutated form of Told: a shared cipher is announced to the one who shares it.
ToldCaller(h) ==
    IF "personal" \in h.scopes \/ h.route = "share" THEN {h.user}
    ELSE Members \cup ({h.other} \cap User)

\* Whom the next bump of updated_at reaches: the caller, or all members and the
\* one who was removed.
Told(h) == IF "personal" \in h.scopes THEN {h.user} ELSE Members \cup ({h.other} \cap User)

\* touch_access_scopes and touch_cipher_scope_updated_at; share_ciphers then goes
\* on with the next cipher.
Touch(r) ==
    LET h == req[r]
        left == IF "personal" \in h.scopes THEN h.scopes \ {"personal"} ELSE {}
    IN
    /\ At(r, "touch")
    /\ untold' = untold \ Told(h)
    /\ IF left # {} THEN Goto(r, [h EXCEPT !.scopes = left]) /\ UNCHANGED excused
       ELSE IF h.route = "share" /\ h.todo # {} THEN Go(r, "access")
       ELSE Finish(r)
    /\ UNCHANGED <<tables, cron, drawn>>

\* A query fails or the request is cancelled: nothing done before is undone.
Crash(r) ==
    /\ "crash" \in Asked.route /\ ~At(r, "idle")
    /\ Leave(r, "crash")
    /\ Query

-----------------------------------------------------------------------------
\* purge_deleted_ciphers

Old(c) == cipher[c] # None /\ cipher[c].trash = "old"

\* Time passes: what is in the trash gets older than the cutoff of later runs.
Age(c) ==
    /\ cipher[c] # None /\ cipher[c].trash = "trash"
    /\ cipher' = [cipher EXCEPT ![c].trash = "old"]
    /\ UNCHANGED <<account, member, grant, collection, folder, placed, req, drawn, untold, excused>>

\* The users to be told are the creators; the ids stand for the cutoff.
CronFind ==
    LET old == {c \in Cipher : Old(c)} IN
    /\ cron.stage = "idle" /\ old # {}
    /\ cron' = [stage |-> "count", ids |-> old, users |-> {cipher[c].creator : c \in old}]
    /\ UNCHANGED <<tables, req, drawn, untold, excused>>

CronCount ==
    /\ cron.stage = "count"
    /\ cron' = IF \E c \in cron.ids : Old(c) THEN [cron EXCEPT !.stage = "delete"] ELSE CronIdle
    /\ UNCHANGED <<tables, req, drawn, untold, excused>>

TellCreators ==
    /\ cron' = [cron EXCEPT !.stage = "touch", !.ids = {}]
    /\ UNCHANGED <<account, member, grant, collection, folder, req, drawn>> /\ Noting({})
    /\ excused' = IF \E u \in account \ cron.users : View(u)' # View(u) THEN excused \cup {"purge"}
                  ELSE excused

\* Mutated form of CronDelete: the ciphers found are deleted by their ids.
CronDeleteFound ==
    /\ cron.stage = "delete"
    /\ WithoutCiphers(cron.ids)
    /\ TellCreators

\* The condition is evaluated again: what was restored meanwhile stays.
CronDelete ==
    /\ cron.stage = "delete"
    /\ WithoutCiphers({c \in cron.ids : Old(c)})
    /\ TellCreators

CronTouch(u) ==
    /\ cron.stage = "touch" /\ u \in cron.users
    /\ untold' = untold \ {u}
    /\ cron' = IF cron.users = {u} THEN CronIdle ELSE [cron EXCEPT !.users = @ \ {u}]
    /\ UNCHANGED <<tables, req, drawn, excused>>

Cron ==
    \/ CronFind \/ CronCount \/ CronDelete \/ \E u \in User : CronTouch(u)
    \/ \E c \in Cipher : Age(c) /\ c \notin cron.ids /\ UNCHANGED cron

-----------------------------------------------------------------------------
\* What a caller may do by the rules of the organization, for the history.
MayEdit(u, c) ==
    /\ cipher[c] # None
    /\ \/ ~cipher[c].org /\ cipher[c].creator = u
       \/ cipher[c].org /\ Strong(u)
       \/ /\ cipher[c].org /\ member[u] # None
          /\ \E col \in Collection : <<c, col>> \in placed /\ <<u, col, "write">> \in grant

Seeing ==
    seen' = [r \in Req |->
        IF req'[r].stage = "idle" THEN Unseen
        ELSE [edit |-> seen[r].edit \cup
                  {c \in req'[r].ids : \E u \in User :
                      u = req'[r].user /\ (MayEdit(u, c) \/ MayEdit(u, c)')},
              admin |-> seen[r].admin \/ \E u \in User : u = req'[r].user /\ Admin(u)]]

Reverting ==
    reverted' = reverted \cup {c \in Cipher :
        cipher[c] # None /\ cipher[c].org /\ cipher'[c] # None /\ ~cipher'[c].org}

Begin(r, u) ==
    /\ At(r, "idle") /\ u \in account /\ Cardinality(InFlight) < Asked.most
    /\ \/ \E cs \in Asked.batch, org \in BOOLEAN, cols \in Asked.cols, f \in Asked.folder \cup {None} :
             StartCreate(r, u, cs, org, cols, f)
       \/ \E cs \in Asked.batch, f \in Asked.folder \cup {None}, route \in Asked.route : StartChange(r, route, u, cs, f)
       \/ \E c \in Cipher, org \in BOOLEAN, cols \in Asked.cols \cup {None}, f \in Asked.folder \cup {None} :
             StartUpdate(r, u, c, org, cols, f)
       \/ \E cs \in Asked.batch, cols \in Asked.cols :
             \/ StartShare(r, u, cs, cols)
             \/ \E remove \in BOOLEAN : StartBulkCollections(r, u, cs, cols, remove)
       \/ \E c \in Cipher, cols \in Asked.cols : StartCollections(r, u, c, cols)
       \/ \E f \in Asked.folder : StartCreateFolder(r, u, f) \/ StartDeleteFolder(r, u, f)
       \/ \E route \in Asked.route : StartWhole(r, route, u)
       \/ \E v \in User : StartDeleteMember(r, u, v)
       \/ \E col \in Collection : StartDeleteCollection(r, u, col)

Continue(r) ==
    \/ Access(r) \/ Fetch(r) \/ VetBulk(r) \/ VetAssignment(r) \/ VetManage(r) \/ VetFolder(r)
    \/ InsertFolder(r) \/ Insert(r) \/ Place(r) \/ WriteRow(r) \/ Write(r) \/ Bump(r) \/ Refetch(r)
    \/ DropPlaced(r) \/ DeleteRows(r) \/ DeletePersonal(r) \/ DropFolders(r)
    \/ DropUserGrants(r) \/ DropMember(r) \/ DeleteUser(r) \/ DeleteCollection(r)
    \/ Touch(r) \/ Crash(r)

VaultNext ==
    /\ \/ \E r \in Req : (\E u \in User : Begin(r, u)) \/ Continue(r)
       \/ "purge" \in Asked.route /\ Cron
    /\ Seeing /\ Reverting /\ UNCHANGED load

VaultSpec == VaultInit /\ [][VaultNext]_vaultVars

-----------------------------------------------------------------------------
\* Properties

\* What is promised of one handler at a time only.
OneAtATime == Asked.most = 1

\* A cipher lies in a folder that there is, whatever is deleted or imported while a
\* handler goes on with a folder it has vetted, and of the account that made it,
\* unless an update has written back a row it read before the cipher was shared.
FolderOfCreator ==
    \A c \in Cipher : cipher[c] # None /\ cipher[c].folder # None =>
        /\ cipher[c].folder \in folder
        /\ c \in reverted \/ FolderOwner[cipher[c].folder] = cipher[c].creator

\* A request changes or deletes no cipher that its caller could not edit at some
\* moment of the request, however its reads and writes are interleaved.
WrittenByWriters ==
    [][\A r \in Req, c \in Cipher :
         req[r].stage \in {"writeRow", "write", "dropPlaced", "deleteRows"} /\ req'[r] # req[r]
             /\ cipher[c] # None /\ (cipher'[c] # cipher[c] \/ ColsOf(c)' # ColsOf(c))
         => c \in seen[r].edit]_vaultVars

\* Only someone who was an administrator at some moment of the request moves a
\* cipher that is the organization's, as the handler read it, between collections.
PlacedByAdmins ==
    [][\A r \in Req, c \in Cipher :
         req[r].stage = "place" /\ req[r].route \notin {"create", "import"} /\ req[r].org
             /\ req'[r] # req[r] /\ ColsOf(c)' # ColsOf(c)
         => seen[r].admin]_vaultVars

\* The purge takes nothing that is not in the trash.
PurgesTrash ==
    [][cron.stage = "delete" /\ cron' # cron =>
         \A c \in Cipher : cipher[c] # None /\ cipher[c].trash # "old" => cipher'[c] # None]_vaultVars

\* Handlers one at a time, which may end half way: a cipher of the organization
\* lies in no folder, and one of an account is in no collection.
OneOwner ==
    OneAtATime => \A c \in Cipher : cipher[c] # None =>
        IF cipher[c].org THEN cipher[c].folder = None ELSE ColsOf(c) = {}

\* Whoever sees other ciphers than before, or one changed, was told to sync, once
\* nothing is in flight; a handler that ended half way, the deletion of an account
\* and the purge are excused for whom they have not told.  One handler at a time.
ToldOfCiphers ==
    OneAtATime /\ InFlight = {} /\ cron.stage = "idle" /\ excused = {} => untold \cap account = {}

\* The deletion of an account takes no cipher of the organization with it.
OrgCiphersStay ==
    [][\A c \in Cipher, r \in Req :
         At(r, "account") /\ req'[r] # req[r] /\ cipher[c] # None /\ cipher[c].org
             => cipher'[c] # None]_vaultVars
=============================================================================
