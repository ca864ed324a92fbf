---------------------------- MODULE OrgMembership ----------------------------
(***************************************************************************)
(* One organization: its memberships (users_organizations), collections    *)
(* and collection grants (users_collections), and the handlers that change *)
(* them.  Each handler is a sequence of single D1 queries with no          *)
(* transaction around them: what it read at one query it acts upon at a    *)
(* later one, by membership id, while others change the row in between.    *)
(*                                                                         *)
(* The flags of a grant (read_only, hide_passwords, manage) play no part   *)
(* here.  The types user, manager and custom are told apart nowhere in     *)
(* these handlers and are all "user".                                      *)
(***************************************************************************)
EXTENDS Naturals, FiniteSets

CONSTANTS
    User,        \* accounts
    Collection,  \* collection ids, each used for one creation
    Req,         \* slots for handlers in flight
    OrgWorkload, \* what requests ask for, by the name of the workload
    None,        \* SQL NULL, no row, or a field absent from the request
    MaxIds       \* bound on the membership ids drawn

AllRoutes ==
    {"create", "invite", "accept", "acceptPending", "confirm", "update", "deleteMember",
     "collectionAccess", "createCollection", "deleteCollection", "deleteAccount", "crash"}

ASSUME OrgNoneAssumption == None \notin User \cup Nat \cup BOOLEAN \cup {"owner", "admin", "user"}
ASSUME MaxIdsAssumption == MaxIds \in Nat
ASSUME OrgFinite == IsFiniteSet(Req)

VARIABLES
    load,        \* the workload, chosen at the start
    org,         \* whether the organizations row exists
    account,     \* table users
    member,      \* member[u]: membership of u, or None
    collection,  \* table collections
    grant,       \* pairs <<u, c>> of users_collections
    req,         \* handlers in flight
    \* history, read by no action
    lastId,      \* membership ids drawn so far
    drawn,       \* collection ids drawn so far
    untold,      \* users whose view changed after their updated_at was last bumped
    halfway      \* how handlers ended after a write of theirs: "error", "crash"

orgVars == <<load, org, account, member, collection, grant, req, lastId, drawn, untold, halfway>>

Type == {"owner", "admin", "user"}
Status == {"invited", "accepted", "confirmed"}
\* The type, access_all and key an update asks for, None where it leaves them out.
Change == [type : Type \cup {None}, all : BOOLEAN \cup {None}, key : BOOLEAN]

\* How many handlers may be in flight; the routes in use, and whether handlers crash; the
\* sets of users, ids or collections one request may name; the sets of collections an
\* invitation or update may name; the types invitations, and the changes updates ask for.
ASSUME OrgWorkloadAssumption ==
    \A l \in DOMAIN OrgWorkload :
        LET w == OrgWorkload[l] IN
        /\ w.most \in Nat /\ w.route \subseteq AllRoutes
        /\ UNION w.batch \subseteq User \cup Nat \cup Collection
        /\ w.cols \subseteq SUBSET Collection /\ w.types \subseteq Type /\ w.changes \subseteq Change

Member == [id : Nat, type : Type, status : Status, all : BOOLEAN, key : BOOLEAN]

ASSUME OrgNullAssumption == None \notin Member

Stage ==
    {"idle", "insertOwner", "insertDefault", "grantOwner", "vetInvite", "lookup", "insert",
     "inviteCols", "view", "accept", "acceptPending", "vetOne", "confirmOne", "vetConfirm",
     "confirm", "vetUpdate", "ownersUpdate", "vetCols", "update", "memberCols", "vetDelete",
     "ownersDelete", "dropGrants", "dropMember", "insertCollection", "resolve",
     "resolveUsers", "replaceUsers", "dropCollectionGrants", "dropCollection",
     "accountGrants", "accountMember", "account", "touch"}

\* What a handler carries from one query to the next.
Handler ==
    [stage : Stage, caller : Type \cup {None},       \* type of the caller, as read
     user : User \cup {None}, id : Nat,              \* the membership it works on
     new : Member \cup Change \cup {None},           \* the row it is to write
     cols : (SUBSET Collection) \cup {None}, users : SUBSET User,
     todo : SUBSET (User \cup Nat \cup Collection), ids : SUBSET Nat, wrote : BOOLEAN]

Idle == [stage |-> "idle", caller |-> None, user |-> None, id |-> 0, new |-> None,
         cols |-> None, users |-> {}, todo |-> {}, ids |-> {}, wrote |-> FALSE]

OrgTypeOK ==
    /\ load \in DOMAIN OrgWorkload
    /\ org \in BOOLEAN
    /\ account \subseteq User
    /\ member \in [User -> Member \cup {None}]
    /\ collection \subseteq Collection
    /\ grant \subseteq User \X Collection
    /\ req \in [Req -> Handler]
    /\ lastId \in Nat
    /\ drawn \subseteq Collection
    /\ untold \subseteq User
    /\ halfway \subseteq {"error", "crash"}

OrgInit ==
    /\ load \in DOMAIN OrgWorkload
    /\ org = FALSE
    /\ account = User
    /\ member = [u \in User |-> None]
    /\ collection = {}
    /\ grant = {}
    /\ req = [r \in Req |-> Idle]
    /\ lastId = 0
    /\ drawn = {}
    /\ untold = {}
    /\ halfway = {}

-----------------------------------------------------------------------------
\* Rows and queries

Members == {u \in User : member[u] # None}
IsMember(u, i) == member[u] # None /\ member[u].id = i
Confirmed(u) == member[u] # None /\ member[u].status = "confirmed"
Owners == {u \in User : Confirmed(u) /\ member[u].type = "owner"}
AdminType == {"owner", "admin"}
\* ensure_org_admin
Admin(u) == Confirmed(u) /\ member[u].type \in AdminType

\* What a sync shows u of the organization.
Visible(u) ==
    IF member[u].all \/ member[u].type \in AdminType THEN collection
    ELSE {c \in collection : <<u, c>> \in grant}
View(u) ==
    IF Confirmed(u) THEN <<member[u].type, member[u].key, Visible(u)>> ELSE <<>>

At(r, stage) == req[r].stage = stage
Start(r, handler) == req' = [req EXCEPT ![r] = handler]
Proceed(r, stage) == req' = [req EXCEPT ![r].stage = stage]
Goto(r, handler) == req' = [req EXCEPT ![r] = handler]
Wrote(r, stage) == req' = [req EXCEPT ![r].stage = stage, ![r].wrote = TRUE]
Leave(r, how) ==
    /\ req' = [req EXCEPT ![r] = Idle]
    /\ halfway' = IF req[r].wrote THEN halfway \cup {how} ELSE halfway
\* The request is answered, or ends in an error.
Finish(r) == req' = [req EXCEPT ![r] = Idle] /\ UNCHANGED halfway
GiveUp(r) == Leave(r, "error")
Go(r, stage) == Proceed(r, stage) /\ UNCHANGED halfway

\* A write: whoever sees the organization otherwise than before is to be told.
Noting == untold' = untold \cup {u \in User : View(u)' # View(u)}
Unread == UNCHANGED <<org, account, member, collection, grant, lastId, drawn, untold>>
ReadOnly == Unread /\ UNCHANGED halfway
OnlyMember == UNCHANGED <<org, account, collection, grant, drawn>> /\ Noting
OnlyGrant == UNCHANGED <<org, account, member, collection, lastId, drawn>> /\ Noting

WithoutGrants(u) == {g \in grant : g[1] # u}

-----------------------------------------------------------------------------
\* Creation of the organization: four inserts

CreateOrganization(r, u) ==
    /\ ~org /\ u \in account
    /\ org' = TRUE
    /\ Start(r, [Idle EXCEPT !.stage = "insertOwner", !.user = u, !.wrote = TRUE])
    /\ UNCHANGED <<account, member, collection, grant, lastId, drawn, untold, halfway>>

\* The foreign key refuses an account that is gone.
InsertOwner(r) ==
    LET u == req[r].user IN
    /\ At(r, "insertOwner") /\ lastId < MaxIds
    /\ IF u \in account
         THEN /\ member' = [member EXCEPT ![u] =
                    [id |-> lastId + 1, type |-> "owner", status |-> "confirmed",
                     all |-> TRUE, key |-> TRUE]]
              /\ lastId' = lastId + 1
              /\ Go(r, "insertDefault")
         ELSE GiveUp(r) /\ UNCHANGED <<member, lastId>>
    /\ OnlyMember

\* The default collection here, and the one of create_collection.
InsertCollection(r, c) ==
    /\ req[r].stage \in {"insertDefault", "insertCollection"} /\ c \notin drawn
    /\ collection' = collection \cup {c} /\ drawn' = drawn \cup {c}
    /\ Goto(r, [req[r] EXCEPT !.cols = {c}, !.wrote = TRUE,
                              !.stage = IF @ = "insertDefault" THEN "grantOwner"
                                        ELSE "resolveUsers"])
    /\ UNCHANGED <<org, account, member, grant, lastId, halfway>> /\ Noting

GrantOwner(r) ==
    LET new == {req[r].user} \X req[r].cols IN
    /\ At(r, "grantOwner")
    /\ IF req[r].user \in account /\ req[r].cols \subseteq collection /\ new \cap grant = {}
         THEN grant' = grant \cup new /\ Go(r, "touch")
         ELSE GiveUp(r) /\ UNCHANGED grant
    /\ OnlyGrant

-----------------------------------------------------------------------------
\* Invitation, acceptance, confirmation

\* Mutated form of Grants: any admin may make an owner.
GrantsAny(callerType, type) == type \in Type

\* resolve_requested_member_type, with the type of the caller as it was read.
Grants(callerType, type) == type = "owner" => callerType = "owner"

StartInvite(r, c, us, type, all, cols) ==
    /\ Admin(c) /\ Grants(member[c].type, type)
    /\ Start(r, [Idle EXCEPT !.stage = "vetInvite", !.caller = member[c].type, !.todo = us,
                             !.cols = cols,
                             !.new = [id |-> 0, type |-> type, status |-> "invited",
                                      all |-> all, key |-> FALSE]])
    /\ ReadOnly

\* validate_member_collections, for invite_org_users and update_org_user.
VetCollections(r) ==
    /\ req[r].stage \in {"vetInvite", "vetCols"}
    /\ IF req[r].cols \subseteq collection
         THEN Go(r, IF At(r, "vetInvite") THEN "lookup" ELSE "update")
         ELSE GiveUp(r)
    /\ Unread

\* A user who is a member already ends the request: those before stay invited.
Lookup(r) ==
    /\ At(r, "lookup")
    /\ \E u \in req[r].todo :
          IF member[u] # None THEN GiveUp(r)
          ELSE /\ Goto(r, [req[r] EXCEPT !.stage = "insert", !.user = u, !.todo = @ \ {u}])
               /\ UNCHANGED halfway
    /\ Unread

\* UNIQUE(user_id, organization_id) and the foreign key to users may refuse.
Insert(r) ==
    LET u == req[r].user IN
    /\ At(r, "insert") /\ lastId < MaxIds
    /\ IF member[u] # None \/ u \notin account
         THEN GiveUp(r) /\ UNCHANGED <<member, lastId>>
         ELSE /\ member' = [member EXCEPT ![u] = [req[r].new EXCEPT !.id = lastId + 1]]
              /\ lastId' = lastId + 1
              /\ Goto(r, [req[r] EXCEPT !.id = lastId + 1, !.wrote = TRUE,
                             !.stage = IF req[r].cols # {} THEN "inviteCols" ELSE "view"])
              /\ UNCHANGED halfway
    /\ OnlyMember

\* replace_member_collections: one batch, for whoever the row belonged to.  The
\* foreign keys refuse what its own checks of the collections would refuse.
ReplaceMemberCollections(r) ==
    LET u == req[r].user IN
    /\ req[r].stage \in {"inviteCols", "memberCols"}
    /\ IF req[r].cols \subseteq collection /\ (u \in account \/ req[r].cols = {})
         THEN /\ grant' = WithoutGrants(u) \cup ({u} \X req[r].cols)
              /\ Go(r, IF At(r, "inviteCols") THEN "view" ELSE "touch")
         ELSE GiveUp(r) /\ UNCHANGED grant
    /\ OnlyGrant

\* organization_user_view_by_id, for the answer: the row must still be there.
ViewMember(r) ==
    LET h == req[r] IN
    /\ At(r, "view")
    /\ IF \A u \in User : ~IsMember(u, h.id) THEN GiveUp(r)
       ELSE Go(r, IF h.todo = {} THEN "touch" ELSE IF h.ids = {} THEN "lookup" ELSE "confirm")
    /\ Unread

StartAccept(r, u) ==
    /\ member[u] # None /\ member[u].status = "invited"
    /\ Start(r, [Idle EXCEPT !.stage = "accept", !.id = member[u].id])
    /\ ReadOnly

\* UPDATE ... WHERE id: the status it found is not looked at again.
AcceptMember(r) ==
    /\ At(r, "accept")
    /\ member' = [u \in User |-> IF IsMember(u, req[r].id)
                                 THEN [member[u] EXCEPT !.status = "accepted"] ELSE member[u]]
    /\ Wrote(r, "touch")
    /\ UNCHANGED <<lastId, halfway>> /\ OnlyMember

\* accept_pending_invites_for_user, at registration and at login.
StartAcceptPending(r, u) ==
    /\ u \in account /\ member[u] # None /\ member[u].status = "invited"
    /\ Start(r, [Idle EXCEPT !.stage = "acceptPending", !.user = u])
    /\ ReadOnly

\* Mutated form of AcceptPending: the status is not compared in the query.
AcceptPendingUnguarded(r) ==
    /\ At(r, "acceptPending")
    /\ member' = [member EXCEPT ![req[r].user] =
                     IF @ # None THEN [@ EXCEPT !.status = "accepted"] ELSE @]
    /\ Wrote(r, "touch")
    /\ UNCHANGED <<lastId, halfway>> /\ OnlyMember

\* UPDATE ... WHERE user_id AND status = invited.
AcceptPending(r) ==
    /\ At(r, "acceptPending")
    /\ member' = [member EXCEPT ![req[r].user] =
                     IF @ # None /\ @.status = "invited" THEN [@ EXCEPT !.status = "accepted"] ELSE @]
    /\ Wrote(r, "touch")
    /\ UNCHANGED <<lastId, halfway>> /\ OnlyMember

StartConfirmOne(r, c, i) ==
    /\ Admin(c)
    /\ Start(r, [Idle EXCEPT !.stage = "vetOne", !.caller = member[c].type, !.todo = {i}])
    /\ ReadOnly

StartConfirm(r, c, ids) ==
    /\ Admin(c) /\ ids # {}
    /\ Start(r, [Idle EXCEPT !.stage = "vetConfirm", !.caller = member[c].type,
                             !.todo = ids, !.ids = ids])
    /\ ReadOnly

\* An owner's membership is for owners to change.
MayChange(callerType, row) == row.type = "owner" => callerType = "owner"

\* The bulk route vets all the ids before it confirms the first.
VetConfirm(r) ==
    LET h == req[r]
        vetted(i) == \E u \in User : /\ IsMember(u, i) /\ MayChange(h.caller, member[u])
                                     /\ member[u].status # "confirmed"
    IN
    /\ h.stage \in {"vetOne", "vetConfirm"}
    /\ \E i \in h.todo :
          IF ~vetted(i) THEN Finish(r)
          ELSE /\ IF At(r, "vetOne") THEN Proceed(r, "confirmOne")
                  ELSE IF h.todo = {i} THEN Goto(r, [h EXCEPT !.stage = "confirm", !.todo = h.ids])
                  ELSE Goto(r, [h EXCEPT !.todo = @ \ {i}])
               /\ UNCHANGED halfway
    /\ Unread

\* UPDATE ... WHERE id, whatever became of the membership since it was vetted.
ConfirmMember(r) ==
    /\ req[r].stage \in {"confirmOne", "confirm"}
    /\ \E i \in req[r].todo :
          /\ member' = [u \in User |-> IF IsMember(u, i)
                           THEN [member[u] EXCEPT !.status = "confirmed", !.key = TRUE]
                           ELSE member[u]]
          /\ Goto(r, [req[r] EXCEPT !.todo = @ \ {i}, !.id = i, !.wrote = TRUE,
                                    !.stage = IF @ = "confirm" THEN "view" ELSE "touch"])
    /\ UNCHANGED <<lastId, halfway>> /\ OnlyMember

-----------------------------------------------------------------------------
\* Change and removal of a membership

\* ensure_owner_retained_after_member_change, which needs the count of owners.
RemovesOwner(row, type) ==
    row.status = "confirmed" /\ row.type = "owner" /\ type # "owner"

\* The stage that follows the count, or the row when no count is needed.
AfterOwners(h) == IF h.cols = None THEN "update" ELSE "vetCols"

StartUpdate(r, c, i, new, cols) ==
    /\ Admin(c)
    /\ Start(r, [Idle EXCEPT !.stage = "vetUpdate", !.caller = member[c].type, !.id = i,
                             !.cols = cols, !.new = new])
    /\ ReadOnly

\* Mutated form of Filled: a type the request leaves out is written as NULL.
FilledWithNull(row, change) ==
    [row EXCEPT !.type = change.type, !.key = change.key \/ @]

\* Mutated form of Filled: a request without a key clears the one stored.
FilledOverKey(row, change) ==
    [row EXCEPT !.type = IF change.type = None THEN @ ELSE change.type,
                !.all = IF change.all = None THEN @ ELSE change.all,
                !.key = change.key]

\* The row with the change applied; what the request leaves out stays as it was read.
Filled(row, change) ==
    [row EXCEPT !.type = IF change.type = None THEN @ ELSE change.type,
                !.all = IF change.all = None THEN @ ELSE change.all,
                !.key = change.key \/ @]

VetUpdate(r) ==
    LET h == req[r]
        mine(u) == /\ IsMember(u, h.id) /\ MayChange(h.caller, member[u])
                   /\ Grants(h.caller, Filled(member[u], h.new).type)
    IN
    /\ At(r, "vetUpdate")
    /\ \/ \E u \in User :
             LET new == Filled(member[u], h.new) IN
             /\ mine(u)
             /\ Goto(r, [h EXCEPT !.user = u, !.new = new,
                                  !.stage = IF RemovesOwner(member[u], new.type)
                                            THEN "ownersUpdate" ELSE AfterOwners(h)])
       \/ (\A u \in User : ~mine(u)) /\ req' = [req EXCEPT ![r] = Idle]
    /\ ReadOnly

\* Mutated form of CountOwners: no owner needs to stay.
CountOwnersNone(r) ==
    /\ req[r].stage \in {"ownersUpdate", "ownersDelete"}
    /\ Proceed(r, IF At(r, "ownersUpdate") THEN AfterOwners(req[r]) ELSE "dropGrants")
    /\ ReadOnly

\* confirmed_owner_count
CountOwners(r) ==
    /\ req[r].stage \in {"ownersUpdate", "ownersDelete"}
    /\ IF Cardinality(Owners) <= 1 THEN req' = [req EXCEPT ![r] = Idle]
       ELSE Proceed(r, IF At(r, "ownersUpdate") THEN AfterOwners(req[r]) ELSE "dropGrants")
    /\ ReadOnly

\* UPDATE sets access_all, key and type together, as they were read or asked for.
UpdateMember(r) ==
    LET new == req[r].new IN
    /\ At(r, "update")
    /\ member' = [u \in User |-> IF IsMember(u, req[r].id)
                     THEN [member[u] EXCEPT !.type = new.type, !.all = new.all, !.key = new.key]
                     ELSE member[u]]
    /\ Wrote(r, IF req[r].cols # None THEN "memberCols" ELSE "touch")
    /\ UNCHANGED <<lastId, halfway>> /\ OnlyMember

StartDeleteMember(r, c, i) ==
    /\ Admin(c)
    /\ Start(r, [Idle EXCEPT !.stage = "vetDelete", !.caller = member[c].type, !.id = i])
    /\ ReadOnly

VetDelete(r) ==
    LET h == req[r]
        mine(u) == IsMember(u, h.id) /\ MayChange(h.caller, member[u])
    IN
    /\ At(r, "vetDelete")
    /\ \/ \E u \in User :
             /\ mine(u)
             /\ Goto(r, [h EXCEPT !.user = u, !.stage = IF RemovesOwner(member[u], None)
                                                       THEN "ownersDelete" ELSE "dropGrants"])
       \/ (\A u \in User : ~mine(u)) /\ req' = [req EXCEPT ![r] = Idle]
    /\ ReadOnly

\* Mutated form of DropGrants: the grants are left for a later clean-up.
DropGrantsSkipped(r) ==
    /\ At(r, "dropGrants")
    /\ Wrote(r, "dropMember")
    /\ UNCHANGED <<grant, halfway>> /\ OnlyGrant

DropGrants(r) ==
    /\ At(r, "dropGrants")
    /\ grant' = WithoutGrants(req[r].user)
    /\ Wrote(r, "dropMember")
    /\ UNCHANGED halfway /\ OnlyGrant

\* Mutated form of DropMember: only those who are still members are told.
DropMemberUntold(r) ==
    /\ At(r, "dropMember")
    /\ member' = [u \in User |-> IF IsMember(u, req[r].id) THEN None ELSE member[u]]
    /\ Proceed(r, "touch")
    /\ UNCHANGED <<lastId, halfway>> /\ OnlyMember

DropMember(r) ==
    /\ At(r, "dropMember")
    /\ member' = [u \in User |-> IF IsMember(u, req[r].id) THEN None ELSE member[u]]
    /\ Goto(r, [req[r] EXCEPT !.stage = "touch", !.users = {req[r].user}])
    /\ UNCHANGED <<lastId, halfway>> /\ OnlyMember

-----------------------------------------------------------------------------
\* Collections

StartCreateCollection(r, c, us) ==
    /\ Admin(c)
    /\ Start(r, [Idle EXCEPT !.stage = "insertCollection", !.caller = member[c].type,
                             !.users = us])
    /\ ReadOnly

\* update_collection names one collection, the bulk route several.
StartCollectionAccess(r, c, cs, us) ==
    /\ Admin(c) /\ cs # {}
    /\ Start(r, [Idle EXCEPT !.stage = "resolve", !.caller = member[c].type, !.todo = cs,
                             !.users = us])
    /\ ReadOnly

\* collection_belongs_to_org: an unknown one ends the request, those before stay.
Resolve(r) ==
    /\ At(r, "resolve")
    /\ \E c \in req[r].todo :
          IF c \in collection
          THEN /\ Goto(r, [req[r] EXCEPT !.stage = "resolveUsers", !.cols = {c},
                                         !.todo = @ \ {c}])
               /\ UNCHANGED halfway
          ELSE GiveUp(r)
    /\ Unread

ResolveUsers(r) ==
    /\ At(r, "resolveUsers")
    /\ IF req[r].users \subseteq Members THEN Go(r, "replaceUsers") ELSE GiveUp(r)
    /\ Unread

\* replace_collection_users: one batch; the foreign keys refuse a collection or
\* an account that is gone, but not a user who is no longer a member.
ReplaceUsers(r) ==
    LET h == req[r] IN
    /\ At(r, "replaceUsers")
    /\ IF h.users = {} \/ (h.cols \subseteq collection /\ h.users \subseteq account)
         THEN /\ grant' = {g \in grant : g[2] \notin h.cols} \cup (h.users \X h.cols)
              /\ Wrote(r, IF h.todo # {} THEN "resolve" ELSE "touch")
              /\ UNCHANGED halfway
         ELSE GiveUp(r) /\ UNCHANGED grant
    /\ OnlyGrant

StartDeleteCollection(r, c, col) ==
    /\ Admin(c) /\ col \in collection
    /\ Start(r, [Idle EXCEPT !.stage = "dropCollectionGrants", !.caller = member[c].type,
                             !.cols = {col}])
    /\ ReadOnly

DropCollectionGrants(r) ==
    /\ At(r, "dropCollectionGrants")
    /\ grant' = {g \in grant : g[2] \notin req[r].cols}
    /\ Wrote(r, "dropCollection")
    /\ UNCHANGED halfway /\ OnlyGrant

\* The foreign key of users_collections takes along grants added in between.
DropCollection(r) ==
    /\ At(r, "dropCollection")
    /\ collection' = collection \ req[r].cols
    /\ grant' = {g \in grant : g[2] \notin req[r].cols}
    /\ Proceed(r, "touch")
    /\ UNCHANGED <<org, account, member, lastId, drawn, halfway>> /\ Noting

-----------------------------------------------------------------------------
\* delete_account, from its deletion of the user's grants on

StartDeleteAccount(r, u) ==
    /\ u \in account
    /\ Start(r, [Idle EXCEPT !.stage = "accountGrants", !.user = u])
    /\ ReadOnly

AccountGrants(r) ==
    /\ At(r, "accountGrants")
    /\ grant' = WithoutGrants(req[r].user)
    /\ Wrote(r, "accountMember")
    /\ UNCHANGED halfway /\ OnlyGrant

AccountMember(r) ==
    /\ At(r, "accountMember")
    /\ member' = [member EXCEPT ![req[r].user] = None]
    /\ Proceed(r, "account")
    /\ UNCHANGED <<lastId, halfway>> /\ OnlyMember

\* The foreign keys to users cascade.
DeleteUser(r) ==
    LET u == req[r].user IN
    /\ At(r, "account")
    /\ account' = account \ {u}
    /\ member' = [member EXCEPT ![u] = None]
    /\ grant' = WithoutGrants(u)
    /\ Finish(r)
    /\ UNCHANGED <<org, collection, lastId, drawn>> /\ Noting

-----------------------------------------------------------------------------
\* touch_org_members_updated_at, with touch_user_updated_at for a removed member.
Touch(r) ==
    /\ At(r, "touch")
    /\ untold' = untold \ (Members \cup req[r].users)
    /\ Finish(r)
    /\ UNCHANGED <<org, account, member, collection, grant, lastId, drawn>>

\* A query fails or the request is cancelled: nothing done before is undone.
Crash(r) ==
    /\ ~At(r, "idle")
    /\ Leave(r, "crash")
    /\ Unread

InFlight == {r \in Req : ~At(r, "idle")}

Asked == OrgWorkload[load]

Begin(r, c) ==
    /\ At(r, "idle") /\ Cardinality(InFlight) < Asked.most
    /\ \/ "create" \in Asked.route /\ CreateOrganization(r, c)
       \/ \E us \in Asked.batch, type \in Asked.types, all \in BOOLEAN, cols \in Asked.cols :
             /\ "invite" \in Asked.route /\ us \subseteq account
             /\ StartInvite(r, c, us, type, all, cols)
       \/ "accept" \in Asked.route /\ StartAccept(r, c)
       \/ "acceptPending" \in Asked.route /\ StartAcceptPending(r, c)
       \/ \E i \in 1..lastId :
             \/ "confirm" \in Asked.route /\ StartConfirmOne(r, c, i)
             \/ \E new \in Asked.changes, cols \in Asked.cols \cup {None} :
                   "update" \in Asked.route /\ StartUpdate(r, c, i, new, cols)
             \/ "deleteMember" \in Asked.route /\ StartDeleteMember(r, c, i)
       \/ \E ids \in Asked.batch :
             "confirm" \in Asked.route /\ ids \subseteq 1..lastId /\ StartConfirm(r, c, ids)
       \/ \E us \in SUBSET account :
             \/ "createCollection" \in Asked.route /\ StartCreateCollection(r, c, us)
             \/ \E cs \in Asked.batch :
                   /\ "collectionAccess" \in Asked.route /\ cs \subseteq Collection
                   /\ StartCollectionAccess(r, c, cs, us)
       \/ \E col \in collection : "deleteCollection" \in Asked.route /\ StartDeleteCollection(r, c, col)
       \/ "deleteAccount" \in Asked.route /\ StartDeleteAccount(r, c)

Continue(r) ==
    \/ InsertOwner(r) \/ (\E c \in Collection : InsertCollection(r, c)) \/ GrantOwner(r)
    \/ VetCollections(r) \/ Lookup(r) \/ Insert(r) \/ ReplaceMemberCollections(r)
    \/ ViewMember(r) \/ AcceptMember(r) \/ AcceptPending(r) \/ VetConfirm(r)
    \/ ConfirmMember(r) \/ VetUpdate(r) \/ CountOwners(r) \/ UpdateMember(r)
    \/ VetDelete(r) \/ DropGrants(r) \/ DropMember(r)
    \/ Resolve(r) \/ ResolveUsers(r) \/ ReplaceUsers(r)
    \/ DropCollectionGrants(r) \/ DropCollection(r)
    \/ AccountGrants(r) \/ AccountMember(r) \/ DeleteUser(r)
    \/ Touch(r)
    \/ "crash" \in Asked.route /\ Crash(r)

OrgNext == UNCHANGED load /\ \E r \in Req : (\E c \in User : Begin(r, c)) \/ Continue(r)

OrgSpec == OrgInit /\ [][OrgNext]_orgVars

-----------------------------------------------------------------------------
\* Properties

\* What is promised of one handler at a time only.
OneAtATime == Asked.most = 1

\* The last confirmed owner leaves the organization only with the account.
OwnerKept ==
    [][Owners # {} /\ Owners' = {} =>
         \E r \in Req : req[r].stage \in {"accountMember", "account"} /\ req'[r] # req[r]]_orgVars

\* The same, as long as handlers do not overlap.
OwnerKeptAlone == [][OneAtATime /\ Owners # {} /\ Owners' = {} =>
         \E r \in Req : req[r].stage \in {"accountMember", "account"} /\ req'[r] # req[r]]_orgVars

\* A grant is held by a member: nobody regains, by a later invitation, what was
\* granted before the removal, half done removals included, as long as handlers do not
\* overlap.
GrantsToMembers == OneAtATime => \A g \in grant : g[1] \in Members

\* Whoever sees the organization otherwise than before was told to sync, once
\* no handler is in flight; handlers that ended half way are exempt, and those that overlap.
Told == OneAtATime /\ InFlight = {} /\ halfway = {} => untold \cap account = {}

\* A confirmed member is never moved back to accepted, however the acceptances of logins
\* and confirmations interleave; the acceptance of an invitation is promised only alone.
NeverDemoted ==
    [][OneAtATime \/ "accept" \notin Asked.route =>
         \A u \in User : Confirmed(u) /\ member'[u] # None /\ member'[u].id = member[u].id
                          => member'[u].status = "confirmed"]_orgVars

\* A membership turns into an owner's only by a step of a handler that has read its
\* caller to be an owner, however long ago, or that creates the organization.
OwnerType(u) == member[u] # None /\ member[u].type = "owner"
OwnersByOwners ==
    [][\A u \in User : ~OwnerType(u) /\ OwnerType(u)' =>
         \E r \in Req : /\ req'[r] # req[r]
                        /\ req[r].caller = "owner" \/ At(r, "insertOwner")]_orgVars

\* A confirmed member has the encrypted organization key it was confirmed with,
\* whatever updates followed, as long as handlers do not overlap.
ConfirmedHasKey == OneAtATime => \A u \in User : Confirmed(u) => member[u].key
=============================================================================
