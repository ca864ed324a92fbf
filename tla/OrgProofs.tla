------------------------------ MODULE OrgProofs ------------------------------
(***************************************************************************)
(* Proofs about OrgMembership, for any accounts and collections, any       *)
(* finite number of handlers, any workloads and any bounds: its types, who *)
(* makes owners, what acceptances leave alone, and what one handler at a   *)
(* time keeps: the last owner, the keys of confirmed members, grants that  *)
(* end with the membership, and that whoever sees a change is told.        *)
(***************************************************************************)
EXTENDS OrgMembership, FiniteSetTheorems, TLAPS

-----------------------------------------------------------------------------
\* What a handler holds

\* The stages of an invitation, and of an update that was vetted.
InviteStages == {"vetInvite", "lookup", "insert", "inviteCols"}
UpdateStages == {"ownersUpdate", "vetCols", "update"}
RemoveStages == {"ownersDelete", "dropGrants", "dropMember"}
UserStages == {"insertOwner", "insertDefault", "grantOwner", "acceptPending", "memberCols", "accountGrants",
               "accountMember", "account"} \cup RemoveStages

\* Only a caller that was read as owner writes the type owner.
OwnerCalls(h) == h.new \in Member /\ Grants(h.caller, h.new.type)

Invites(h) ==
    /\ OwnerCalls(h) /\ h.new.status = "invited"
    /\ h.todo \subseteq User /\ h.cols \subseteq Collection /\ h.ids = {}

Sound(h) ==
    /\ h.stage \in InviteStages => Invites(h)
    /\ h.stage \in {"insert", "inviteCols"} \cup UpdateStages \cup UserStages => h.user \in User
    /\ h.stage = "view" => Invites(h) \/ (h.ids # {} /\ h.todo \subseteq Nat)
    /\ h.stage \in {"vetOne", "vetConfirm", "confirmOne", "confirm"} => h.todo \subseteq Nat
    /\ h.stage \in {"vetConfirm", "confirm"} => h.ids # {}
    /\ h.stage = "vetUpdate" => h.new \in Change
    /\ h.stage = "accept" => "accept" \in Asked.route
    /\ h.stage \in UpdateStages => OwnerCalls(h)
    /\ h.stage \in {"grantOwner", "vetCols", "memberCols", "resolveUsers", "replaceUsers"}
          => h.cols \subseteq Collection

AllSound == \A r \in Req : Sound(req[r])

\* Where one handler at a time is allowed, r is the one, or none is.
Sole(r) == OneAtATime => \A s \in Req \ {r} : At(s, "idle")
AtMostOne == \A r \in Req : ~At(r, "idle") => Sole(r)

\* Ids are drawn once, so that one names one membership at most.
Ids == \A u \in Members : /\ member[u].id \in 1..lastId
                          /\ \A v \in Members : member[v].id = member[u].id => v = u

OrgInv == OrgTypeOK /\ AllSound /\ AtMostOne /\ Ids

-----------------------------------------------------------------------------
\* What one handler at a time can rely on

OtherOwner(u) == \E v \in Owners : v # u

\* What the handler in flight read is still so.
Alone(h) ==
    /\ h.stage = "accept" => \A u \in User : IsMember(u, h.id) => member[u].status = "invited"
    /\ h.stage \in {"insertDefault", "grantOwner", "inviteCols", "memberCols"} => h.user \in Members
    /\ h.stage = "replaceUsers" => h.users \subseteq Members
    /\ h.stage \in UpdateStages => IsMember(h.user, h.id) /\ (Confirmed(h.user) => h.new.key)
    /\ h.stage \in {"vetCols", "update"} => (RemovesOwner(member[h.user], h.new.type) => OtherOwner(h.user))
    /\ h.stage \in RemoveStages => IsMember(h.user, h.id)
    /\ h.stage \in {"dropGrants", "dropMember"} => (RemovesOwner(member[h.user], None) => OtherOwner(h.user))
    /\ h.stage \in {"dropMember", "accountMember", "account"} => \A g \in grant : g[1] # h.user

\* The stages of a handler that has written nothing yet, and of one that has.
Silent == {"vetOne", "vetConfirm", "vetUpdate", "ownersUpdate", "vetDelete", "ownersDelete", "dropGrants",
           "accountGrants"}
Written == {"insertOwner", "insertDefault", "grantOwner", "inviteCols", "memberCols", "dropMember",
            "dropCollection", "accountMember", "account"}

\* Whom the handler in flight has still to tell.
Owing(h) ==
    /\ h.stage \in Silent => ~h.wrote
    /\ h.stage \in Written => h.wrote
    /\ halfway = {} =>
          /\ ~h.wrote => untold \cap account = {}
          /\ untold \cap account \subseteq IF h.stage \in {"dropMember", "accountMember", "account"}
                                           THEN {h.user} ELSE Members \cup h.users

AloneInv ==
    /\ ConfirmedHasKey /\ GrantsToMembers /\ Told
    /\ OneAtATime => \A r \in Req : ~At(r, "idle") => Alone(req[r]) /\ Owing(req[r])

-----------------------------------------------------------------------------
\* Handlers

LEMMA IdleSound == Idle \in Handler /\ Sound(Idle) /\ Idle.stage = "idle"
  BY DEF Idle, Handler, Stage, Sound, InviteStages, UpdateStages, RemoveStages, UserStages

\* What a handler still holds when it goes on to another stage.
Kept(g, h) ==
    /\ g.caller = h.caller /\ g.user = h.user /\ g.id = h.id /\ g.new = h.new /\ g.cols = h.cols
    /\ g.users = h.users /\ g.todo = h.todo /\ g.ids = h.ids

LEMMA Goes ==
    ASSUME OrgTypeOK, NEW r \in Req, NEW stage \in Stage, Proceed(r, stage)
    PROVE  \E g \in Handler : Goto(r, g) /\ g.stage = stage /\ Kept(g, req[r]) /\ g.wrote = req[r].wrote
  <1>1. PICK h \in Handler : h = req[r]
    BY DEF OrgTypeOK
  <1> DEFINE g == [h EXCEPT !.stage = stage]
  <1>2. g \in Handler
    BY DEF Handler
  <1>3. g.stage = stage /\ Kept(g, h) /\ g.wrote = h.wrote
    BY DEF Handler, Kept
  <1>4. Goto(r, g)
    BY <1>1 DEF Proceed, Goto
  <1> HIDE DEF g
  <1> QED
    BY <1>1, <1>2, <1>3, <1>4

LEMMA Writes ==
    ASSUME OrgTypeOK, NEW r \in Req, NEW stage \in Stage, Wrote(r, stage)
    PROVE  \E g \in Handler : Goto(r, g) /\ g.stage = stage /\ Kept(g, req[r]) /\ g.wrote = TRUE
  <1>1. PICK h \in Handler : h = req[r] /\ req \in [Req -> Handler]
    BY DEF OrgTypeOK
  <1> DEFINE g == [h EXCEPT !.stage = stage, !.wrote = TRUE]
  <1>2. g \in Handler
    BY DEF Handler
  <1>3. g.stage = stage /\ Kept(g, h) /\ g.wrote = TRUE
    BY DEF Handler, Kept
  <1>4. Goto(r, g)
    BY <1>1 DEF Wrote, Goto
  <1> HIDE DEF g
  <1> QED
    BY <1>1, <1>2, <1>3, <1>4

LEMMA Ends ==
    ASSUME OrgTypeOK, NEW r \in Req, Finish(r) \/ GiveUp(r) \/ Leave(r, "crash")
    PROVE  Goto(r, Idle) /\ halfway' \subseteq {"error", "crash"} /\ halfway \subseteq halfway'
           /\ (~Finish(r) /\ req[r].wrote => halfway' # {})
  BY DEF Finish, GiveUp, Leave, Goto, OrgTypeOK

LEMMA BusySole == ASSUME OrgInv, NEW r \in Req, ~At(r, "idle") PROVE Sole(r)
  BY DEF OrgInv, AtMostOne

LEMMA BeginSole ==
    ASSUME NEW r \in Req, At(r, "idle"), Cardinality(InFlight) < Asked.most
    PROVE  Sole(r) /\ (OneAtATime => InFlight = {})
  <1> SUFFICES ASSUME OneAtATime
               PROVE  InFlight = {}
    BY DEF Sole, InFlight
  <1>1. InFlight \in SUBSET Req
    BY DEF InFlight
  <1>2. IsFiniteSet(InFlight)
    BY <1>1, OrgFinite, FS_Subset
  <1>3. Cardinality(InFlight) \in Nat /\ Cardinality(InFlight) < 1
    BY <1>2, FS_CardinalityType DEF OneAtATime
  <1> QED
    BY <1>2, <1>3, FS_EmptySet

\* A step of r, after which it holds h, whatever it wrote.
LEMMA HandlerStep ==
    ASSUME OrgInv, NEW r \in Req, Sole(r), NEW h \in Handler, Sound(h), Goto(r, h), load' = load,
           org' \in BOOLEAN, account' \subseteq User, member' \in [User -> Member \cup {None}],
           collection' \subseteq Collection, grant' \subseteq User \X Collection, lastId' \in Nat,
           drawn' \subseteq Collection, untold' \subseteq User, halfway' \subseteq {"error", "crash"}, Ids'
    PROVE  OrgInv'
  <1>1. req' \in [Req -> Handler] /\ \A s \in Req : req'[s] = IF s = r THEN h ELSE req[s]
    BY DEF OrgInv, OrgTypeOK, Goto
  <1>2. OrgTypeOK'
    BY <1>1 DEF OrgInv, OrgTypeOK
  <1>3. AllSound'
    <2> SUFFICES ASSUME NEW s \in Req PROVE Sound(req'[s])
      BY DEF AllSound, Sound, Invites, OwnerCalls, Asked
    <2> QED
      BY <1>1 DEF OrgInv, AllSound
  <1>4. AtMostOne'
    BY <1>1 DEF OrgInv, AtMostOne, Sole, At, OneAtATime, Asked
  <1> QED
    BY <1>2, <1>3, <1>4 DEF OrgInv

\* A query that writes nothing.
LEMMA QueryStep ==
    ASSUME OrgInv, NEW r \in Req, Sole(r), NEW h \in Handler, Sound(h), Goto(r, h), load' = load,
           Unread, halfway' \subseteq {"error", "crash"}
    PROVE  OrgInv'
  <1>1. Ids'
    BY DEF OrgInv, Ids, Unread, Members
  <1>2. Unread /\ OrgTypeOK
    BY DEF OrgInv
  <1> QED
    BY <1>1, <1>2, HandlerStep DEF Unread, OrgTypeOK

LEMMA NotingTypes == ASSUME OrgTypeOK, Noting PROVE untold' \subseteq User
  BY DEF OrgTypeOK, Noting

\* A query that writes memberships.
LEMMA MemberStep ==
    ASSUME OrgInv, NEW r \in Req, Sole(r), NEW h \in Handler, Sound(h), Goto(r, h), load' = load,
           OnlyMember, halfway' \subseteq {"error", "crash"}, member' \in [User -> Member \cup {None}],
           lastId' \in Nat, Ids'
    PROVE  OrgInv'
  <1>1. OrgTypeOK /\ untold' \subseteq User
    BY NotingTypes DEF OrgInv, OnlyMember
  <1> QED
    BY <1>1, HandlerStep DEF OnlyMember, OrgTypeOK

\* A query that writes grants.
LEMMA GrantStep ==
    ASSUME OrgInv, NEW r \in Req, Sole(r), NEW h \in Handler, Sound(h), Goto(r, h), load' = load,
           OnlyGrant, halfway' \subseteq {"error", "crash"}, grant' \subseteq User \X Collection
    PROVE  OrgInv'
  <1>1. OrgTypeOK /\ untold' \subseteq User
    BY NotingTypes DEF OrgInv, OnlyGrant
  <1>2. Ids'
    BY DEF OrgInv, Ids, OnlyGrant, Members
  <1> QED
    BY <1>1, <1>2, HandlerStep DEF OnlyGrant, OrgTypeOK

\* No id and no membership but those there were.
LEMMA IdsKept ==
    ASSUME OrgInv, lastId' = lastId, \A u \in User : member'[u] # None => member[u] # None /\ member'[u].id = member[u].id
    PROVE  Ids'
  BY DEF OrgInv, Ids, Members

\* A membership with a fresh id.
LEMMA IdsDrawn ==
    ASSUME OrgInv, NEW u \in User, NEW row \in Member, row.id = lastId + 1, lastId' = lastId + 1,
           member' = [member EXCEPT ![u] = row]
    PROVE  Ids' /\ member' \in [User -> Member \cup {None}] /\ lastId' \in Nat
  <1>1. lastId \in Nat /\ member \in [User -> Member \cup {None}]
    BY DEF OrgInv, OrgTypeOK
  <1>2. \A v \in User : member'[v] = IF v = u THEN row ELSE member[v]
    BY <1>1
  <1>3. \A v \in Members : member[v].id \in 1..lastId
    BY DEF OrgInv, Ids
  <1>4. \A v \in Members' : v \in User /\ (v = u \/ v \in Members)
    BY <1>2 DEF Members
  <1>5. \A v \in Members' : member'[v].id \in 1..lastId'
    BY <1>1, <1>2, <1>3, <1>4
  <1>6. ASSUME NEW v \in Members', NEW w \in Members', member'[w].id = member'[v].id
        PROVE  w = v
    BY <1>1, <1>2, <1>3, <1>4, <1>6 DEF OrgInv, Ids
  <1> QED
    BY <1>1, <1>5, <1>6 DEF Ids

-----------------------------------------------------------------------------
\* Requests that begin

Room(r) == At(r, "idle") /\ Cardinality(InFlight) < Asked.most

LEMMA BeginStep ==
    ASSUME OrgInv, NEW r \in Req, Room(r), NEW h \in Handler, Sound(h), Start(r, h), ReadOnly, load' = load
    PROVE  OrgInv'
  <1>1. Sole(r) /\ Goto(r, h) /\ Unread /\ halfway' \subseteq {"error", "crash"}
    BY BeginSole DEF Room, Start, Goto, ReadOnly, OrgInv, OrgTypeOK
  <1> QED
    BY <1>1, QueryStep

\* What the workload lets requests name.
LEMMA AskedTypes ==
    ASSUME OrgInv
    PROVE  /\ \A b \in Asked.batch : b \subseteq User \cup Nat \cup Collection
           /\ Asked.cols \subseteq SUBSET Collection /\ Asked.types \subseteq Type /\ Asked.changes \subseteq Change
  BY OrgWorkloadAssumption DEF OrgInv, OrgTypeOK, Asked

LEMMA CallerTypes ==
    ASSUME OrgInv, NEW c \in User, member[c] # None
    PROVE  member[c] \in Member /\ member[c].type \in Type /\ member[c].id \in Nat
  <1>1. member[c] \in Member
    BY DEF OrgInv, OrgTypeOK
  <1> QED
    BY <1>1 DEF Member

LEMMA CreateOrganizationStep ==
    ASSUME OrgInv, NEW r \in Req, Room(r), NEW u \in User, CreateOrganization(r, u), load' = load
    PROVE  OrgInv'
  <1>1. PICK i \in Handler : i = Idle
    BY IdleSound
  <1> DEFINE h == [i EXCEPT !.stage = "insertOwner", !.user = u, !.wrote = TRUE]
  <1>2. h \in Handler
    BY DEF Handler, Stage
  <1>3. h.stage = "insertOwner" /\ h.user = u
    BY DEF Handler
  <1>4. Goto(r, h)
    BY <1>1 DEF CreateOrganization, Start, Goto
  <1> HIDE DEF h
  <1>5. Sound(h)
    BY <1>3 DEF Sound, InviteStages, UpdateStages, RemoveStages, UserStages
  <1>6. OrgTypeOK /\ Ids'
    BY DEF OrgInv, Ids, CreateOrganization, Members
  <1>7. Sole(r)
    BY BeginSole DEF Room
  <1> QED
    BY <1>2, <1>4, <1>5, <1>6, <1>7, HandlerStep DEF CreateOrganization, OrgTypeOK

LEMMA StartInviteStep ==
    ASSUME OrgInv, NEW r \in Req, Room(r), NEW c \in User, NEW us \in SUBSET User, NEW type \in Type,
           NEW all \in BOOLEAN, NEW cols \in SUBSET Collection, StartInvite(r, c, us, type, all, cols),
           load' = load
    PROVE  OrgInv'
  <1>1. member[c].type \in Type /\ Grants(member[c].type, type)
    BY CallerTypes DEF StartInvite, Admin, Confirmed
  <1>2. PICK i \in Handler, caller \in Type, new \in Member :
           /\ i = Idle /\ caller = member[c].type
           /\ new = [id |-> 0, type |-> type, status |-> "invited", all |-> all, key |-> FALSE]
    BY <1>1, IdleSound DEF Member, Status
  <1>3. new \in Member /\ new.type = type /\ new.status = "invited"
    BY <1>2 DEF Member, Status
  <1> DEFINE h == [i EXCEPT !.stage = "vetInvite", !.caller = caller, !.todo = us, !.cols = cols, !.new = new]
  <1>4. h \in Handler
    BY <1>3 DEF Handler, Stage
  <1>5. /\ h.stage = "vetInvite" /\ h.caller = caller /\ h.todo = us /\ h.cols = cols /\ h.new = new
        /\ h.ids = i.ids
    BY DEF Handler
  <1>6. Start(r, h) /\ ReadOnly /\ i.ids = {}
    BY <1>2 DEF StartInvite, Idle
  <1> HIDE DEF h
  <1>7. Sound(h)
    BY <1>1, <1>2, <1>3, <1>5, <1>6
    DEF Sound, Invites, OwnerCalls, InviteStages, UpdateStages, RemoveStages, UserStages
  <1> QED
    BY <1>4, <1>6, <1>7, BeginStep

LEMMA StartAcceptStep ==
    ASSUME OrgInv, NEW r \in Req, Room(r), NEW u \in User, "accept" \in Asked.route, StartAccept(r, u),
           load' = load
    PROVE  OrgInv'
  <1>1. PICK i \in Handler, id \in Nat : i = Idle /\ id = member[u].id
    BY IdleSound, CallerTypes DEF StartAccept
  <1> DEFINE h == [i EXCEPT !.stage = "accept", !.id = id]
  <1>2. h \in Handler
    BY DEF Handler, Stage
  <1>3. h.stage = "accept"
    BY DEF Handler
  <1>4. Start(r, h) /\ ReadOnly
    BY <1>1 DEF StartAccept
  <1> HIDE DEF h
  <1>5. Sound(h)
    BY <1>3 DEF Sound, InviteStages, UpdateStages, RemoveStages, UserStages
  <1> QED
    BY <1>2, <1>4, <1>5, BeginStep

\* The handlers that begin with the account they work on.
LEMMA StartWithUserStep ==
    ASSUME OrgInv, NEW r \in Req, Room(r), NEW u \in User, NEW stage \in {"acceptPending", "accountGrants"},
           Start(r, [Idle EXCEPT !.stage = stage, !.user = u]), ReadOnly, load' = load
    PROVE  OrgInv'
  <1>1. PICK i \in Handler : i = Idle
    BY IdleSound
  <1>2. stage \in Stage
    BY DEF Stage
  <1> DEFINE h == [i EXCEPT !.stage = stage, !.user = u]
  <1>3. h \in Handler
    BY <1>2 DEF Handler
  <1>4. h.stage = stage /\ h.user = u
    BY DEF Handler
  <1>5. Start(r, h)
    BY <1>1
  <1> HIDE DEF h
  <1>6. Sound(h)
    BY <1>4 DEF Sound, InviteStages, UpdateStages, RemoveStages, UserStages
  <1> QED
    BY <1>3, <1>5, <1>6, BeginStep

LEMMA StartConfirmOneStep ==
    ASSUME OrgInv, NEW r \in Req, Room(r), NEW c \in User, NEW n \in Nat, StartConfirmOne(r, c, n),
           load' = load
    PROVE  OrgInv'
  <1>1. PICK i \in Handler, caller \in Type : i = Idle /\ caller = member[c].type
    BY IdleSound, CallerTypes DEF StartConfirmOne, Admin, Confirmed
  <1> DEFINE h == [i EXCEPT !.stage = "vetOne", !.caller = caller, !.todo = {n}]
  <1>2. h \in Handler
    BY DEF Handler, Stage
  <1>3. h.stage = "vetOne" /\ h.todo = {n}
    BY DEF Handler
  <1>4. Start(r, h) /\ ReadOnly
    BY <1>1 DEF StartConfirmOne
  <1> HIDE DEF h
  <1>5. Sound(h)
    BY <1>3 DEF Sound, InviteStages, UpdateStages, RemoveStages, UserStages
  <1> QED
    BY <1>2, <1>4, <1>5, BeginStep

LEMMA StartConfirmStep ==
    ASSUME OrgInv, NEW r \in Req, Room(r), NEW c \in User, NEW ids \in SUBSET Nat, StartConfirm(r, c, ids),
           load' = load
    PROVE  OrgInv'
  <1>1. PICK i \in Handler, caller \in Type : i = Idle /\ caller = member[c].type
    BY IdleSound, CallerTypes DEF StartConfirm, Admin, Confirmed
  <1> DEFINE h == [i EXCEPT !.stage = "vetConfirm", !.caller = caller, !.todo = ids, !.ids = ids]
  <1>2. h \in Handler
    BY DEF Handler, Stage
  <1>3. h.stage = "vetConfirm" /\ h.todo = ids /\ h.ids = ids
    BY DEF Handler
  <1>4. Start(r, h) /\ ReadOnly /\ ids # {}
    BY <1>1 DEF StartConfirm
  <1> HIDE DEF h
  <1>5. Sound(h)
    BY <1>3, <1>4 DEF Sound, InviteStages, UpdateStages, RemoveStages, UserStages
  <1> QED
    BY <1>2, <1>4, <1>5, BeginStep

LEMMA StartUpdateStep ==
    ASSUME OrgInv, NEW r \in Req, Room(r), NEW c \in User, NEW n \in Nat, NEW new \in Change,
           NEW cols \in (SUBSET Collection) \cup {None}, StartUpdate(r, c, n, new, cols), load' = load
    PROVE  OrgInv'
  <1>1. PICK i \in Handler, caller \in Type : i = Idle /\ caller = member[c].type
    BY IdleSound, CallerTypes DEF StartUpdate, Admin, Confirmed
  <1> DEFINE h == [i EXCEPT !.stage = "vetUpdate", !.caller = caller, !.id = n, !.cols = cols, !.new = new]
  <1>2. h \in Handler
    BY DEF Handler, Stage
  <1>3. h.stage = "vetUpdate" /\ h.new = new
    BY DEF Handler
  <1>4. Start(r, h) /\ ReadOnly
    BY <1>1 DEF StartUpdate
  <1> HIDE DEF h
  <1>5. Sound(h)
    BY <1>3 DEF Sound, InviteStages, UpdateStages, RemoveStages, UserStages
  <1> QED
    BY <1>2, <1>4, <1>5, BeginStep

LEMMA StartDeleteMemberStep ==
    ASSUME OrgInv, NEW r \in Req, Room(r), NEW c \in User, NEW n \in Nat, StartDeleteMember(r, c, n),
           load' = load
    PROVE  OrgInv'
  <1>1. PICK i \in Handler, caller \in Type : i = Idle /\ caller = member[c].type
    BY IdleSound, CallerTypes DEF StartDeleteMember, Admin, Confirmed
  <1> DEFINE h == [i EXCEPT !.stage = "vetDelete", !.caller = caller, !.id = n]
  <1>2. h \in Handler
    BY DEF Handler, Stage
  <1>3. h.stage = "vetDelete"
    BY DEF Handler
  <1>4. Start(r, h) /\ ReadOnly
    BY <1>1 DEF StartDeleteMember
  <1> HIDE DEF h
  <1>5. Sound(h)
    BY <1>3 DEF Sound, InviteStages, UpdateStages, RemoveStages, UserStages
  <1> QED
    BY <1>2, <1>4, <1>5, BeginStep

LEMMA StartCreateCollectionStep ==
    ASSUME OrgInv, NEW r \in Req, Room(r), NEW c \in User, NEW us \in SUBSET User,
           StartCreateCollection(r, c, us), load' = load
    PROVE  OrgInv'
  <1>1. PICK i \in Handler, caller \in Type : i = Idle /\ caller = member[c].type
    BY IdleSound, CallerTypes DEF StartCreateCollection, Admin, Confirmed
  <1> DEFINE h == [i EXCEPT !.stage = "insertCollection", !.caller = caller, !.users = us]
  <1>2. h \in Handler
    BY DEF Handler, Stage
  <1>3. h.stage = "insertCollection"
    BY DEF Handler
  <1>4. Start(r, h) /\ ReadOnly
    BY <1>1 DEF StartCreateCollection
  <1> HIDE DEF h
  <1>5. Sound(h)
    BY <1>3 DEF Sound, InviteStages, UpdateStages, RemoveStages, UserStages
  <1> QED
    BY <1>2, <1>4, <1>5, BeginStep

LEMMA StartCollectionAccessStep ==
    ASSUME OrgInv, NEW r \in Req, Room(r), NEW c \in User, NEW cs \in SUBSET Collection, NEW us \in SUBSET User,
           StartCollectionAccess(r, c, cs, us), load' = load
    PROVE  OrgInv'
  <1>1. PICK i \in Handler, caller \in Type : i = Idle /\ caller = member[c].type
    BY IdleSound, CallerTypes DEF StartCollectionAccess, Admin, Confirmed
  <1> DEFINE h == [i EXCEPT !.stage = "resolve", !.caller = caller, !.todo = cs, !.users = us]
  <1>2. h \in Handler
    BY DEF Handler, Stage
  <1>3. h.stage = "resolve"
    BY DEF Handler
  <1>4. Start(r, h) /\ ReadOnly
    BY <1>1 DEF StartCollectionAccess
  <1> HIDE DEF h
  <1>5. Sound(h)
    BY <1>3 DEF Sound, InviteStages, UpdateStages, RemoveStages, UserStages
  <1> QED
    BY <1>2, <1>4, <1>5, BeginStep

LEMMA StartDeleteCollectionStep ==
    ASSUME OrgInv, NEW r \in Req, Room(r), NEW c \in User, NEW col \in Collection,
           StartDeleteCollection(r, c, col), load' = load
    PROVE  OrgInv'
  <1>1. PICK i \in Handler, caller \in Type : i = Idle /\ caller = member[c].type
    BY IdleSound, CallerTypes DEF StartDeleteCollection, Admin, Confirmed
  <1> DEFINE h == [i EXCEPT !.stage = "dropCollectionGrants", !.caller = caller, !.cols = {col}]
  <1>2. h \in Handler
    BY DEF Handler, Stage
  <1>3. h.stage = "dropCollectionGrants"
    BY DEF Handler
  <1>4. Start(r, h) /\ ReadOnly
    BY <1>1 DEF StartDeleteCollection
  <1> HIDE DEF h
  <1>5. Sound(h)
    BY <1>3 DEF Sound, InviteStages, UpdateStages, RemoveStages, UserStages
  <1> QED
    BY <1>2, <1>4, <1>5, BeginStep

LEMMA BeginKept ==
    ASSUME OrgInv, NEW r \in Req, NEW c \in User, Begin(r, c), load' = load
    PROVE  OrgInv'
  <1>1. /\ Room(r) /\ account \subseteq User /\ 1..lastId \subseteq Nat /\ collection \subseteq Collection
        /\ Asked.cols \subseteq SUBSET Collection /\ Asked.types \subseteq Type /\ Asked.changes \subseteq Change
    BY AskedTypes DEF Begin, Room, OrgInv, OrgTypeOK
  <1>2. CASE CreateOrganization(r, c)
    BY <1>1, <1>2, CreateOrganizationStep
  <1>3. ASSUME NEW us \in Asked.batch, NEW type \in Asked.types, NEW all \in BOOLEAN, NEW cols \in Asked.cols,
               us \subseteq account, StartInvite(r, c, us, type, all, cols)
        PROVE  OrgInv'
    BY <1>1, <1>3, StartInviteStep
  <1>4. CASE "accept" \in Asked.route /\ StartAccept(r, c)
    BY <1>1, <1>4, StartAcceptStep
  <1>5. CASE StartAcceptPending(r, c) \/ StartDeleteAccount(r, c)
    BY <1>1, <1>5, StartWithUserStep DEF StartAcceptPending, StartDeleteAccount
  <1>6. ASSUME NEW i \in 1..lastId, StartConfirmOne(r, c, i) \/ StartDeleteMember(r, c, i)
        PROVE  OrgInv'
    BY <1>1, <1>6, StartConfirmOneStep, StartDeleteMemberStep
  <1>7. ASSUME NEW i \in 1..lastId, NEW new \in Asked.changes, NEW cols \in Asked.cols \cup {None},
               StartUpdate(r, c, i, new, cols)
        PROVE  OrgInv'
    BY <1>1, <1>7, StartUpdateStep
  <1>8. ASSUME NEW ids \in Asked.batch, ids \subseteq 1..lastId, StartConfirm(r, c, ids)
        PROVE  OrgInv'
    BY <1>1, <1>8, StartConfirmStep
  <1>9. ASSUME NEW us \in SUBSET account, StartCreateCollection(r, c, us)
        PROVE  OrgInv'
    BY <1>1, <1>9, StartCreateCollectionStep
  <1>10. ASSUME NEW us \in SUBSET account, NEW cs \in Asked.batch, cs \subseteq Collection,
                StartCollectionAccess(r, c, cs, us)
         PROVE  OrgInv'
    BY <1>1, <1>10, StartCollectionAccessStep
  <1>11. ASSUME NEW col \in collection, StartDeleteCollection(r, c, col)
         PROVE  OrgInv'
    BY <1>1, <1>11, StartDeleteCollectionStep
  <1> QED
    BY <1>2, <1>3, <1>4, <1>5, <1>6, <1>7, <1>8, <1>9, <1>10, <1>11 DEF Begin

-----------------------------------------------------------------------------
\* Creation, invitation, acceptance, confirmation

\* A handler in flight, with what it holds.
LEMMA Holding ==
    ASSUME OrgInv, NEW r \in Req, req[r].stage # "idle"
    PROVE  Sole(r) /\ OrgTypeOK /\ \E h \in Handler : h = req[r] /\ Sound(h)
  BY BusySole DEF OrgInv, OrgTypeOK, AllSound, At

\* The end of a request whose last query wrote nothing.
LEMMA EndStep ==
    ASSUME OrgInv, NEW r \in Req, Sole(r), Finish(r) \/ GiveUp(r) \/ Leave(r, "crash"), Unread, load' = load
    PROVE  OrgInv'
  BY Ends, IdleSound, QueryStep DEF OrgInv

\* A query that writes nothing and leaves the handler sound at its next stage.
LEMMA GoStep ==
    ASSUME OrgInv, NEW r \in Req, Sole(r), NEW stage \in Stage, Proceed(r, stage), Unread,
           halfway' \subseteq {"error", "crash"}, load' = load,
           \A g \in Handler : g.stage = stage /\ Kept(g, req[r]) => Sound(g)
    PROVE  OrgInv'
  <1>1. PICK g \in Handler : Goto(r, g) /\ g.stage = stage /\ Kept(g, req[r])
    BY Goes DEF OrgInv
  <1> QED
    BY <1>1, QueryStep

LEMMA InsertOwnerStep ==
    ASSUME OrgInv, NEW r \in Req, InsertOwner(r), load' = load
    PROVE  OrgInv'
  <1>1. PICK h \in Handler : h = req[r] /\ Sound(h) /\ h.stage = "insertOwner" /\ Sole(r) /\ OrgTypeOK
    BY Holding DEF InsertOwner, At
  <1>2. h.user \in User /\ OnlyMember
    BY <1>1 DEF Sound, UserStages, InsertOwner
  <1>3. CASE h.user \in account
    <2>1. PICK row : row = [id |-> lastId + 1, type |-> "owner", status |-> "confirmed", all |-> TRUE,
                            key |-> TRUE]
      OBVIOUS
    <2>2. member' = [member EXCEPT ![h.user] = row] /\ lastId' = lastId + 1 /\ Go(r, "insertDefault")
      BY <1>1, <1>3, <2>1 DEF InsertOwner
    <2>3. row \in Member /\ row.id = lastId + 1
      BY <1>1, <2>1 DEF OrgTypeOK, Member, Type, Status
    <2>4. PICK g \in Handler : Goto(r, g) /\ g.stage = "insertDefault" /\ Kept(g, h)
      BY <1>1, <2>2, Goes DEF Go, Stage
    <2>5. Sound(g)
      BY <1>2, <2>4 DEF Sound, Kept, InviteStages, UpdateStages, RemoveStages, UserStages
    <2>6. Ids' /\ member' \in [User -> Member \cup {None}] /\ lastId' \in Nat
      BY <1>2, <2>2, <2>3, IdsDrawn
    <2>7. halfway' \subseteq {"error", "crash"}
      BY <1>1, <2>2 DEF Go, OrgTypeOK
    <2> QED
      BY <1>1, <1>2, <2>4, <2>5, <2>6, <2>7, MemberStep
  <1>4. CASE h.user \notin account
    <2>1. GiveUp(r) /\ member' = member /\ lastId' = lastId
      BY <1>1, <1>4 DEF InsertOwner
    <2>2. Ids'
      BY <2>1, IdsKept
    <2> QED
      BY <1>1, <1>2, <2>1, <2>2, Ends, IdleSound, MemberStep DEF OrgTypeOK
  <1> QED
    BY <1>3, <1>4

LEMMA InsertCollectionStep ==
    ASSUME OrgInv, NEW r \in Req, NEW c \in Collection, InsertCollection(r, c), load' = load
    PROVE  OrgInv'
  <1>1. PICK h \in Handler : /\ h = req[r] /\ Sound(h) /\ h.stage \in {"insertDefault", "insertCollection"}
                             /\ Sole(r) /\ OrgTypeOK
    BY Holding DEF InsertCollection
  <1>2. PICK stage \in Stage : stage = IF h.stage = "insertDefault" THEN "grantOwner" ELSE "resolveUsers"
    BY DEF Stage
  <1> DEFINE g == [h EXCEPT !.cols = {c}, !.wrote = TRUE, !.stage = stage]
  <1>3. g \in Handler
    BY DEF Handler
  <1>4. g.cols = {c} /\ g.stage = stage /\ g.user = h.user
    BY DEF Handler
  <1>5. Goto(r, g)
    BY <1>1, <1>2 DEF InsertCollection, Handler
  <1> HIDE DEF g
  <1>6. Sound(g)
    BY <1>1, <1>2, <1>4 DEF Sound, InviteStages, UpdateStages, RemoveStages, UserStages
  <1>7. /\ org' = org /\ account' = account /\ member' = member /\ grant' = grant /\ lastId' = lastId
        /\ halfway' = halfway /\ collection' \subseteq Collection /\ drawn' \subseteq Collection
    BY <1>1 DEF InsertCollection, OrgTypeOK
  <1>8. Ids' /\ untold' \subseteq User
    BY <1>1, <1>7, NotingTypes, IdsKept DEF InsertCollection
  <1> QED
    BY <1>1, <1>3, <1>5, <1>6, <1>7, <1>8, HandlerStep DEF OrgTypeOK

LEMMA GrantOwnerStep ==
    ASSUME OrgInv, NEW r \in Req, GrantOwner(r), load' = load
    PROVE  OrgInv'
  <1>1. PICK h \in Handler : h = req[r] /\ Sound(h) /\ h.stage = "grantOwner" /\ Sole(r) /\ OrgTypeOK
    BY Holding DEF GrantOwner, At
  <1>2. h.user \in User /\ h.cols \subseteq Collection /\ OnlyGrant
    BY <1>1 DEF Sound, UserStages, GrantOwner
  <1>3. CASE GiveUp(r) /\ grant' = grant
    BY <1>1, <1>2, <1>3, Ends, IdleSound, GrantStep DEF OrgTypeOK
  <1>4. CASE grant' = grant \cup ({h.user} \X h.cols) /\ Go(r, "touch")
    <2>1. PICK g \in Handler : Goto(r, g) /\ g.stage = "touch"
      BY <1>1, <1>4, Goes DEF Go, Stage
    <2>2. Sound(g)
      BY <2>1 DEF Sound, InviteStages, UpdateStages, RemoveStages, UserStages
    <2>3. grant' \subseteq User \X Collection /\ halfway' \subseteq {"error", "crash"}
      BY <1>1, <1>2, <1>4 DEF OrgTypeOK, Go
    <2> QED
      BY <1>1, <1>2, <2>1, <2>2, <2>3, GrantStep
  <1> QED
    BY <1>1, <1>3, <1>4 DEF GrantOwner

LEMMA VetCollectionsStep ==
    ASSUME OrgInv, NEW r \in Req, VetCollections(r), load' = load
    PROVE  OrgInv'
  <1>1. PICK h \in Handler : h = req[r] /\ Sound(h) /\ h.stage \in {"vetInvite", "vetCols"} /\ Sole(r) /\ OrgTypeOK
    BY Holding DEF VetCollections
  <1>2. Unread
    BY DEF VetCollections
  <1>3. CASE GiveUp(r)
    BY <1>1, <1>2, <1>3, EndStep
  <1>4. CASE ~GiveUp(r)
    <2>1. PICK stage \in {"lookup", "update"} :
             Go(r, stage) /\ stage = IF h.stage = "vetInvite" THEN "lookup" ELSE "update"
      BY <1>1, <1>4 DEF VetCollections, At
    <2>2. stage \in Stage /\ Proceed(r, stage) /\ halfway' \subseteq {"error", "crash"}
      BY <1>1, <2>1 DEF Stage, Go, OrgTypeOK
    <2>3. \A g \in Handler : g.stage = stage /\ Kept(g, h) => Sound(g)
      BY <1>1, <2>1
      DEF Sound, Kept, Invites, OwnerCalls, InviteStages, UpdateStages, RemoveStages, UserStages
    <2> QED
      BY <1>1, <1>2, <2>2, <2>3, GoStep
  <1> QED
    BY <1>3, <1>4

LEMMA LookupStep ==
    ASSUME OrgInv, NEW r \in Req, Lookup(r), load' = load
    PROVE  OrgInv'
  <1>1. PICK h \in Handler : h = req[r] /\ Sound(h) /\ h.stage = "lookup" /\ Sole(r) /\ OrgTypeOK
    BY Holding DEF Lookup, At
  <1>2. Invites(h) /\ Unread
    BY <1>1 DEF Sound, InviteStages, Lookup
  <1>3. CASE GiveUp(r)
    BY <1>1, <1>2, <1>3, EndStep
  <1>4. CASE ~GiveUp(r)
    <2>1. PICK u \in h.todo : /\ Goto(r, [h EXCEPT !.stage = "insert", !.user = u, !.todo = @ \ {u}])
                              /\ halfway' = halfway
      BY <1>1, <1>4 DEF Lookup
    <2>2. PICK v \in User, todo \in SUBSET (User \cup Nat \cup Collection) :
             v = u /\ todo = h.todo \ {u} /\ todo \subseteq User
      BY <1>2, <2>1 DEF Invites
    <2> DEFINE g == [h EXCEPT !.stage = "insert", !.user = v, !.todo = todo]
    <2>3. g \in Handler
      BY DEF Handler, Stage
    <2>4. /\ g.stage = "insert" /\ g.user = v /\ g.todo = todo /\ g.new = h.new /\ g.cols = h.cols
          /\ g.ids = h.ids /\ g.caller = h.caller
      BY DEF Handler
    <2>5. Goto(r, g)
      BY <2>1, <2>2 DEF Handler
    <2> HIDE DEF g
    <2>6. Sound(g)
      BY <1>2, <2>2, <2>4
      DEF Sound, Invites, OwnerCalls, InviteStages, UpdateStages, RemoveStages, UserStages
    <2>7. halfway' \subseteq {"error", "crash"}
      BY <1>1, <2>1 DEF OrgTypeOK
    <2> QED
      BY <1>1, <1>2, <2>3, <2>5, <2>6, <2>7, QueryStep
  <1> QED
    BY <1>3, <1>4

LEMMA InsertStep ==
    ASSUME OrgInv, NEW r \in Req, Insert(r), load' = load
    PROVE  OrgInv'
  <1>1. PICK h \in Handler : h = req[r] /\ Sound(h) /\ h.stage = "insert" /\ Sole(r) /\ OrgTypeOK
    BY Holding DEF Insert, At
  <1>2. Invites(h) /\ h.user \in User /\ OnlyMember /\ h.new \in Member
    BY <1>1 DEF Sound, InviteStages, Insert, Invites, OwnerCalls
  <1>3. CASE GiveUp(r) /\ member' = member /\ lastId' = lastId
    <2>1. Ids'
      BY <1>3, IdsKept
    <2> QED
      BY <1>1, <1>2, <1>3, <2>1, Ends, IdleSound, MemberStep DEF OrgTypeOK
  <1>4. CASE ~(GiveUp(r) /\ member' = member /\ lastId' = lastId)
    <2>1. /\ member' = [member EXCEPT ![h.user] = [h.new EXCEPT !.id = lastId + 1]]
          /\ lastId' = lastId + 1 /\ halfway' = halfway
          /\ Goto(r, [h EXCEPT !.id = lastId + 1, !.wrote = TRUE,
                               !.stage = IF h.cols # {} THEN "inviteCols" ELSE "view"])
      BY <1>1, <1>4 DEF Insert
    <2>2. PICK row : row = [h.new EXCEPT !.id = lastId + 1]
      OBVIOUS
    <2>3. row \in Member /\ row.id = lastId + 1
      BY <1>1, <1>2, <2>2 DEF OrgTypeOK, Member
    <2>4. Ids' /\ member' \in [User -> Member \cup {None}] /\ lastId' \in Nat
      BY <1>2, <2>1, <2>2, <2>3, IdsDrawn
    <2>5. PICK n \in Nat, stage \in Stage :
             n = lastId + 1 /\ stage = (IF h.cols # {} THEN "inviteCols" ELSE "view")
      BY <1>1 DEF OrgTypeOK, Stage
    <2> DEFINE g == [h EXCEPT !.id = n, !.wrote = TRUE, !.stage = stage]
    <2>6. g \in Handler
      BY DEF Handler
    <2>7. /\ g.stage = stage /\ g.user = h.user /\ g.todo = h.todo /\ g.new = h.new /\ g.cols = h.cols
          /\ g.ids = h.ids /\ g.caller = h.caller
      BY DEF Handler
    <2>8. Goto(r, g)
      BY <2>1, <2>5
    <2> HIDE DEF g
    <2>9. Sound(g)
      BY <1>2, <2>5, <2>7
      DEF Sound, Invites, OwnerCalls, InviteStages, UpdateStages, RemoveStages, UserStages
    <2>10. halfway' \subseteq {"error", "crash"}
      BY <1>1, <2>1 DEF OrgTypeOK
    <2> QED
      BY <1>1, <1>2, <2>4, <2>6, <2>8, <2>9, <2>10, MemberStep
  <1> QED
    BY <1>3, <1>4

LEMMA ReplaceMemberCollectionsStep ==
    ASSUME OrgInv, NEW r \in Req, ReplaceMemberCollections(r), load' = load
    PROVE  OrgInv'
  <1>1. PICK h \in Handler : /\ h = req[r] /\ Sound(h) /\ h.stage \in {"inviteCols", "memberCols"}
                             /\ Sole(r) /\ OrgTypeOK
    BY Holding DEF ReplaceMemberCollections
  <1>2. h.user \in User /\ h.cols \subseteq Collection /\ OnlyGrant
    BY <1>1 DEF Sound, UserStages, InviteStages, Invites, ReplaceMemberCollections
  <1>3. CASE GiveUp(r) /\ grant' = grant
    BY <1>1, <1>2, <1>3, Ends, IdleSound, GrantStep DEF OrgTypeOK
  <1>4. CASE ~(GiveUp(r) /\ grant' = grant)
    <2>1. PICK stage \in {"view", "touch"} :
             /\ Go(r, stage) /\ grant' = WithoutGrants(h.user) \cup ({h.user} \X h.cols)
             /\ stage = IF h.stage = "inviteCols" THEN "view" ELSE "touch"
      BY <1>1, <1>4 DEF ReplaceMemberCollections, At
    <2>2. PICK g \in Handler : Goto(r, g) /\ g.stage = stage /\ Kept(g, h)
      BY <1>1, <2>1, Goes DEF Go, Stage
    <2>3. Sound(g)
      BY <1>1, <2>1, <2>2
      DEF Sound, Kept, Invites, OwnerCalls, InviteStages, UpdateStages, RemoveStages, UserStages
    <2>4. grant' \subseteq User \X Collection /\ halfway' \subseteq {"error", "crash"}
      BY <1>1, <1>2, <2>1 DEF OrgTypeOK, Go, WithoutGrants
    <2> QED
      BY <1>1, <1>2, <2>2, <2>3, <2>4, GrantStep
  <1> QED
    BY <1>3, <1>4

LEMMA ViewMemberStep ==
    ASSUME OrgInv, NEW r \in Req, ViewMember(r), load' = load
    PROVE  OrgInv'
  <1>1. PICK h \in Handler : h = req[r] /\ Sound(h) /\ h.stage = "view" /\ Sole(r) /\ OrgTypeOK
    BY Holding DEF ViewMember, At
  <1>2. Unread
    BY DEF ViewMember
  <1>3. CASE GiveUp(r)
    BY <1>1, <1>2, <1>3, EndStep
  <1>4. CASE ~GiveUp(r)
    <2>1. PICK stage \in {"touch", "lookup", "confirm"} :
             Go(r, stage) /\ stage = (IF h.todo = {} THEN "touch" ELSE IF h.ids = {} THEN "lookup" ELSE "confirm")
      BY <1>1, <1>4 DEF ViewMember
    <2>2. stage \in Stage /\ Proceed(r, stage) /\ halfway' \subseteq {"error", "crash"}
      BY <1>1, <2>1 DEF Stage, Go, OrgTypeOK
    <2>3. \A g \in Handler : g.stage = stage /\ Kept(g, h) => Sound(g)
      BY <1>1, <2>1
      DEF Sound, Kept, Invites, OwnerCalls, InviteStages, UpdateStages, RemoveStages, UserStages
    <2> QED
      BY <1>1, <1>2, <2>2, <2>3, GoStep
  <1> QED
    BY <1>3, <1>4

\* A write of a membership's fields, but its id, after which the handler goes on.
LEMMA EditStep ==
    ASSUME OrgInv, NEW r \in Req, Sole(r), NEW g \in Handler, Sound(g), Goto(r, g), OnlyMember, lastId' = lastId,
           halfway' \subseteq {"error", "crash"}, load' = load, member' \in [User -> Member \cup {None}],
           \A u \in User : member'[u] # None => member[u] # None /\ member'[u].id = member[u].id
    PROVE  OrgInv'
  BY IdsKept, MemberStep DEF OrgInv, OrgTypeOK

\* Rows with other fields.
LEMMA StatusEdited ==
    ASSUME NEW row \in Member, NEW status \in Status
    PROVE  [row EXCEPT !.status = status] \in Member /\ [row EXCEPT !.status = status].id = row.id
  BY DEF Member

LEMMA ConfirmEdited ==
    ASSUME NEW row \in Member
    PROVE  LET new == [row EXCEPT !.status = "confirmed", !.key = TRUE] IN
           new \in Member /\ new.id = row.id /\ new.type = row.type
  BY DEF Member, Status

LEMMA StageNames == {"touch", "confirmOne", "vetConfirm", "confirm", "view"} \subseteq Stage
  BY DEF Stage

LEMMA AcceptMemberStep ==
    ASSUME OrgInv, NEW r \in Req, AcceptMember(r), load' = load
    PROVE  OrgInv'
  <1>1. /\ req[r].stage = "accept" /\ Wrote(r, "touch") /\ lastId' = lastId /\ halfway' = halfway /\ OnlyMember
        /\ Sole(r) /\ OrgTypeOK
    BY Holding DEF AcceptMember, At
  <1>2. PICK g \in Handler : Goto(r, g) /\ g.stage = "touch"
    BY <1>1, StageNames, Writes
  <1>3. Sound(g)
    BY <1>2 DEF Sound, InviteStages, UpdateStages, RemoveStages, UserStages
  <1>4. \A u \in User : member'[u] = member[u] \/ (member[u] \in Member /\ member'[u] = [member[u] EXCEPT !.status = "accepted"])
    BY <1>1 DEF AcceptMember, IsMember, OrgTypeOK
  <1>5. ASSUME NEW u \in User
        PROVE  /\ member'[u] \in Member \cup {None}
               /\ member'[u] # None => member[u] # None /\ member'[u].id = member[u].id
    <2>1. CASE member'[u] = member[u]
      BY <1>1, <2>1 DEF OrgTypeOK
    <2>2. CASE member'[u] # member[u]
      <3>1. PICK row \in Member : row = member[u] /\ member'[u] = [row EXCEPT !.status = "accepted"]
        BY <1>4, <2>2
      <3> QED
        BY <3>1, StatusEdited, OrgNullAssumption DEF Status
    <2> QED
      BY <2>1, <2>2
  <1>6. member' \in [User -> Member \cup {None}]
    BY <1>5 DEF AcceptMember
  <1> QED
    BY <1>1, <1>2, <1>3, <1>5, <1>6, EditStep DEF OrgTypeOK

LEMMA AcceptPendingStep ==
    ASSUME OrgInv, NEW r \in Req, AcceptPending(r), load' = load
    PROVE  OrgInv'
  <1>1. /\ req[r].stage = "acceptPending" /\ Wrote(r, "touch") /\ lastId' = lastId /\ halfway' = halfway /\ OnlyMember
        /\ Sole(r) /\ OrgTypeOK
    BY Holding DEF AcceptPending, At
  <1>2. PICK g \in Handler : Goto(r, g) /\ g.stage = "touch"
    BY <1>1, StageNames, Writes
  <1>3. Sound(g)
    BY <1>2 DEF Sound, InviteStages, UpdateStages, RemoveStages, UserStages
  <1>4. \A u \in User : member'[u] = member[u] \/ (member[u] \in Member /\ member'[u] = [member[u] EXCEPT !.status = "accepted"])
    BY <1>1 DEF AcceptPending, OrgTypeOK
  <1>5. ASSUME NEW u \in User
        PROVE  /\ member'[u] \in Member \cup {None}
               /\ member'[u] # None => member[u] # None /\ member'[u].id = member[u].id
    <2>1. CASE member'[u] = member[u]
      BY <1>1, <2>1 DEF OrgTypeOK
    <2>2. CASE member'[u] # member[u]
      <3>1. PICK row \in Member : row = member[u] /\ member'[u] = [row EXCEPT !.status = "accepted"]
        BY <1>4, <2>2
      <3> QED
        BY <3>1, StatusEdited, OrgNullAssumption DEF Status
    <2> QED
      BY <2>1, <2>2
  <1>6. member' \in [User -> Member \cup {None}]
    BY <1>1, <1>5 DEF AcceptPending, OrgTypeOK
  <1> QED
    BY <1>1, <1>2, <1>3, <1>5, <1>6, EditStep DEF OrgTypeOK

LEMMA VetConfirmStep ==
    ASSUME OrgInv, NEW r \in Req, VetConfirm(r), load' = load
    PROVE  OrgInv'
  <1>1. PICK h \in Handler : h = req[r] /\ Sound(h) /\ h.stage \in {"vetOne", "vetConfirm"} /\ Sole(r) /\ OrgTypeOK
    BY Holding DEF VetConfirm
  <1>2. Unread
    BY DEF VetConfirm
  <1>3. CASE Finish(r)
    BY <1>1, <1>2, <1>3, EndStep
  <1>4. CASE ~Finish(r)
    <2>1. halfway' \subseteq {"error", "crash"}
      BY <1>1, <1>4 DEF VetConfirm, OrgTypeOK
    <2>2. PICK i \in h.todo : IF h.stage = "vetOne" THEN Proceed(r, "confirmOne")
                              ELSE IF h.todo = {i} THEN Goto(r, [h EXCEPT !.stage = "confirm", !.todo = h.ids])
                              ELSE Goto(r, [h EXCEPT !.todo = @ \ {i}])
      BY <1>1, <1>4 DEF VetConfirm, At
    <2>3. CASE h.stage = "vetOne"
      <3>1. Proceed(r, "confirmOne") /\ "confirmOne" \in Stage
        BY <2>2, <2>3 DEF Stage
      <3>2. \A g \in Handler : g.stage = "confirmOne" /\ Kept(g, h) => Sound(g)
        BY <1>1, <2>3 DEF Sound, Kept, InviteStages, UpdateStages, RemoveStages, UserStages
      <3> QED
        BY <1>1, <1>2, <2>1, <3>1, <3>2, GoStep
    <2>4. CASE h.stage = "vetConfirm"
      <3>1. PICK todo, stage :
               /\ todo = (IF h.todo = {i} THEN h.ids ELSE h.todo \ {i})
               /\ stage = (IF h.todo = {i} THEN "confirm" ELSE "vetConfirm")
        OBVIOUS
      <3>2. stage \in Stage /\ todo \subseteq Nat /\ todo \in SUBSET (User \cup Nat \cup Collection)
        <4>1. h.todo \subseteq Nat /\ h.ids \subseteq Nat
          BY <1>1, <2>4 DEF Sound, Handler
        <4> QED
          BY <3>1, <4>1, StageNames
      <3> DEFINE g == [h EXCEPT !.stage = stage, !.todo = todo]
      <3>3. g \in Handler
        BY <3>2 DEF Handler
      <3>4. g.stage = stage /\ g.todo = todo /\ g.ids = h.ids
        BY DEF Handler
      <3>5. Goto(r, g)
        BY <2>2, <2>4, <3>1 DEF Handler
      <3> HIDE DEF g
      <3>6. Sound(g)
        BY <1>1, <2>4, <3>1, <3>2, <3>4 DEF Sound, InviteStages, UpdateStages, RemoveStages, UserStages
      <3> QED
        BY <1>1, <1>2, <2>1, <3>3, <3>5, <3>6, QueryStep
    <2> QED
      BY <1>1, <2>3, <2>4
  <1> QED
    BY <1>3, <1>4

LEMMA ConfirmMemberStep ==
    ASSUME OrgInv, NEW r \in Req, ConfirmMember(r), load' = load
    PROVE  OrgInv'
  <1>1. PICK h \in Handler : h = req[r] /\ Sound(h) /\ h.stage \in {"confirmOne", "confirm"} /\ Sole(r) /\ OrgTypeOK
    BY Holding DEF ConfirmMember
  <1>2. PICK i \in h.todo :
           /\ member' = [u \in User |-> IF IsMember(u, i)
                            THEN [member[u] EXCEPT !.status = "confirmed", !.key = TRUE] ELSE member[u]]
           /\ Goto(r, [h EXCEPT !.todo = @ \ {i}, !.id = i, !.wrote = TRUE,
                                !.stage = IF @ = "confirm" THEN "view" ELSE "touch"])
    BY <1>1 DEF ConfirmMember
  <1>3. PICK n, todo, stage :
           n = i /\ todo = h.todo \ {i} /\ stage = IF h.stage = "confirm" THEN "view" ELSE "touch"
    OBVIOUS
  <1>3a. n \in Nat /\ todo \subseteq Nat /\ todo \in SUBSET (User \cup Nat \cup Collection) /\ stage \in Stage
    <2>1. h.todo \subseteq Nat
      BY <1>1 DEF Sound
    <2> QED
      BY <1>2, <1>3, <2>1, StageNames
  <1> DEFINE g == [h EXCEPT !.todo = todo, !.id = n, !.wrote = TRUE, !.stage = stage]
  <1>4. g \in Handler
    BY <1>3a DEF Handler
  <1>5. g.stage = stage /\ g.todo = todo /\ g.ids = h.ids
    BY DEF Handler
  <1>6. Goto(r, g)
    BY <1>2, <1>3 DEF Handler
  <1> HIDE DEF g
  <1>7. Sound(g)
    BY <1>1, <1>3, <1>5, <1>3a DEF Sound, InviteStages, UpdateStages, RemoveStages, UserStages
  <1>8. \A u \in User : member'[u] = member[u]
           \/ (member[u] \in Member /\ member'[u] = [member[u] EXCEPT !.status = "confirmed", !.key = TRUE])
    BY <1>1, <1>2 DEF IsMember, OrgTypeOK
  <1>9. ASSUME NEW u \in User
        PROVE  /\ member'[u] \in Member \cup {None}
               /\ member'[u] # None => member[u] # None /\ member'[u].id = member[u].id
    <2>1. CASE member'[u] = member[u]
      BY <1>1, <2>1 DEF OrgTypeOK
    <2>2. CASE member'[u] # member[u]
      <3>1. PICK row \in Member : row = member[u] /\ member'[u] = [row EXCEPT !.status = "confirmed", !.key = TRUE]
        BY <1>8, <2>2
      <3> QED
        BY <3>1, ConfirmEdited, OrgNullAssumption
    <2> QED
      BY <2>1, <2>2
  <1>10. member' \in [User -> Member \cup {None}]
    BY <1>2, <1>9
  <1> QED
    BY <1>1, <1>4, <1>6, <1>7, <1>9, <1>10, EditStep DEF OrgTypeOK, ConfirmMember

-----------------------------------------------------------------------------
\* Change and removal of a membership

LEMMA FilledTypes ==
    ASSUME NEW row \in Member, NEW change \in Change
    PROVE  LET new == Filled(row, change) IN
           /\ new \in Member /\ new.id = row.id /\ new.status = row.status /\ (row.key => new.key)
  <1>1. PICK type, all, key :
           /\ type = (IF change.type = None THEN row.type ELSE change.type)
           /\ all = (IF change.all = None THEN row.all ELSE change.all)
           /\ key = (change.key \/ row.key)
    OBVIOUS
  <1>2. change.key \in BOOLEAN /\ row.key \in BOOLEAN
    BY DEF Change, Member
  <1>3. type \in Type
    BY <1>1 DEF Change, Member
  <1>4. all \in BOOLEAN
    <2>1. change.all \in BOOLEAN \cup {None} /\ row.all \in BOOLEAN
      BY DEF Change, Member
    <2> QED
      BY <1>1, <2>1
  <1>5. key \in BOOLEAN /\ (row.key => key)
    BY <1>1, <1>2, Zenon
  <1>6. PICK new : new = [row EXCEPT !.type = type, !.all = all, !.key = key]
    OBVIOUS
  <1>7. new \in Member /\ new.id = row.id /\ new.status = row.status /\ new.key = key
    BY <1>3, <1>4, <1>5, <1>6 DEF Member
  <1>8. Filled(row, change) = new
    BY <1>1, <1>6 DEF Filled, Member
  <1> QED
    BY <1>5, <1>7, <1>8

LEMMA VetUpdateStep ==
    ASSUME OrgInv, NEW r \in Req, VetUpdate(r), load' = load
    PROVE  OrgInv'
  <1>1. PICK h \in Handler : h = req[r] /\ Sound(h) /\ h.stage = "vetUpdate" /\ Sole(r) /\ OrgTypeOK
    BY Holding DEF VetUpdate, At
  <1>2. Unread /\ halfway' \subseteq {"error", "crash"} /\ h.new \in Change
    BY <1>1 DEF VetUpdate, ReadOnly, Sound, OrgTypeOK
  <1>3. CASE req' = [req EXCEPT ![r] = Idle]
    BY <1>1, <1>2, <1>3, IdleSound, QueryStep DEF Goto
  <1>4. CASE req' # [req EXCEPT ![r] = Idle]
    <2>1. PICK u \in User :
             /\ IsMember(u, h.id) /\ Grants(h.caller, Filled(member[u], h.new).type)
             /\ Goto(r, [h EXCEPT !.user = u, !.new = Filled(member[u], h.new),
                                  !.stage = IF RemovesOwner(member[u], Filled(member[u], h.new).type)
                                            THEN "ownersUpdate" ELSE AfterOwners(h)])
      BY <1>1, <1>4 DEF VetUpdate
    <2>2. member[u] \in Member
      BY <1>1, <2>1 DEF IsMember, OrgTypeOK
    <2>3. PICK new : new = Filled(member[u], h.new)
      OBVIOUS
    <2>4. new \in Member /\ Grants(h.caller, new.type)
      BY <1>2, <2>1, <2>2, <2>3, FilledTypes
    <2>5. PICK stage : stage = IF RemovesOwner(member[u], new.type) THEN "ownersUpdate" ELSE AfterOwners(h)
      OBVIOUS
    <2>6. stage \in {"ownersUpdate", "update", "vetCols"} /\ (stage = "vetCols" => h.cols \subseteq Collection)
      BY <2>5 DEF AfterOwners, Handler
    <2>7. stage \in Stage
      BY <2>6 DEF Stage
    <2> DEFINE g == [h EXCEPT !.user = u, !.new = new, !.stage = stage]
    <2>8. g \in Handler
      BY <2>4, <2>7 DEF Handler
    <2>9. g.stage = stage /\ g.user = u /\ g.new = new /\ g.caller = h.caller /\ g.cols = h.cols
      BY DEF Handler
    <2>10. Goto(r, g)
      BY <2>1, <2>3, <2>5
    <2> HIDE DEF g
    <2>11. Sound(g)
      BY <2>4, <2>6, <2>9 DEF Sound, OwnerCalls, InviteStages, UpdateStages, RemoveStages, UserStages
    <2> QED
      BY <1>1, <1>2, <2>8, <2>10, <2>11, QueryStep
  <1> QED
    BY <1>3, <1>4

LEMMA CountOwnersStep ==
    ASSUME OrgInv, NEW r \in Req, CountOwners(r), load' = load
    PROVE  OrgInv'
  <1>1. PICK h \in Handler : /\ h = req[r] /\ Sound(h) /\ h.stage \in {"ownersUpdate", "ownersDelete"}
                             /\ Sole(r) /\ OrgTypeOK
    BY Holding DEF CountOwners
  <1>2. Unread /\ halfway' \subseteq {"error", "crash"}
    BY <1>1 DEF CountOwners, ReadOnly, OrgTypeOK
  <1>3. CASE req' = [req EXCEPT ![r] = Idle]
    BY <1>1, <1>2, <1>3, IdleSound, QueryStep DEF Goto
  <1>4. CASE req' # [req EXCEPT ![r] = Idle]
    <2>1. PICK stage : Proceed(r, stage) /\ stage = IF h.stage = "ownersUpdate" THEN AfterOwners(h) ELSE "dropGrants"
      BY <1>1, <1>4 DEF CountOwners, At
    <2>2. /\ stage \in {"update", "vetCols", "dropGrants"} /\ (stage = "vetCols" => h.cols \subseteq Collection)
          /\ stage \in {"update", "vetCols"} => h.stage = "ownersUpdate"
          /\ stage = "dropGrants" => h.stage = "ownersDelete"
      BY <1>1, <2>1 DEF AfterOwners, Handler
    <2>3. stage \in Stage
      BY <2>2 DEF Stage
    <2>4. \A g \in Handler : g.stage = stage /\ Kept(g, h) => Sound(g)
      BY <1>1, <2>2 DEF Sound, Kept, OwnerCalls, InviteStages, UpdateStages, RemoveStages, UserStages
    <2> QED
      BY <1>1, <1>2, <2>1, <2>3, <2>4, GoStep
  <1> QED
    BY <1>3, <1>4

LEMMA UpdateEdited ==
    ASSUME NEW row \in Member, NEW new \in Member
    PROVE  LET to == [row EXCEPT !.type = new.type, !.all = new.all, !.key = new.key] IN
           /\ to \in Member /\ to.id = row.id /\ to.status = row.status /\ to.type = new.type /\ to.key = new.key
  BY DEF Member

LEMMA UpdateMemberStep ==
    ASSUME OrgInv, NEW r \in Req, UpdateMember(r), load' = load
    PROVE  OrgInv'
  <1>1. PICK h \in Handler : h = req[r] /\ Sound(h) /\ h.stage = "update" /\ Sole(r) /\ OrgTypeOK
    BY Holding DEF UpdateMember, At
  <1>2. h.new \in Member /\ h.user \in User /\ OnlyMember /\ lastId' = lastId /\ halfway' = halfway
    BY <1>1 DEF Sound, UpdateStages, OwnerCalls, UpdateMember
  <1>3. PICK stage \in {"memberCols", "touch"} : Wrote(r, stage) /\ (stage = "memberCols" => h.cols \subseteq Collection)
    BY <1>1 DEF UpdateMember, Handler
  <1>4. stage \in Stage
    BY DEF Stage
  <1>5. PICK g \in Handler : Goto(r, g) /\ g.stage = stage /\ Kept(g, h)
    BY <1>1, <1>3, <1>4, Writes
  <1>6. Sound(g)
    BY <1>2, <1>3, <1>5 DEF Sound, Kept, InviteStages, UpdateStages, RemoveStages, UserStages
  <1>7. ASSUME NEW u \in User
        PROVE  /\ member'[u] \in Member \cup {None}
               /\ member'[u] # None => member[u] # None /\ member'[u].id = member[u].id
    <2>1. CASE member'[u] = member[u]
      BY <1>1, <2>1 DEF OrgTypeOK
    <2>2. CASE member'[u] # member[u]
      <3>1. /\ member[u] \in Member
            /\ member'[u] = [member[u] EXCEPT !.type = h.new.type, !.all = h.new.all, !.key = h.new.key]
        BY <1>1, <2>2 DEF UpdateMember, IsMember, OrgTypeOK
      <3>2. PICK row \in Member, new \in Member : row = member[u] /\ new = h.new
        BY <1>2, <3>1
      <3>3. PICK to : to = [row EXCEPT !.type = new.type, !.all = new.all, !.key = new.key]
        OBVIOUS
      <3>4. to \in Member /\ to.id = row.id
        BY <3>3, UpdateEdited
      <3>5. member'[u] = to
        BY <3>1, <3>2, <3>3
      <3> QED
        BY <3>1, <3>2, <3>4, <3>5, OrgNullAssumption
    <2> QED
      BY <2>1, <2>2
  <1>8. member' \in [User -> Member \cup {None}]
    BY <1>7 DEF UpdateMember
  <1> QED
    BY <1>1, <1>2, <1>5, <1>6, <1>7, <1>8, EditStep DEF OrgTypeOK

LEMMA VetDeleteStep ==
    ASSUME OrgInv, NEW r \in Req, VetDelete(r), load' = load
    PROVE  OrgInv'
  <1>1. PICK h \in Handler : h = req[r] /\ Sound(h) /\ h.stage = "vetDelete" /\ Sole(r) /\ OrgTypeOK
    BY Holding DEF VetDelete, At
  <1>2. Unread /\ halfway' \subseteq {"error", "crash"}
    BY <1>1 DEF VetDelete, ReadOnly, OrgTypeOK
  <1>3. CASE req' = [req EXCEPT ![r] = Idle]
    BY <1>1, <1>2, <1>3, IdleSound, QueryStep DEF Goto
  <1>4. CASE req' # [req EXCEPT ![r] = Idle]
    <2>1. PICK u \in User, stage \in {"ownersDelete", "dropGrants"} : Goto(r, [h EXCEPT !.user = u, !.stage = stage])
      BY <1>1, <1>4 DEF VetDelete
    <2>2. stage \in Stage
      BY DEF Stage
    <2> DEFINE g == [h EXCEPT !.user = u, !.stage = stage]
    <2>3. g \in Handler
      BY <2>2 DEF Handler
    <2>4. g.stage = stage /\ g.user = u
      BY DEF Handler
    <2>5. Goto(r, g)
      BY <2>1
    <2> HIDE DEF g
    <2>6. Sound(g)
      BY <2>4 DEF Sound, InviteStages, UpdateStages, RemoveStages, UserStages
    <2> QED
      BY <1>1, <1>2, <2>3, <2>5, <2>6, QueryStep
  <1> QED
    BY <1>3, <1>4

\* A handler that only takes grants away, and goes on with the user it has.
LEMMA FewerGrantsStep ==
    ASSUME OrgInv, NEW r \in Req, Sole(r), grant' \subseteq grant, NEW stage \in Stage, Wrote(r, stage),
           halfway' = halfway, OnlyGrant, load' = load,
           \A g \in Handler : g.stage = stage /\ Kept(g, req[r]) => Sound(g)
    PROVE  OrgInv'
  <1>1. PICK g \in Handler : Goto(r, g) /\ g.stage = stage /\ Kept(g, req[r])
    BY Writes DEF OrgInv
  <1>2. Sound(g) /\ grant' \subseteq User \X Collection /\ halfway' \subseteq {"error", "crash"}
    BY <1>1 DEF OrgInv, OrgTypeOK
  <1> QED
    BY <1>1, <1>2, GrantStep

LEMMA DropGrantsStep ==
    ASSUME OrgInv, NEW r \in Req, DropGrants(r), load' = load
    PROVE  OrgInv'
  <1>1. PICK h \in Handler : h = req[r] /\ Sound(h) /\ h.stage = "dropGrants" /\ Sole(r) /\ OrgTypeOK
    BY Holding DEF DropGrants, At
  <1>2. grant' \subseteq grant /\ Wrote(r, "dropMember") /\ halfway' = halfway /\ OnlyGrant
    BY DEF DropGrants, WithoutGrants
  <1>3. \A g \in Handler : g.stage = "dropMember" /\ Kept(g, h) => Sound(g)
    BY <1>1 DEF Sound, Kept, InviteStages, UpdateStages, RemoveStages, UserStages
  <1>4. "dropMember" \in Stage
    BY DEF Stage
  <1> QED
    BY <1>1, <1>2, <1>3, <1>4, FewerGrantsStep

LEMMA DropMemberStep ==
    ASSUME OrgInv, NEW r \in Req, DropMember(r), load' = load
    PROVE  OrgInv'
  <1>1. PICK h \in Handler : h = req[r] /\ Sound(h) /\ h.stage = "dropMember" /\ Sole(r) /\ OrgTypeOK
    BY Holding DEF DropMember, At
  <1>2. h.user \in User
    BY <1>1 DEF Sound, UserStages, RemoveStages
  <1>3. PICK us \in SUBSET User : us = {h.user}
    BY <1>2
  <1> DEFINE g == [h EXCEPT !.stage = "touch", !.users = us]
  <1>4. g \in Handler
    BY StageNames DEF Handler
  <1>5. g.stage = "touch"
    BY DEF Handler
  <1>6. Goto(r, g)
    BY <1>1, <1>3 DEF DropMember
  <1> HIDE DEF g
  <1>7. Sound(g)
    BY <1>5 DEF Sound, InviteStages, UpdateStages, RemoveStages, UserStages
  <1>8. /\ lastId' = lastId /\ halfway' = halfway /\ OnlyMember
        /\ \A u \in User : member'[u] = member[u] \/ member'[u] = None
    BY DEF DropMember
  <1>9. member' \in [User -> Member \cup {None}]
    BY <1>1 DEF DropMember, OrgTypeOK
  <1>10. \A u \in User : member'[u] # None => member[u] # None /\ member'[u].id = member[u].id
    BY <1>8
  <1> QED
    BY <1>1, <1>4, <1>6, <1>7, <1>8, <1>9, <1>10, EditStep DEF OrgTypeOK

LEMMA ResolveStep ==
    ASSUME OrgInv, NEW r \in Req, Resolve(r), load' = load
    PROVE  OrgInv'
  <1>1. PICK h \in Handler : h = req[r] /\ Sound(h) /\ h.stage = "resolve" /\ Sole(r) /\ OrgTypeOK
    BY Holding DEF Resolve, At
  <1>2. Unread
    BY DEF Resolve
  <1>3. CASE GiveUp(r)
    BY <1>1, <1>2, <1>3, EndStep
  <1>4. CASE ~GiveUp(r)
    <2>1. PICK c \in collection :
             /\ Goto(r, [h EXCEPT !.stage = "resolveUsers", !.cols = {c}, !.todo = @ \ {c}])
             /\ halfway' = halfway
      BY <1>1, <1>4 DEF Resolve
    <2>2. PICK cols, todo : cols = {c} /\ todo = h.todo \ {c}
      OBVIOUS
    <2>3. cols \subseteq Collection /\ todo \subseteq User \cup Nat \cup Collection
      BY <1>1, <2>2 DEF OrgTypeOK, Handler
    <2> DEFINE g == [h EXCEPT !.stage = "resolveUsers", !.cols = cols, !.todo = todo]
    <2>4. g \in Handler
      BY <2>3 DEF Handler, Stage
    <2>5. g.stage = "resolveUsers" /\ g.cols = cols
      BY DEF Handler
    <2>6. Goto(r, g)
      BY <2>1, <2>2 DEF Handler
    <2> HIDE DEF g
    <2>7. Sound(g)
      BY <2>3, <2>5 DEF Sound, InviteStages, UpdateStages, RemoveStages, UserStages
    <2>8. halfway' \subseteq {"error", "crash"}
      BY <1>1, <2>1 DEF OrgTypeOK
    <2> QED
      BY <1>1, <1>2, <2>4, <2>6, <2>7, <2>8, QueryStep
  <1> QED
    BY <1>3, <1>4

LEMMA ResolveUsersStep ==
    ASSUME OrgInv, NEW r \in Req, ResolveUsers(r), load' = load
    PROVE  OrgInv'
  <1>1. PICK h \in Handler : h = req[r] /\ Sound(h) /\ h.stage = "resolveUsers" /\ Sole(r) /\ OrgTypeOK
    BY Holding DEF ResolveUsers, At
  <1>2. Unread
    BY DEF ResolveUsers
  <1>3. CASE GiveUp(r)
    BY <1>1, <1>2, <1>3, EndStep
  <1>4. CASE ~GiveUp(r)
    <2>1. Proceed(r, "replaceUsers") /\ "replaceUsers" \in Stage /\ halfway' \subseteq {"error", "crash"}
      BY <1>1, <1>4 DEF ResolveUsers, Go, OrgTypeOK, Stage
    <2>2. \A g \in Handler : g.stage = "replaceUsers" /\ Kept(g, h) => Sound(g)
      BY <1>1 DEF Sound, Kept, InviteStages, UpdateStages, RemoveStages, UserStages
    <2> QED
      BY <1>1, <1>2, <2>1, <2>2, GoStep
  <1> QED
    BY <1>3, <1>4

LEMMA ReplaceUsersStep ==
    ASSUME OrgInv, NEW r \in Req, ReplaceUsers(r), load' = load
    PROVE  OrgInv'
  <1>1. PICK h \in Handler : h = req[r] /\ Sound(h) /\ h.stage = "replaceUsers" /\ Sole(r) /\ OrgTypeOK
    BY Holding DEF ReplaceUsers, At
  <1>2. h.users \subseteq User /\ h.cols \subseteq Collection /\ OnlyGrant
    BY <1>1 DEF Sound, ReplaceUsers, Handler
  <1>3. CASE GiveUp(r) /\ grant' = grant
    BY <1>1, <1>2, <1>3, Ends, IdleSound, GrantStep DEF OrgTypeOK
  <1>4. CASE ~(GiveUp(r) /\ grant' = grant)
    <2>1. PICK stage \in {"resolve", "touch"} :
             /\ Wrote(r, stage) /\ grant' = {g \in grant : g[2] \notin h.cols} \cup (h.users \X h.cols)
             /\ halfway' = halfway
      BY <1>1, <1>4 DEF ReplaceUsers
    <2>2. stage \in Stage
      BY DEF Stage
    <2>3. PICK g \in Handler : Goto(r, g) /\ g.stage = stage
      BY <1>1, <2>1, <2>2, Writes
    <2>4. Sound(g)
      BY <2>3 DEF Sound, InviteStages, UpdateStages, RemoveStages, UserStages
    <2>5. grant' \subseteq User \X Collection /\ halfway' \subseteq {"error", "crash"}
      BY <1>1, <1>2, <2>1 DEF OrgTypeOK
    <2> QED
      BY <1>1, <1>2, <2>3, <2>4, <2>5, GrantStep
  <1> QED
    BY <1>3, <1>4

LEMMA DropCollectionGrantsStep ==
    ASSUME OrgInv, NEW r \in Req, DropCollectionGrants(r), load' = load
    PROVE  OrgInv'
  <1>1. Sole(r) /\ At(r, "dropCollectionGrants")
    BY Holding DEF DropCollectionGrants, At
  <1>2. grant' \subseteq grant /\ Wrote(r, "dropCollection") /\ halfway' = halfway /\ OnlyGrant
    BY DEF DropCollectionGrants
  <1>3. \A g \in Handler : g.stage = "dropCollection" => Sound(g)
    BY DEF Sound, InviteStages, UpdateStages, RemoveStages, UserStages
  <1>4. "dropCollection" \in Stage
    BY DEF Stage
  <1> QED
    BY <1>1, <1>2, <1>3, <1>4, FewerGrantsStep

LEMMA DropCollectionStep ==
    ASSUME OrgInv, NEW r \in Req, DropCollection(r), load' = load
    PROVE  OrgInv'
  <1>1. Sole(r) /\ OrgTypeOK
    BY Holding DEF DropCollection, At
  <1>2. PICK g \in Handler : Goto(r, g) /\ g.stage = "touch"
    BY <1>1, StageNames, Goes DEF DropCollection
  <1>3. Sound(g)
    BY <1>2 DEF Sound, InviteStages, UpdateStages, RemoveStages, UserStages
  <1>4. /\ org' = org /\ account' = account /\ member' = member /\ lastId' = lastId /\ drawn' = drawn
        /\ halfway' = halfway /\ collection' \subseteq Collection /\ grant' \subseteq User \X Collection
    BY <1>1 DEF DropCollection, OrgTypeOK
  <1>5. Ids' /\ untold' \subseteq User
    BY <1>1, <1>4, NotingTypes, IdsKept DEF DropCollection
  <1> QED
    BY <1>1, <1>2, <1>3, <1>4, <1>5, HandlerStep DEF OrgTypeOK

LEMMA AccountGrantsStep ==
    ASSUME OrgInv, NEW r \in Req, AccountGrants(r), load' = load
    PROVE  OrgInv'
  <1>1. PICK h \in Handler : h = req[r] /\ Sound(h) /\ h.stage = "accountGrants" /\ Sole(r) /\ OrgTypeOK
    BY Holding DEF AccountGrants, At
  <1>2. grant' \subseteq grant /\ Wrote(r, "accountMember") /\ halfway' = halfway /\ OnlyGrant
    BY DEF AccountGrants, WithoutGrants
  <1>3. \A g \in Handler : g.stage = "accountMember" /\ Kept(g, h) => Sound(g)
    BY <1>1 DEF Sound, Kept, InviteStages, UpdateStages, RemoveStages, UserStages
  <1>4. "accountMember" \in Stage
    BY DEF Stage
  <1> QED
    BY <1>1, <1>2, <1>3, <1>4, FewerGrantsStep

\* A membership that ends.
LEMMA WithoutMember ==
    ASSUME OrgInv, NEW u \in User, member' = [member EXCEPT ![u] = None], lastId' = lastId
    PROVE  /\ member' \in [User -> Member \cup {None}] /\ Ids'
           /\ \A v \in User : member'[v] = IF v = u THEN None ELSE member[v]
  <1>1. member \in [User -> Member \cup {None}]
    BY DEF OrgInv, OrgTypeOK
  <1>2. \A v \in User : member'[v] = IF v = u THEN None ELSE member[v]
    BY <1>1
  <1>3. Ids'
    BY <1>2, IdsKept
  <1> QED
    BY <1>1, <1>2, <1>3

LEMMA AccountMemberStep ==
    ASSUME OrgInv, NEW r \in Req, AccountMember(r), load' = load
    PROVE  OrgInv'
  <1>1. PICK h \in Handler : h = req[r] /\ Sound(h) /\ h.stage = "accountMember" /\ Sole(r) /\ OrgTypeOK
    BY Holding DEF AccountMember, At
  <1>2. /\ h.user \in User /\ member' = [member EXCEPT ![h.user] = None] /\ lastId' = lastId
        /\ Proceed(r, "account") /\ "account" \in Stage /\ OnlyMember /\ halfway' = halfway
    BY <1>1 DEF Sound, UserStages, AccountMember, Stage
  <1>3. PICK g \in Handler : Goto(r, g) /\ g.stage = "account" /\ Kept(g, h)
    BY <1>1, <1>2, Goes
  <1>4. Sound(g)
    BY <1>2, <1>3 DEF Sound, Kept, InviteStages, UpdateStages, RemoveStages, UserStages
  <1> QED
    BY <1>1, <1>2, <1>3, <1>4, WithoutMember, MemberStep DEF OrgTypeOK

LEMMA DeleteUserStep ==
    ASSUME OrgInv, NEW r \in Req, DeleteUser(r), load' = load
    PROVE  OrgInv'
  <1>1. PICK h \in Handler : h = req[r] /\ Sound(h) /\ h.stage = "account" /\ Sole(r) /\ OrgTypeOK
    BY Holding DEF DeleteUser, At
  <1>2. /\ h.user \in User /\ member' = [member EXCEPT ![h.user] = None] /\ lastId' = lastId /\ Finish(r)
        /\ org' = org /\ collection' = collection /\ drawn' = drawn /\ Noting
        /\ account' \subseteq User /\ grant' \subseteq User \X Collection
    BY <1>1 DEF Sound, UserStages, DeleteUser, OrgTypeOK, WithoutGrants
  <1>3. Goto(r, Idle) /\ halfway' \subseteq {"error", "crash"}
    BY <1>1, <1>2, Ends
  <1>4. untold' \subseteq User /\ Ids' /\ member' \in [User -> Member \cup {None}]
    BY <1>1, <1>2, NotingTypes, WithoutMember
  <1> QED
    BY <1>1, <1>2, <1>3, <1>4, IdleSound, HandlerStep DEF OrgTypeOK

LEMMA TouchStep ==
    ASSUME OrgInv, NEW r \in Req, Touch(r), load' = load
    PROVE  OrgInv'
  <1>1. Sole(r) /\ OrgTypeOK
    BY Holding DEF Touch, At
  <1>2. /\ org' = org /\ account' = account /\ member' = member /\ collection' = collection /\ grant' = grant
        /\ lastId' = lastId /\ drawn' = drawn /\ untold' \subseteq User /\ Finish(r)
    BY <1>1 DEF Touch, OrgTypeOK
  <1>3. Goto(r, Idle) /\ halfway' \subseteq {"error", "crash"}
    BY <1>1, <1>2, Ends
  <1>4. Ids'
    BY <1>2, IdsKept
  <1> QED
    BY <1>1, <1>2, <1>3, <1>4, IdleSound, HandlerStep DEF OrgTypeOK

LEMMA CrashStep == ASSUME OrgInv, NEW r \in Req, Crash(r), load' = load PROVE OrgInv'
  <1>1. Sole(r) /\ Unread /\ Leave(r, "crash")
    BY Holding DEF Crash, At
  <1> QED
    BY <1>1, EndStep

-----------------------------------------------------------------------------
\* Every step, and the start

LEMMA OrgStart == ASSUME OrgInit PROVE OrgInv
  <1>1. req \in [Req -> Handler] /\ \A r \in Req : req[r] = Idle
    BY IdleSound DEF OrgInit
  <1>2. member \in [User -> Member \cup {None}] /\ Members = {}
    BY DEF OrgInit, Members
  <1>3. OrgTypeOK
    BY <1>1, <1>2 DEF OrgInit, OrgTypeOK
  <1>4. AllSound /\ AtMostOne
    BY <1>1, IdleSound DEF AllSound, AtMostOne, At
  <1> QED
    BY <1>2, <1>3, <1>4 DEF OrgInv, Ids

LEMMA ContinueKept ==
    ASSUME OrgInv, NEW r \in Req, Continue(r), load' = load
    PROVE  OrgInv'
  BY InsertOwnerStep, InsertCollectionStep, GrantOwnerStep, VetCollectionsStep, LookupStep, InsertStep,
     ReplaceMemberCollectionsStep, ViewMemberStep, AcceptMemberStep, AcceptPendingStep, VetConfirmStep,
     ConfirmMemberStep, VetUpdateStep, CountOwnersStep, UpdateMemberStep, VetDeleteStep, DropGrantsStep,
     DropMemberStep, ResolveStep, ResolveUsersStep, ReplaceUsersStep, DropCollectionGrantsStep,
     DropCollectionStep, AccountGrantsStep, AccountMemberStep, DeleteUserStep, TouchStep, CrashStep DEF Continue

LEMMA OrgIdle == ASSUME OrgInv, UNCHANGED orgVars PROVE OrgInv'
  <1>1. OrgTypeOK'
    BY DEF OrgInv, OrgTypeOK, orgVars
  <1>2. AllSound'
    BY DEF OrgInv, AllSound, orgVars, Sound, Invites, OwnerCalls, Asked
  <1>3. AtMostOne'
    BY DEF OrgInv, AtMostOne, Sole, At, OneAtATime, Asked, orgVars
  <1>4. Ids'
    BY DEF OrgInv, Ids, Members, orgVars
  <1> QED
    BY <1>1, <1>2, <1>3, <1>4 DEF OrgInv

LEMMA OrgStep == ASSUME OrgInv, [OrgNext]_orgVars PROVE OrgInv'
  <1>1. CASE OrgNext
    <2>1. PICK r \in Req : load' = load /\ ((\E c \in User : Begin(r, c)) \/ Continue(r))
      BY <1>1 DEF OrgNext
    <2> QED
      BY <2>1, BeginKept, ContinueKept
  <1> QED
    BY <1>1, OrgIdle

\* Whatever steps the handlers take and in whatever order, the tables and the handlers hold
\* what the schema and the code let them hold.
THEOREM OrgTypeCorrect == OrgSpec => []OrgTypeOK
  <1>1. OrgInv => OrgTypeOK
    BY DEF OrgInv
  <1> QED
    BY <1>1, OrgStart, OrgStep, PTL DEF OrgSpec

-----------------------------------------------------------------------------
\* Who makes owners

\* The queries that write memberships.
LEMMA MembersWritten ==
    ASSUME NEW r \in Req, Continue(r), member' # member
    PROVE  \/ InsertOwner(r) \/ Insert(r) \/ AcceptMember(r) \/ AcceptPending(r) \/ ConfirmMember(r)
           \/ UpdateMember(r) \/ DropMember(r) \/ AccountMember(r) \/ DeleteUser(r)
  BY DEF Continue, Unread, ReadOnly, OnlyGrant, InsertCollection, GrantOwner, VetCollections, Lookup,
     ReplaceMemberCollections, ViewMember, VetConfirm, VetUpdate, CountOwners, VetDelete, DropGrants, Resolve,
     ResolveUsers, ReplaceUsers, DropCollectionGrants, DropCollection, AccountGrants, Touch, Crash

LEMMA MembersLeft == ASSUME NEW r \in Req, NEW c \in User, Begin(r, c) PROVE member' = member
  BY DEF Begin, ReadOnly, Unread, CreateOrganization, StartInvite, StartAccept, StartAcceptPending,
     StartConfirmOne, StartConfirm, StartUpdate, StartDeleteMember, StartCreateCollection,
     StartCollectionAccess, StartDeleteCollection, StartDeleteAccount



\* What becomes of the row of u, by each of them.
IsRow(row, id, type, status, key) ==
    /\ row \in Member
    /\ row.id = id /\ row.type = type /\ row.status = status /\ row.key = key

LEMMA AcceptWrites ==
    ASSUME OrgInv, NEW r \in Req, AcceptMember(r), NEW u \in User
    PROVE  \/ member'[u] = member[u]
           \/ /\ IsMember(u, req[r].id)
              /\ IsRow(member'[u], member[u].id, member[u].type, "accepted", member[u].key)
  <1> SUFFICES ASSUME member'[u] # member[u]
               PROVE  /\ IsMember(u, req[r].id)
                      /\ IsRow(member'[u], member[u].id, member[u].type, "accepted", member[u].key)
    OBVIOUS
  <1>1. IsMember(u, req[r].id) /\ member'[u] = [member[u] EXCEPT !.status = "accepted"]
    BY DEF AcceptMember
  <1>2. PICK row \in Member : row = member[u]
    BY <1>1 DEF IsMember, OrgInv, OrgTypeOK
  <1>3. PICK to : to = [row EXCEPT !.status = "accepted"]
    OBVIOUS
  <1>4. IsRow(to, row.id, row.type, "accepted", row.key)
    BY <1>3 DEF IsRow, Member, Status
  <1> QED
    BY <1>1, <1>2, <1>3, <1>4

LEMMA AcceptPendingWrites ==
    ASSUME OrgInv, NEW r \in Req, AcceptPending(r), NEW u \in User
    PROVE  \/ member'[u] = member[u]
           \/ /\ member[u] \in Member /\ member[u].status = "invited"
              /\ IsRow(member'[u], member[u].id, member[u].type, "accepted", member[u].key)
  <1> SUFFICES ASSUME member'[u] # member[u]
               PROVE  /\ member[u] \in Member /\ member[u].status = "invited"
                      /\ IsRow(member'[u], member[u].id, member[u].type, "accepted", member[u].key)
    OBVIOUS
  <1>1. /\ member[u] \in Member /\ member[u].status = "invited"
        /\ member'[u] = [member[u] EXCEPT !.status = "accepted"]
    BY DEF AcceptPending, OrgInv, OrgTypeOK
  <1>2. PICK row \in Member : row = member[u]
    BY <1>1
  <1>3. PICK to : to = [row EXCEPT !.status = "accepted"]
    OBVIOUS
  <1>4. IsRow(to, row.id, row.type, "accepted", row.key)
    BY <1>3 DEF IsRow, Member, Status
  <1> QED
    BY <1>1, <1>2, <1>3, <1>4

LEMMA ConfirmWrites ==
    ASSUME OrgInv, NEW r \in Req, ConfirmMember(r), NEW u \in User
    PROVE  \/ member'[u] = member[u]
           \/ member[u] \in Member /\ IsRow(member'[u], member[u].id, member[u].type, "confirmed", TRUE)
  <1> SUFFICES ASSUME member'[u] # member[u]
               PROVE  /\ member[u] \in Member
                      /\ IsRow(member'[u], member[u].id, member[u].type, "confirmed", TRUE)
    OBVIOUS
  <1>1. member[u] \in Member /\ member'[u] = [member[u] EXCEPT !.status = "confirmed", !.key = TRUE]
    BY DEF ConfirmMember, IsMember, OrgInv, OrgTypeOK
  <1>2. PICK row \in Member : row = member[u]
    BY <1>1
  <1>3. PICK to : to = [row EXCEPT !.status = "confirmed", !.key = TRUE]
    OBVIOUS
  <1>4. IsRow(to, row.id, row.type, "confirmed", TRUE)
    BY <1>3 DEF IsRow, Member, Status
  <1> QED
    BY <1>1, <1>2, <1>3, <1>4

LEMMA UpdateWrites ==
    ASSUME OrgInv, NEW r \in Req, UpdateMember(r), NEW u \in User
    PROVE  \/ member'[u] = member[u]
           \/ /\ IsMember(u, req[r].id)
              /\ IsRow(member'[u], member[u].id, req[r].new.type, member[u].status, req[r].new.key)
  <1> SUFFICES ASSUME member'[u] # member[u]
               PROVE  /\ IsMember(u, req[r].id)
                      /\ IsRow(member'[u], member[u].id, req[r].new.type, member[u].status, req[r].new.key)
    OBVIOUS
  <1>1. PICK new \in Member : new = req[r].new
    <2>1. OwnerCalls(req[r])
      BY Holding DEF UpdateMember, At, Sound, UpdateStages
    <2> QED
      BY <2>1 DEF OwnerCalls
  <1>2. /\ IsMember(u, req[r].id)
        /\ member'[u] = [member[u] EXCEPT !.type = new.type, !.all = new.all, !.key = new.key]
    BY <1>1 DEF UpdateMember
  <1>3. PICK row \in Member : row = member[u]
    BY <1>2 DEF IsMember, OrgInv, OrgTypeOK
  <1>4. PICK to : to = [row EXCEPT !.type = new.type, !.all = new.all, !.key = new.key]
    OBVIOUS
  <1>5. IsRow(to, row.id, new.type, row.status, new.key)
    BY <1>4 DEF IsRow, Member
  <1> QED
    BY <1>1, <1>2, <1>3, <1>4, <1>5

LEMMA InsertWrites ==
    ASSUME OrgInv, NEW r \in Req, Insert(r), NEW u \in User
    PROVE  \/ member'[u] = member[u]
           \/ /\ member[u] = None /\ u = req[r].user
              /\ IsRow(member'[u], lastId + 1, req[r].new.type, "invited", req[r].new.key)
  <1> SUFFICES ASSUME member'[u] # member[u]
               PROVE  /\ member[u] = None /\ u = req[r].user
                      /\ IsRow(member'[u], lastId + 1, req[r].new.type, "invited", req[r].new.key)
    OBVIOUS
  <1>1. PICK new \in Member : new = req[r].new /\ new.status = "invited" /\ req[r].user \in User
    <2>1. Invites(req[r]) /\ req[r].user \in User
      BY Holding DEF Insert, At, Sound, InviteStages
    <2> QED
      BY <2>1 DEF Invites, OwnerCalls
  <1>2. member[u] = None /\ u = req[r].user /\ member'[u] = [new EXCEPT !.id = lastId + 1]
    BY <1>1 DEF Insert, OrgInv, OrgTypeOK
  <1>3. PICK n \in Nat : n = lastId + 1
    BY DEF OrgInv, OrgTypeOK
  <1>4. PICK to : to = [new EXCEPT !.id = n]
    OBVIOUS
  <1>5. IsRow(to, n, new.type, "invited", new.key)
    BY <1>1, <1>4 DEF IsRow, Member
  <1> QED
    BY <1>1, <1>2, <1>3, <1>4, <1>5

LEMMA OwnerWrites ==
    ASSUME OrgInv, NEW r \in Req, InsertOwner(r), NEW u \in User
    PROVE  \/ member'[u] = member[u]
           \/ u = req[r].user /\ IsRow(member'[u], lastId + 1, "owner", "confirmed", TRUE)
  <1> SUFFICES ASSUME member'[u] # member[u]
               PROVE  u = req[r].user /\ IsRow(member'[u], lastId + 1, "owner", "confirmed", TRUE)
    OBVIOUS
  <1>1. req[r].user \in User
    BY Holding DEF InsertOwner, At, Sound, UserStages
  <1>2. PICK n \in Nat : n = lastId + 1
    BY DEF OrgInv, OrgTypeOK
  <1>3. PICK to : to = [id |-> n, type |-> "owner", status |-> "confirmed", all |-> TRUE, key |-> TRUE]
    OBVIOUS
  <1>4. u = req[r].user /\ member'[u] = to
    BY <1>1, <1>2, <1>3 DEF InsertOwner, OrgInv, OrgTypeOK
  <1>5. IsRow(to, n, "owner", "confirmed", TRUE)
    BY <1>3 DEF IsRow, Member, Type, Status
  <1> QED
    BY <1>2, <1>4, <1>5

LEMMA DropWrites ==
    ASSUME OrgInv, NEW r \in Req, DropMember(r) \/ AccountMember(r) \/ DeleteUser(r), NEW u \in User
    PROVE  /\ member'[u] = member[u] \/ member'[u] = None
           /\ member'[u] # member[u] => (IF DropMember(r) THEN IsMember(u, req[r].id) ELSE u = req[r].user)
  BY DEF DropMember, AccountMember, DeleteUser, OrgInv, OrgTypeOK

\* A row that becomes an owner's.
LEMMA OwnerMade ==
    ASSUME OrgInv, OrgInv', NEW r \in Req, Continue(r), NEW u \in User, ~OwnerType(u), OwnerType(u)'
    PROVE  req'[r] # req[r] /\ (req[r].caller = "owner" \/ At(r, "insertOwner"))
  <1>1. /\ OrgTypeOK /\ member' # member /\ member'[u] # member[u] /\ member'[u].type = "owner" /\ member'[u] # None
        /\ member[u] \in Member => member[u].type # "owner"
    BY OrgNullAssumption DEF OrgInv, OwnerType
  <1>2. CASE InsertOwner(r)
    <2>1. At(r, "insertOwner") /\ (GiveUp(r) \/ Go(r, "insertDefault"))
      BY <1>2 DEF InsertOwner
    <2>2. PICK g \in Handler : Goto(r, g) /\ g.stage # "insertOwner"
      BY <1>1, <2>1, Goes, Ends, IdleSound DEF Go, Stage
    <2> QED
      BY <1>1, <2>1, <2>2 DEF At, Goto, OrgTypeOK
  <1>3. CASE Insert(r) \/ UpdateMember(r)
    <2>1. PICK h \in Handler : h = req[r] /\ Sound(h) /\ h.stage \in {"insert", "update"}
      BY <1>3, Holding DEF Insert, UpdateMember, At
    <2>2. OwnerCalls(h)
      BY <2>1 DEF Sound, Invites, InviteStages, UpdateStages
    <2>3. h.new.type = "owner"
      BY <1>1, <1>3, <2>1, InsertWrites, UpdateWrites DEF IsRow
    <2>4. CASE Insert(r)
      <3>1. member[u] = None /\ u = h.user
        BY <1>1, <2>1, <2>4, InsertWrites
      <3>2. Goto(r, [h EXCEPT !.id = lastId + 1, !.wrote = TRUE,
                              !.stage = IF h.cols # {} THEN "inviteCols" ELSE "view"])
        BY <1>1, <2>1, <2>4, <3>1 DEF Insert
      <3>3. req'[r].stage # h.stage
        BY <1>1, <2>1, <2>4, <3>2 DEF Insert, At, Goto, OrgTypeOK, Handler
      <3> QED
        BY <2>1, <2>2, <2>3, <3>3 DEF OwnerCalls, Grants
    <2>5. CASE UpdateMember(r)
      <3>1. PICK stage \in {"memberCols", "touch"} : Wrote(r, stage) /\ h.stage = "update"
        BY <2>1, <2>5 DEF UpdateMember, At
      <3>2. stage \in Stage
        BY DEF Stage
      <3>3. PICK g \in Handler : Goto(r, g) /\ g.stage = stage
        BY <1>1, <3>1, <3>2, Writes
      <3>4. req'[r].stage # h.stage
        BY <1>1, <3>1, <3>3 DEF Goto, OrgTypeOK
      <3> QED
        BY <2>1, <2>2, <2>3, <3>4 DEF OwnerCalls, Grants
    <2> QED
      BY <1>3, <2>4, <2>5
  <1>4. ~AcceptMember(r) /\ ~AcceptPending(r) /\ ~ConfirmMember(r)
    <2>1. member[u] \in Member => member'[u].type # member[u].type
      BY <1>1
    <2> QED
      BY <1>1, <2>1, AcceptWrites, AcceptPendingWrites, ConfirmWrites DEF IsRow, IsMember, OrgTypeOK
  <1>5. ~(DropMember(r) \/ AccountMember(r) \/ DeleteUser(r))
    BY <1>1, DropWrites
  <1> QED
    BY <1>1, <1>2, <1>3, <1>4, <1>5, MembersWritten

\* However handlers interleave, a membership turns into an owner's only by a step of the handler
\* that creates the organization, or of one that has read its caller to be an owner.
THEOREM OwnersMade == OrgSpec => OwnersByOwners
  <1>1. ASSUME OrgInv, [OrgNext]_orgVars, NEW u \in User, ~OwnerType(u), OwnerType(u)'
        PROVE  \E r \in Req : /\ req'[r] # req[r]
                              /\ req[r].caller = "owner" \/ At(r, "insertOwner")
    <2>1. member' # member
      BY <1>1 DEF OwnerType
    <2>2. PICK r \in Req : (\E c \in User : Begin(r, c)) \/ Continue(r)
      BY <1>1, <2>1 DEF OrgNext, orgVars
    <2>3. Continue(r)
      BY <2>1, <2>2, MembersLeft
    <2> QED
      BY <1>1, <2>3, OrgStep, OwnerMade
  <1>2. OrgInv /\ [OrgNext]_orgVars =>
           [\A u \in User : ~OwnerType(u) /\ OwnerType(u)' =>
               \E r \in Req : /\ req'[r] # req[r]
                              /\ req[r].caller = "owner" \/ At(r, "insertOwner")]_orgVars
    BY <1>1
  <1> QED
    BY <1>2, OrgStart, OrgStep, PTL DEF OrgSpec, OwnersByOwners

-----------------------------------------------------------------------------
\* One handler at a time

\* A handler in flight alone, with what it can rely on.
LEMMA AloneHolding ==
    ASSUME OrgInv, AloneInv, OneAtATime, NEW r \in Req, req[r].stage # "idle"
    PROVE  /\ Sole(r) /\ OrgTypeOK /\ Ids
           /\ \E h \in Handler : h = req[r] /\ Sound(h) /\ Alone(h) /\ Owing(h)
           /\ \A u \in User : Confirmed(u) => member[u].key
           /\ \A x \in grant : x[1] \in Members
  <1>1. Alone(req[r]) /\ Owing(req[r])
    BY DEF AloneInv, At
  <1>2. \E h \in Handler : h = req[r] /\ Sound(h) /\ Alone(h) /\ Owing(h)
    BY <1>1, Holding
  <1> QED
    BY <1>2, Holding DEF AloneInv, ConfirmedHasKey, GrantsToMembers, OrgInv

\* A step of the one handler there is, after which it holds g.
LEMMA AloneStep ==
    ASSUME OrgInv, OneAtATime, NEW r \in Req, Sole(r), NEW g \in Handler, Goto(r, g), load' = load,
           \A u \in User : Confirmed(u)' => member'[u].key,
           \A x \in grant' : x[1] \in Members',
           g.stage = "idle" /\ halfway' = {} => untold' \cap account' = {},
           g.stage # "idle" => Alone(g)' /\ Owing(g)'
    PROVE  AloneInv'
  <1>1. \A s \in Req : req'[s] = IF s = r THEN g ELSE req[s]
    BY DEF OrgInv, OrgTypeOK, Goto
  <1>2. \A s \in Req : s # r => At(s, "idle")'
    BY <1>1 DEF Sole, At
  <1>3. Told'
    BY <1>1 DEF Told, InFlight, At
  <1>4. ASSUME NEW s \in Req, ~At(s, "idle")'
        PROVE  Alone(req[s])' /\ Owing(req[s])'
    <2>1. s = r /\ req'[s] = g /\ g.stage # "idle"
      BY <1>1, <1>2, <1>4 DEF At
    <2>2. Alone(g)' /\ Owing(g)'
      BY <2>1
    <2> QED
      BY <2>1, <2>2 DEF Alone, Owing
  <1>5. ConfirmedHasKey' /\ GrantsToMembers'
    BY DEF ConfirmedHasKey, GrantsToMembers
  <1> QED
    BY <1>3, <1>4, <1>5 DEF AloneInv

\* A query that writes nothing: what it relies on afterwards is so already.
LEMMA QueryAlone ==
    ASSUME OrgInv, AloneInv, OneAtATime, NEW r \in Req, ~At(r, "idle"), NEW g \in Handler, Goto(r, g),
           load' = load, Unread, halfway' = halfway, g.stage # "idle", Alone(g), Owing(g)
    PROVE  AloneInv'
  <1>1. Sole(r) /\ (\A u \in User : Confirmed(u) => member[u].key) /\ \A x \in grant : x[1] \in Members
    BY AloneHolding DEF At
  <1>2. (\A u \in User : Confirmed(u)' => member'[u].key) /\ \A x \in grant' : x[1] \in Members'
    BY <1>1 DEF Unread, Confirmed, Members
  <1>3. Alone(g)'
    BY DEF Unread, Alone, Confirmed, Members, IsMember, OtherOwner, Owners, RemovesOwner
  <1>4. Owing(g)'
    BY DEF Unread, Owing, Members
  <1> QED
    BY <1>1, <1>2, <1>3, <1>4, AloneStep

\* The end of a request: answered with nothing left to tell, or ended half way.
LEMMA EndAlone ==
    ASSUME OrgInv, AloneInv, OneAtATime, NEW r \in Req, ~At(r, "idle"), load' = load, Unread,
           GiveUp(r) \/ Leave(r, "crash") \/ (Finish(r) /\ ~req[r].wrote)
    PROVE  AloneInv'
  <1>1. /\ Sole(r) /\ OrgTypeOK /\ (\A u \in User : Confirmed(u) => member[u].key)
        /\ (\A x \in grant : x[1] \in Members) /\ Owing(req[r])
    BY AloneHolding DEF At
  <1>2. (\A u \in User : Confirmed(u)' => member'[u].key) /\ \A x \in grant' : x[1] \in Members'
    BY <1>1 DEF Unread, Confirmed, Members
  <1>3. Goto(r, Idle) /\ halfway \subseteq halfway'
    BY <1>1, Ends
  <1>3a. req[r].wrote => halfway' # {}
    BY DEF GiveUp, Leave
  <1>4. halfway' = {} => untold' \cap account' = {}
    BY <1>1, <1>3, <1>3a DEF Unread, Owing
  <1> QED
    BY <1>1, <1>2, <1>3, <1>4, IdleSound, AloneStep

\* Whom a handler has to tell when it goes on, or has written more.
DropStages == {"dropMember", "accountMember", "account"}

LEMMA OwingGoes ==
    ASSUME NEW h \in Handler, NEW g \in Handler, Owing(h), g.wrote = h.wrote, g.users = h.users,
           g.stage \notin Written, g.stage \in Silent => h.stage \in Silent, h.stage \notin DropStages
    PROVE  Owing(g)
  BY DEF Owing, Written, Silent, DropStages

\* Who sees the organization otherwise was, or is, a member.
LEMMA ViewsOfMembers ==
    ASSUME Noting, NEW u \in untold' PROVE u \in untold \/ (u \in User /\ View(u)' # View(u) /\ u \in Members \cup Members')
  <1>1. u \in untold \/ (u \in User /\ View(u)' # View(u))
    BY DEF Noting
  <1>2. ASSUME u \in User, View(u)' # View(u)
        PROVE  u \in Members \cup Members'
    <2>1. Confirmed(u) \/ Confirmed(u)'
      BY <1>2 DEF View
    <2> QED
      BY <1>2, <2>1 DEF Confirmed, Members
  <1> QED
    BY <1>1, <1>2

LEMMA OwingWrites ==
    ASSUME NEW h \in Handler, NEW g \in Handler, Owing(h), g.wrote = TRUE, g.users = h.users,
           g.stage \notin Silent \cup DropStages, h.stage \notin DropStages, Noting, Members \subseteq Members',
           account' = account, halfway' = halfway
    PROVE  Owing(g)'
  <1>1. halfway = {} => untold \cap account \subseteq Members \cup h.users
    BY DEF Owing, DropStages
  <1>2. halfway' = {} => untold' \cap account' \subseteq Members' \cup g.users
    BY <1>1, ViewsOfMembers
  <1> QED
    BY <1>2 DEF Owing, DropStages, Silent

\* A write that changes nothing is no write.
LEMMA NothingWritten ==
    ASSUME OrgInv, Noting, member' = member, collection' = collection, grant' = grant, org' = org,
           account' = account, drawn' = drawn, lastId' = lastId
    PROVE  Unread
  <1>1. \A u \in User : View(u)' = View(u)
    BY DEF View, Confirmed, Visible
  <1>2. untold' = untold
    BY <1>1 DEF Noting
  <1> QED
    BY <1>2 DEF Unread

\* Requests that begin, none being in flight.
FirstStages == {"insertOwner", "vetInvite", "accept", "acceptPending", "vetOne", "vetConfirm", "vetUpdate",
                "vetDelete", "insertCollection", "resolve", "dropCollectionGrants", "accountGrants"}

First(h, c) ==
    /\ h.stage \in FirstStages /\ (h.wrote <=> h.stage = "insertOwner")
    /\ h.stage = "accept" => h.id = member[c].id /\ IsMember(c, h.id) /\ member[c].status = "invited"

LEMMA BeginFirst ==
    ASSUME NEW r \in Req, NEW c \in User, Begin(r, c)
    PROVE  \E h : Start(r, h) /\ First(h, c)
  <1>2. CASE StartAccept(r, c)
    <2> DEFINE h == [Idle EXCEPT !.stage = "accept", !.id = member[c].id]
    <2>1. h.stage = "accept" /\ h.id = member[c].id /\ h.wrote = FALSE
      BY DEF Idle
    <2>2. Start(r, h) /\ member[c] # None /\ member[c].status = "invited"
      BY <1>2 DEF StartAccept
    <2> HIDE DEF h
    <2> QED
      BY <2>1, <2>2 DEF First, FirstStages, IsMember
  <1>3. CASE CreateOrganization(r, c)
    <2> DEFINE h == [Idle EXCEPT !.stage = "insertOwner", !.user = c, !.wrote = TRUE]
    <2>1. h.stage = "insertOwner" /\ h.wrote = TRUE
      BY DEF Idle
    <2>2. Start(r, h)
      BY <1>3 DEF CreateOrganization
    <2> HIDE DEF h
    <2> QED
      BY <2>1, <2>2 DEF First, FirstStages
  <1>4. ASSUME NEW us, NEW type, NEW all, NEW cols, StartInvite(r, c, us, type, all, cols)
        PROVE  \E h : Start(r, h) /\ First(h, c)
    <2> DEFINE h == [Idle EXCEPT !.stage = "vetInvite", !.caller = member[c].type, !.todo = us, !.cols = cols,
                                 !.new = [id |-> 0, type |-> type, status |-> "invited", all |-> all,
                                          key |-> FALSE]]
    <2>1. h.stage = "vetInvite" /\ h.wrote = FALSE
      BY DEF Idle
    <2>2. Start(r, h)
      BY <1>4 DEF StartInvite
    <2> HIDE DEF h
    <2> QED
      BY <2>1, <2>2 DEF First, FirstStages
  <1>5. CASE StartAcceptPending(r, c)
    <2> DEFINE h == [Idle EXCEPT !.stage = "acceptPending", !.user = c]
    <2>1. h.stage = "acceptPending" /\ h.wrote = FALSE
      BY DEF Idle
    <2>2. Start(r, h)
      BY <1>5 DEF StartAcceptPending
    <2> HIDE DEF h
    <2> QED
      BY <2>1, <2>2 DEF First, FirstStages
  <1>6. ASSUME NEW i, StartConfirmOne(r, c, i)
        PROVE  \E h : Start(r, h) /\ First(h, c)
    <2> DEFINE h == [Idle EXCEPT !.stage = "vetOne", !.caller = member[c].type, !.todo = {i}]
    <2>1. h.stage = "vetOne" /\ h.wrote = FALSE
      BY DEF Idle
    <2>2. Start(r, h)
      BY <1>6 DEF StartConfirmOne
    <2> HIDE DEF h
    <2> QED
      BY <2>1, <2>2 DEF First, FirstStages
  <1>7. ASSUME NEW ids, StartConfirm(r, c, ids)
        PROVE  \E h : Start(r, h) /\ First(h, c)
    <2> DEFINE h == [Idle EXCEPT !.stage = "vetConfirm", !.caller = member[c].type, !.todo = ids, !.ids = ids]
    <2>1. h.stage = "vetConfirm" /\ h.wrote = FALSE
      BY DEF Idle
    <2>2. Start(r, h)
      BY <1>7 DEF StartConfirm
    <2> HIDE DEF h
    <2> QED
      BY <2>1, <2>2 DEF First, FirstStages
  <1>8. ASSUME NEW i, NEW new, NEW cols, StartUpdate(r, c, i, new, cols)
        PROVE  \E h : Start(r, h) /\ First(h, c)
    <2> DEFINE h == [Idle EXCEPT !.stage = "vetUpdate", !.caller = member[c].type, !.id = i, !.cols = cols,
                                 !.new = new]
    <2>1. h.stage = "vetUpdate" /\ h.wrote = FALSE
      BY DEF Idle
    <2>2. Start(r, h)
      BY <1>8 DEF StartUpdate
    <2> HIDE DEF h
    <2> QED
      BY <2>1, <2>2 DEF First, FirstStages
  <1>9. ASSUME NEW i, StartDeleteMember(r, c, i)
        PROVE  \E h : Start(r, h) /\ First(h, c)
    <2> DEFINE h == [Idle EXCEPT !.stage = "vetDelete", !.caller = member[c].type, !.id = i]
    <2>1. h.stage = "vetDelete" /\ h.wrote = FALSE
      BY DEF Idle
    <2>2. Start(r, h)
      BY <1>9 DEF StartDeleteMember
    <2> HIDE DEF h
    <2> QED
      BY <2>1, <2>2 DEF First, FirstStages
  <1>10. ASSUME NEW us, StartCreateCollection(r, c, us)
         PROVE  \E h : Start(r, h) /\ First(h, c)
    <2> DEFINE h == [Idle EXCEPT !.stage = "insertCollection", !.caller = member[c].type, !.users = us]
    <2>1. h.stage = "insertCollection" /\ h.wrote = FALSE
      BY DEF Idle
    <2>2. Start(r, h)
      BY <1>10 DEF StartCreateCollection
    <2> HIDE DEF h
    <2> QED
      BY <2>1, <2>2 DEF First, FirstStages
  <1>11. ASSUME NEW cs, NEW us, StartCollectionAccess(r, c, cs, us)
         PROVE  \E h : Start(r, h) /\ First(h, c)
    <2> DEFINE h == [Idle EXCEPT !.stage = "resolve", !.caller = member[c].type, !.todo = cs, !.users = us]
    <2>1. h.stage = "resolve" /\ h.wrote = FALSE
      BY DEF Idle
    <2>2. Start(r, h)
      BY <1>11 DEF StartCollectionAccess
    <2> HIDE DEF h
    <2> QED
      BY <2>1, <2>2 DEF First, FirstStages
  <1>12. ASSUME NEW col, StartDeleteCollection(r, c, col)
         PROVE  \E h : Start(r, h) /\ First(h, c)
    <2> DEFINE h == [Idle EXCEPT !.stage = "dropCollectionGrants", !.caller = member[c].type, !.cols = {col}]
    <2>1. h.stage = "dropCollectionGrants" /\ h.wrote = FALSE
      BY DEF Idle
    <2>2. Start(r, h)
      BY <1>12 DEF StartDeleteCollection
    <2> HIDE DEF h
    <2> QED
      BY <2>1, <2>2 DEF First, FirstStages
  <1>13. CASE StartDeleteAccount(r, c)
    <2> DEFINE h == [Idle EXCEPT !.stage = "accountGrants", !.user = c]
    <2>1. h.stage = "accountGrants" /\ h.wrote = FALSE
      BY DEF Idle
    <2>2. Start(r, h)
      BY <1>13 DEF StartDeleteAccount
    <2> HIDE DEF h
    <2> QED
      BY <2>1, <2>2 DEF First, FirstStages
  <1> QED
    BY <1>2, <1>3, <1>4, <1>5, <1>6, <1>7, <1>8, <1>9, <1>10, <1>11, <1>12, <1>13 DEF Begin

LEMMA BeginAlone ==
    ASSUME OrgInv, OrgInv', AloneInv, OneAtATime, NEW r \in Req, NEW c \in User, Begin(r, c), load' = load
    PROVE  AloneInv'
  <1>1. Sole(r) /\ InFlight = {} /\ OrgTypeOK /\ OrgTypeOK' /\ Ids
    BY BeginSole DEF Begin, OrgInv
  <1>2. PICK h : Start(r, h) /\ First(h, c)
    BY BeginFirst
  <1>3. h \in Handler /\ Goto(r, h)
    BY <1>1, <1>2 DEF Start, Goto, OrgTypeOK
  <1>4. /\ account' = account /\ member' = member /\ grant' = grant /\ untold' = untold /\ halfway' = halfway
        /\ collection' = collection
    BY DEF Begin, ReadOnly, Unread, CreateOrganization, StartInvite, StartAccept, StartAcceptPending,
       StartConfirmOne, StartConfirm, StartUpdate, StartDeleteMember, StartCreateCollection,
       StartCollectionAccess, StartDeleteCollection, StartDeleteAccount
  <1>5. /\ \A u \in User : Confirmed(u)' => member'[u].key
        /\ \A x \in grant' : x[1] \in Members'
        /\ halfway' = {} => untold' \cap account' = {}
    BY <1>1, <1>4 DEF AloneInv, ConfirmedHasKey, GrantsToMembers, Told, Confirmed, Members
  <1>6. Alone(h)'
    <2>1. h.stage = "accept" => \A u \in User : IsMember(u, h.id)' => member'[u].status = "invited"
      BY <1>1, <1>2, <1>4 DEF First, IsMember, Ids, Members
    <2> QED
      BY <1>2, <2>1 DEF First, FirstStages, Alone, UpdateStages, RemoveStages
  <1>7. Owing(h)'
    BY <1>2, <1>5 DEF First, FirstStages, Owing, Silent, Written
  <1> QED
    BY <1>1, <1>2, <1>3, <1>5, <1>6, <1>7, AloneStep DEF First, FirstStages

-----------------------------------------------------------------------------
\* Queries of the one handler that write nothing

\* Where the stage alone changes.
LEMMA GoAlone ==
    ASSUME OrgInv, AloneInv, OneAtATime, NEW r \in Req, ~At(r, "idle"), load' = load, Unread, halfway' = halfway,
           NEW stage \in Stage, Proceed(r, stage), stage \notin Written, stage \in Silent => req[r].stage \in Silent,
           req[r].stage \notin DropStages, stage # "idle",
           \A g \in Handler : g.stage = stage /\ Kept(g, req[r]) => Alone(g)
    PROVE  AloneInv'
  <1>1. PICK h \in Handler : h = req[r] /\ Owing(h) /\ OrgTypeOK
    BY AloneHolding DEF At
  <1>2. PICK g \in Handler : Goto(r, g) /\ g.stage = stage /\ Kept(g, h) /\ g.wrote = h.wrote
    BY <1>1, Goes
  <1>3. Alone(g) /\ g.users = h.users
    BY <1>1, <1>2 DEF Kept
  <1>4. Owing(g)
    BY <1>1, <1>2, <1>3, OwingGoes
  <1> QED
    BY <1>2, <1>3, <1>4, QueryAlone

LEMMA VetCollectionsAlone ==
    ASSUME OrgInv, AloneInv, OneAtATime, NEW r \in Req, VetCollections(r), load' = load
    PROVE  AloneInv'
  <1>1. PICK h \in Handler : h = req[r] /\ Alone(h) /\ h.stage \in {"vetInvite", "vetCols"} /\ ~At(r, "idle")
    BY AloneHolding DEF VetCollections, At
  <1>2. Unread
    BY DEF VetCollections
  <1>3. CASE GiveUp(r)
    BY <1>1, <1>2, <1>3, EndAlone
  <1>4. CASE ~GiveUp(r)
    <2>1. PICK stage \in {"lookup", "update"} :
             Go(r, stage) /\ stage = IF h.stage = "vetInvite" THEN "lookup" ELSE "update"
      BY <1>1, <1>4 DEF VetCollections, At
    <2>2. /\ stage \in Stage /\ Proceed(r, stage) /\ halfway' = halfway /\ stage \notin Written /\ stage \notin Silent
          /\ h.stage \notin DropStages /\ stage # "idle"
      BY <1>1, <2>1 DEF Stage, Go, Written, Silent, DropStages
    <2>3. \A g \in Handler : g.stage = stage /\ Kept(g, h) => Alone(g)
      BY <1>1, <2>1 DEF Alone, Kept, UpdateStages, RemoveStages
    <2> QED
      BY <1>1, <1>2, <2>2, <2>3, GoAlone
  <1> QED
    BY <1>3, <1>4

LEMMA LookupAlone ==
    ASSUME OrgInv, OrgInv', AloneInv, OneAtATime, NEW r \in Req, Lookup(r), load' = load
    PROVE  AloneInv'
  <1>1. PICK h \in Handler : h = req[r] /\ Owing(h) /\ h.stage = "lookup" /\ ~At(r, "idle")
    BY AloneHolding DEF Lookup, At
  <1>2. Unread
    BY DEF Lookup
  <1>3. CASE GiveUp(r)
    BY <1>1, <1>2, <1>3, EndAlone
  <1>4. CASE ~GiveUp(r)
    <2>1. PICK u : Goto(r, [h EXCEPT !.stage = "insert", !.user = u, !.todo = @ \ {u}]) /\ halfway' = halfway
      BY <1>1, <1>4 DEF Lookup
    <2> DEFINE g == [h EXCEPT !.stage = "insert", !.user = u, !.todo = @ \ {u}]
    <2>2. g.stage = "insert" /\ g.wrote = h.wrote /\ g.users = h.users
      BY DEF Handler
    <2>3. Goto(r, g)
      BY <2>1
    <2> HIDE DEF g
    <2>4. g \in Handler
      BY <2>3 DEF Goto, OrgInv, OrgTypeOK
    <2>5. Alone(g)
      BY <2>2 DEF Alone, UpdateStages, RemoveStages
    <2>6. Owing(g)
      BY <1>1, <2>2, <2>4, OwingGoes DEF Written, Silent, DropStages
    <2> QED
      BY <1>1, <1>2, <2>1, <2>2, <2>3, <2>4, <2>5, <2>6, QueryAlone
  <1> QED
    BY <1>3, <1>4

LEMMA ViewMemberAlone ==
    ASSUME OrgInv, AloneInv, OneAtATime, NEW r \in Req, ViewMember(r), load' = load
    PROVE  AloneInv'
  <1>1. PICK h \in Handler : h = req[r] /\ h.stage = "view" /\ ~At(r, "idle")
    BY AloneHolding DEF ViewMember, At
  <1>2. Unread
    BY DEF ViewMember
  <1>3. CASE GiveUp(r)
    BY <1>1, <1>2, <1>3, EndAlone
  <1>4. CASE ~GiveUp(r)
    <2>1. PICK stage \in {"touch", "lookup", "confirm"} : Go(r, stage)
      BY <1>1, <1>4 DEF ViewMember
    <2>2. /\ stage \in Stage /\ Proceed(r, stage) /\ halfway' = halfway /\ stage \notin Written /\ stage \notin Silent
          /\ h.stage \notin DropStages /\ stage # "idle"
      BY <1>1, <2>1 DEF Stage, Go, Written, Silent, DropStages
    <2>3. \A g \in Handler : g.stage = stage => Alone(g)
      BY <2>1 DEF Alone, UpdateStages, RemoveStages
    <2> QED
      BY <1>1, <1>2, <2>2, <2>3, GoAlone
  <1> QED
    BY <1>3, <1>4

LEMMA VetConfirmAlone ==
    ASSUME OrgInv, OrgInv', AloneInv, OneAtATime, NEW r \in Req, VetConfirm(r), load' = load
    PROVE  AloneInv'
  <1>1. PICK h \in Handler : /\ h = req[r] /\ Owing(h) /\ h.stage \in {"vetOne", "vetConfirm"} /\ ~At(r, "idle")
                             /\ OrgTypeOK
    BY AloneHolding DEF VetConfirm, At
  <1>2. Unread /\ ~h.wrote /\ h.stage \in Silent
    BY <1>1 DEF VetConfirm, Owing, Silent
  <1>3. CASE Finish(r)
    BY <1>1, <1>2, <1>3, EndAlone
  <1>4. CASE ~Finish(r)
    <2>1. PICK g : Goto(r, g) /\ g.stage \in {"confirmOne", "vetConfirm", "confirm"} /\ g.wrote = h.wrote
                   /\ g.users = h.users /\ halfway' = halfway
      <3>1. CASE At(r, "vetOne")
        <4>1. Proceed(r, "confirmOne") /\ halfway' = halfway
          BY <1>1, <1>4, <3>1 DEF VetConfirm
        <4> QED
          BY <1>1, <4>1, StageNames, Goes DEF Kept
      <3>2. CASE ~At(r, "vetOne")
        <4>1. PICK i : \/ Goto(r, [h EXCEPT !.stage = "confirm", !.todo = h.ids])
                       \/ Goto(r, [h EXCEPT !.todo = @ \ {i}])
          BY <1>1, <1>4, <3>2 DEF VetConfirm
        <4>2. halfway' = halfway
          BY <1>1, <1>4 DEF VetConfirm
        <4>3. PICK g : Goto(r, g) /\ (g = [h EXCEPT !.stage = "confirm", !.todo = h.ids] \/ g = [h EXCEPT !.todo = @ \ {i}])
          BY <4>1
        <4>4. g.stage \in {"confirm", h.stage} /\ g.wrote = h.wrote /\ g.users = h.users
          BY <4>3 DEF Handler
        <4> QED
          BY <1>1, <3>2, <4>2, <4>3, <4>4 DEF At
      <3> QED
        BY <3>1, <3>2
    <2>2. g \in Handler
      BY <2>1 DEF Goto, OrgInv, OrgTypeOK
    <2>3. Alone(g)
      BY <2>1 DEF Alone, UpdateStages, RemoveStages
    <2>4. Owing(g)
      BY <1>1, <1>2, <2>1, <2>2, OwingGoes DEF Written, DropStages
    <2> QED
      BY <1>1, <1>2, <2>1, <2>2, <2>3, <2>4, QueryAlone
  <1> QED
    BY <1>3, <1>4

\* The row an update asks for keeps the key of a confirmed member.
LEMMA VetUpdateAlone ==
    ASSUME OrgInv, OrgInv', AloneInv, OneAtATime, NEW r \in Req, VetUpdate(r), load' = load
    PROVE  AloneInv'
  <1>1. PICK h \in Handler : /\ h = req[r] /\ Sound(h) /\ Owing(h) /\ h.stage = "vetUpdate" /\ ~At(r, "idle")
                             /\ OrgTypeOK
    BY AloneHolding DEF VetUpdate, At
  <1>2. Unread /\ halfway' = halfway /\ ~h.wrote /\ h.new \in Change
    BY <1>1 DEF VetUpdate, ReadOnly, Owing, Silent, Sound
  <1>3. CASE req' = [req EXCEPT ![r] = Idle]
    BY <1>1, <1>2, <1>3, EndAlone DEF Finish
  <1>4. CASE req' # [req EXCEPT ![r] = Idle]
    <2>1. PICK u \in User :
             /\ IsMember(u, h.id)
             /\ Goto(r, [h EXCEPT !.user = u, !.new = Filled(member[u], h.new),
                                  !.stage = IF RemovesOwner(member[u], Filled(member[u], h.new).type)
                                            THEN "ownersUpdate" ELSE AfterOwners(h)])
      BY <1>1, <1>4 DEF VetUpdate
    <2>2. PICK new, stage :
             /\ new = Filled(member[u], h.new)
             /\ stage = IF RemovesOwner(member[u], new.type) THEN "ownersUpdate" ELSE AfterOwners(h)
      OBVIOUS
    <2>3. member[u] \in Member /\ (member[u].key => new.key)
      BY <1>1, <1>2, <2>1, <2>2, FilledTypes DEF IsMember, OrgTypeOK
    <2>4. Confirmed(u) => new.key
      BY <2>3, AloneHolding, <1>1
    <2> DEFINE g == [h EXCEPT !.user = u, !.new = new, !.stage = stage]
    <2>5. g.stage = stage /\ g.user = u /\ g.new = new /\ g.id = h.id /\ g.wrote = h.wrote /\ g.users = h.users
      BY DEF Handler
    <2>6. Goto(r, g)
      BY <2>1, <2>2
    <2> HIDE DEF g
    <2>7. g \in Handler
      BY <2>6 DEF Goto, OrgInv, OrgTypeOK
    <2>8. stage \in UpdateStages /\ (stage # "ownersUpdate" => ~RemovesOwner(member[u], new.type))
      BY <2>2 DEF UpdateStages, AfterOwners
    <2>9. Alone(g)
      BY <2>1, <2>4, <2>5, <2>8 DEF Alone, UpdateStages, RemoveStages
    <2>10. Owing(g)
      BY <1>1, <2>5, <2>7, <2>8, OwingGoes DEF Written, Silent, DropStages, UpdateStages
    <2> QED
      BY <1>1, <1>2, <2>5, <2>6, <2>7, <2>8, <2>9, <2>10, QueryAlone DEF UpdateStages
  <1> QED
    BY <1>3, <1>4

\* More than one owner, and so one beside u.
LEMMA SecondOwner == ASSUME NEW u, ~(Cardinality(Owners) <= 1) PROVE OtherOwner(u)
  <1> SUFFICES ASSUME ~OtherOwner(u) PROVE Cardinality(Owners) <= 1
    OBVIOUS
  <1>1. Owners = {} \/ Owners = {u}
    BY DEF OtherOwner
  <1>2. Cardinality({u}) = 1 /\ Cardinality({}) = 0
    BY FS_Singleton, FS_EmptySet
  <1> QED
    BY <1>1, <1>2

LEMMA CountOwnersAlone ==
    ASSUME OrgInv, AloneInv, OneAtATime, NEW r \in Req, CountOwners(r), load' = load
    PROVE  AloneInv'
  <1>1. PICK h \in Handler : /\ h = req[r] /\ Alone(h) /\ Owing(h) /\ h.stage \in {"ownersUpdate", "ownersDelete"}
                             /\ ~At(r, "idle")
    BY AloneHolding DEF CountOwners, At
  <1>2. Unread /\ halfway' = halfway /\ ~h.wrote /\ h.stage \in Silent
    BY <1>1 DEF CountOwners, ReadOnly, Owing, Silent
  <1>3. CASE Cardinality(Owners) <= 1
    BY <1>1, <1>2, <1>3, EndAlone DEF Finish, CountOwners
  <1>4. CASE ~(Cardinality(Owners) <= 1)
    <2>1. PICK stage : Proceed(r, stage) /\ stage = IF h.stage = "ownersUpdate" THEN AfterOwners(h) ELSE "dropGrants"
      BY <1>1, <1>4 DEF CountOwners, At
    <2>2. /\ stage \in {"update", "vetCols", "dropGrants"}
          /\ IF stage = "dropGrants" THEN h.stage = "ownersDelete" ELSE h.stage = "ownersUpdate"
      BY <1>1, <2>1 DEF AfterOwners
    <2>3. /\ stage \in Stage /\ stage \notin Written /\ h.stage \notin DropStages /\ stage # "idle"
      BY <1>1, <2>2 DEF Stage, Written, DropStages
    <2>4. OtherOwner(h.user)
      BY <1>4, SecondOwner
    <2>5. \A g \in Handler : g.stage = stage /\ Kept(g, h) => Alone(g)
      BY <1>1, <2>2, <2>4 DEF Alone, Kept, UpdateStages, RemoveStages
    <2> QED
      BY <1>1, <1>2, <2>1, <2>3, <2>5, GoAlone
  <1> QED
    BY <1>3, <1>4

LEMMA VetDeleteAlone ==
    ASSUME OrgInv, OrgInv', AloneInv, OneAtATime, NEW r \in Req, VetDelete(r), load' = load
    PROVE  AloneInv'
  <1>1. PICK h \in Handler : /\ h = req[r] /\ Owing(h) /\ h.stage = "vetDelete" /\ ~At(r, "idle") /\ OrgTypeOK
    BY AloneHolding DEF VetDelete, At
  <1>2. Unread /\ halfway' = halfway /\ ~h.wrote
    BY <1>1 DEF VetDelete, ReadOnly, Owing, Silent
  <1>3. CASE req' = [req EXCEPT ![r] = Idle]
    BY <1>1, <1>2, <1>3, EndAlone DEF Finish
  <1>4. CASE req' # [req EXCEPT ![r] = Idle]
    <2>1. PICK u \in User : /\ IsMember(u, h.id)
                            /\ Goto(r, [h EXCEPT !.user = u, !.stage = IF RemovesOwner(member[u], None)
                                                                       THEN "ownersDelete" ELSE "dropGrants"])
      BY <1>1, <1>4 DEF VetDelete
    <2>2. PICK stage : stage = IF RemovesOwner(member[u], None) THEN "ownersDelete" ELSE "dropGrants"
      OBVIOUS
    <2> DEFINE g == [h EXCEPT !.user = u, !.stage = stage]
    <2>3. g.stage = stage /\ g.user = u /\ g.id = h.id /\ g.wrote = h.wrote /\ g.users = h.users
      BY DEF Handler
    <2>4. Goto(r, g)
      BY <2>1, <2>2
    <2> HIDE DEF g
    <2>5. g \in Handler
      BY <2>4 DEF Goto, OrgInv, OrgTypeOK
    <2>6. Alone(g)
      BY <2>1, <2>2, <2>3 DEF Alone, UpdateStages, RemoveStages
    <2>7. Owing(g)
      BY <1>1, <2>2, <2>3, <2>5, OwingGoes DEF Written, Silent, DropStages
    <2> QED
      BY <1>1, <1>2, <2>2, <2>3, <2>4, <2>5, <2>6, <2>7, QueryAlone
  <1> QED
    BY <1>3, <1>4

LEMMA ResolveAlone ==
    ASSUME OrgInv, OrgInv', AloneInv, OneAtATime, NEW r \in Req, Resolve(r), load' = load
    PROVE  AloneInv'
  <1>1. PICK h \in Handler : h = req[r] /\ Owing(h) /\ h.stage = "resolve" /\ ~At(r, "idle")
    BY AloneHolding DEF Resolve, At
  <1>2. Unread
    BY DEF Resolve
  <1>3. CASE GiveUp(r)
    BY <1>1, <1>2, <1>3, EndAlone
  <1>4. CASE ~GiveUp(r)
    <2>1. PICK c : /\ Goto(r, [h EXCEPT !.stage = "resolveUsers", !.cols = {c}, !.todo = @ \ {c}])
                   /\ halfway' = halfway
      BY <1>1, <1>4 DEF Resolve
    <2> DEFINE g == [h EXCEPT !.stage = "resolveUsers", !.cols = {c}, !.todo = @ \ {c}]
    <2>2. g.stage = "resolveUsers" /\ g.wrote = h.wrote /\ g.users = h.users
      BY DEF Handler
    <2>3. Goto(r, g)
      BY <2>1
    <2> HIDE DEF g
    <2>4. g \in Handler
      BY <2>3 DEF Goto, OrgInv, OrgTypeOK
    <2>5. Alone(g)
      BY <2>2 DEF Alone, UpdateStages, RemoveStages
    <2>6. Owing(g)
      BY <1>1, <2>2, <2>4, OwingGoes DEF Written, Silent, DropStages
    <2> QED
      BY <1>1, <1>2, <2>1, <2>2, <2>3, <2>4, <2>5, <2>6, QueryAlone
  <1> QED
    BY <1>3, <1>4

LEMMA ResolveUsersAlone ==
    ASSUME OrgInv, AloneInv, OneAtATime, NEW r \in Req, ResolveUsers(r), load' = load
    PROVE  AloneInv'
  <1>1. PICK h \in Handler : h = req[r] /\ h.stage = "resolveUsers" /\ ~At(r, "idle")
    BY AloneHolding DEF ResolveUsers, At
  <1>2. Unread
    BY DEF ResolveUsers
  <1>3. CASE GiveUp(r)
    BY <1>1, <1>2, <1>3, EndAlone
  <1>4. CASE ~GiveUp(r)
    <2>1. Go(r, "replaceUsers") /\ h.users \subseteq Members
      BY <1>1, <1>4 DEF ResolveUsers
    <2>2. /\ "replaceUsers" \in Stage /\ "replaceUsers" \notin Written \cup Silent /\ halfway' = halfway
          /\ h.stage \notin DropStages /\ Proceed(r, "replaceUsers")
      BY <1>1, <2>1 DEF Stage, Go, Written, Silent, DropStages
    <2>3. \A g \in Handler : g.stage = "replaceUsers" /\ Kept(g, h) => Alone(g)
      BY <2>1 DEF Alone, Kept, UpdateStages, RemoveStages
    <2> QED
      BY <1>1, <1>2, <2>2, <2>3, GoAlone
  <1> QED
    BY <1>3, <1>4

-----------------------------------------------------------------------------
\* Queries of the one handler that write

LEMMA WriteAlone ==
    ASSUME OrgInv, OrgInv', AloneInv, OneAtATime, NEW r \in Req, ~At(r, "idle"), load' = load,
           NEW g \in Handler, Goto(r, g), g.stage # "idle", g.wrote = TRUE, g.users = req[r].users,
           g.stage \notin Silent \cup DropStages, req[r].stage \notin DropStages,
           Noting, Members \subseteq Members', account' = account, halfway' = halfway,
           \A u \in User : Confirmed(u)' => member'[u].key,
           \A x \in grant' : x[1] \in Members',
           Alone(g)'
    PROVE  AloneInv'
  <1>1. PICK h \in Handler : h = req[r] /\ Owing(h) /\ Sole(r)
    BY AloneHolding DEF At
  <1>2. Owing(g)'
    BY <1>1, OwingWrites
  <1> QED
    BY <1>1, <1>2, AloneStep

\* An edited row is still a membership, and keeps its id.
LEMMA Edited ==
    ASSUME NEW row, NEW old, NEW type, NEW status, NEW key, old \in Member, IsRow(row, old.id, type, status, key)
    PROVE  row # None /\ row.id = old.id
  BY OrgNullAssumption DEF IsRow

LEMMA InsertOwnerAlone ==
    ASSUME OrgInv, OrgInv', AloneInv, OneAtATime, NEW r \in Req, InsertOwner(r), load' = load
    PROVE  AloneInv'
  <1>1. PICK h \in Handler : /\ h = req[r] /\ Sound(h) /\ Owing(h) /\ h.stage = "insertOwner" /\ ~At(r, "idle")
                             /\ OrgTypeOK
    BY AloneHolding DEF InsertOwner, At
  <1>2. h.user \in User /\ OnlyMember /\ h.wrote
    BY <1>1 DEF Sound, UserStages, InsertOwner, Owing, Written
  <1>3. CASE GiveUp(r) /\ member' = member /\ lastId' = lastId
    BY <1>1, <1>2, <1>3, NothingWritten, EndAlone DEF OnlyMember
  <1>4. CASE ~(GiveUp(r) /\ member' = member /\ lastId' = lastId)
    <2>1. Go(r, "insertDefault") /\ member'[h.user] # None
      <3>1. /\ Go(r, "insertDefault")
            /\ member' = [member EXCEPT ![h.user] = [id |-> lastId + 1, type |-> "owner", status |-> "confirmed",
                                                     all |-> TRUE, key |-> TRUE]]
        BY <1>1, <1>4 DEF InsertOwner
      <3>2. member'[h.user] = member[h.user] \/ IsRow(member'[h.user], lastId + 1, "owner", "confirmed", TRUE)
        BY <1>2, OwnerWrites
      <3>3. [id |-> lastId + 1, type |-> "owner", status |-> "confirmed", all |-> TRUE, key |-> TRUE] \in Member
        BY <1>1 DEF OrgTypeOK, Member, Type, Status
      <3> QED
        BY <1>1, <1>2, <3>1, <3>3, OrgNullAssumption DEF OrgTypeOK
    <2>2. PICK g \in Handler : Goto(r, g) /\ g.stage = "insertDefault" /\ Kept(g, h) /\ g.wrote = h.wrote
      BY <1>1, <2>1, Goes DEF Go, Stage
    <2>3. \A u \in User : member'[u] = member[u] \/ IsRow(member'[u], lastId + 1, "owner", "confirmed", TRUE)
      BY OwnerWrites
    <2>4. /\ Members \subseteq Members' /\ h.user \in Members'
          /\ \A u \in User : Confirmed(u)' => (Confirmed(u) /\ member'[u] = member[u]) \/ member'[u].key
      BY <1>2, <2>1, <2>3, OrgNullAssumption DEF Members, Confirmed, IsRow
    <2>5. \A u \in User : Confirmed(u)' => member'[u].key
      BY <1>1, <2>4, AloneHolding
    <2>6. \A x \in grant' : x[1] \in Members'
      BY <1>1, <1>2, <2>4, AloneHolding DEF OnlyMember
    <2>7. Alone(g)'
      BY <2>2, <2>4 DEF Alone, Kept, UpdateStages, RemoveStages
    <2> QED
      BY <1>1, <1>2, <2>1, <2>2, <2>4, <2>5, <2>6, <2>7, WriteAlone
      DEF OnlyMember, Go, Kept, Silent, DropStages
  <1> QED
    BY <1>3, <1>4

LEMMA InsertCollectionAlone ==
    ASSUME OrgInv, OrgInv', AloneInv, OneAtATime, NEW r \in Req, NEW c \in Collection, InsertCollection(r, c),
           load' = load
    PROVE  AloneInv'
  <1>1. PICK h \in Handler : /\ h = req[r] /\ Alone(h) /\ h.stage \in {"insertDefault", "insertCollection"}
                             /\ ~At(r, "idle") /\ OrgTypeOK
    BY AloneHolding DEF InsertCollection, At
  <1>2. PICK stage : stage = IF h.stage = "insertDefault" THEN "grantOwner" ELSE "resolveUsers"
    OBVIOUS
  <1> DEFINE g == [h EXCEPT !.cols = {c}, !.wrote = TRUE, !.stage = stage]
  <1>3. g.stage = stage /\ g.user = h.user /\ g.users = h.users /\ g.wrote = TRUE
    BY DEF Handler
  <1>4. Goto(r, g)
    BY <1>1, <1>2 DEF InsertCollection, Handler
  <1> HIDE DEF g
  <1>5. g \in Handler
    BY <1>4 DEF Goto, OrgInv, OrgTypeOK
  <1>6. /\ account' = account /\ member' = member /\ grant' = grant /\ halfway' = halfway /\ Noting
    BY DEF InsertCollection
  <1>7. Members' = Members /\ \A u \in User : Confirmed(u)' <=> Confirmed(u)
    BY <1>6 DEF Members, Confirmed
  <1>8. (\A u \in User : Confirmed(u)' => member'[u].key) /\ \A x \in grant' : x[1] \in Members'
    BY <1>1, <1>6, <1>7, AloneHolding
  <1>9. Alone(g)'
    BY <1>1, <1>2, <1>3, <1>7 DEF Alone, UpdateStages, RemoveStages
  <1> QED
    BY <1>1, <1>2, <1>3, <1>4, <1>5, <1>6, <1>7, <1>8, <1>9, WriteAlone DEF Silent, DropStages

\* A query that writes grants, to members only.
LEMMA GrantsAlone ==
    ASSUME OrgInv, OrgInv', AloneInv, OneAtATime, NEW r \in Req, ~At(r, "idle"), load' = load,
           NEW g \in Handler, Goto(r, g), g.stage # "idle", g.wrote = TRUE, g.users = req[r].users,
           g.stage \notin Silent \cup DropStages, req[r].stage \notin DropStages,
           Noting, member' = member, account' = account, halfway' = halfway,
           \A x \in grant' : x \in grant \/ x[1] \in Members,
           Alone(g)'
    PROVE  AloneInv'
  <1>1. Members' = Members /\ \A u \in User : Confirmed(u)' <=> Confirmed(u)
    BY DEF Members, Confirmed
  <1>2. (\A u \in User : Confirmed(u)' => member'[u].key) /\ \A x \in grant' : x[1] \in Members'
    BY <1>1, AloneHolding DEF At
  <1> QED
    BY <1>1, <1>2, WriteAlone

LEMMA GrantOwnerAlone ==
    ASSUME OrgInv, OrgInv', AloneInv, OneAtATime, NEW r \in Req, GrantOwner(r), load' = load
    PROVE  AloneInv'
  <1>1. PICK h \in Handler : /\ h = req[r] /\ Alone(h) /\ Owing(h) /\ h.stage = "grantOwner" /\ ~At(r, "idle")
                             /\ OrgTypeOK
    BY AloneHolding DEF GrantOwner, At
  <1>2. h.user \in Members /\ h.wrote /\ OnlyGrant
    BY <1>1 DEF Alone, Owing, Written, GrantOwner
  <1>3. CASE GiveUp(r) /\ grant' = grant
    BY <1>1, <1>2, <1>3, NothingWritten, EndAlone DEF OnlyGrant
  <1>4. CASE ~(GiveUp(r) /\ grant' = grant)
    <2>1. grant' = grant \cup ({h.user} \X h.cols) /\ Go(r, "touch")
      BY <1>1, <1>4 DEF GrantOwner
    <2>2. PICK g \in Handler : Goto(r, g) /\ g.stage = "touch" /\ Kept(g, h) /\ g.wrote = h.wrote
      BY <1>1, <2>1, StageNames, Goes DEF Go
    <2>3. Alone(g)'
      BY <2>2 DEF Alone, UpdateStages, RemoveStages
    <2>4. \A x \in grant' : x \in grant \/ x[1] \in Members
      BY <1>2, <2>1
    <2>5. halfway' = halfway
      BY <2>1 DEF Go
    <2> QED
      BY <1>1, <1>2, <2>2, <2>3, <2>4, <2>5, GrantsAlone DEF OnlyGrant, Kept, Silent, DropStages
  <1> QED
    BY <1>3, <1>4

LEMMA InsertAlone ==
    ASSUME OrgInv, OrgInv', AloneInv, OneAtATime, NEW r \in Req, Insert(r), load' = load
    PROVE  AloneInv'
  <1>1. PICK h \in Handler : h = req[r] /\ Sound(h) /\ Owing(h) /\ h.stage = "insert" /\ ~At(r, "idle") /\ OrgTypeOK
    BY AloneHolding DEF Insert, At
  <1>2. h.user \in User /\ OnlyMember
    BY <1>1 DEF Sound, Insert
  <1>3. CASE GiveUp(r) /\ member' = member /\ lastId' = lastId
    BY <1>1, <1>2, <1>3, NothingWritten, EndAlone DEF OnlyMember
  <1>4. CASE ~(GiveUp(r) /\ member' = member /\ lastId' = lastId)
    <2>1. /\ Goto(r, [h EXCEPT !.id = lastId + 1, !.wrote = TRUE,
                               !.stage = IF h.cols # {} THEN "inviteCols" ELSE "view"])
          /\ halfway' = halfway /\ member[h.user] = None
          /\ member' = [member EXCEPT ![h.user] = [h.new EXCEPT !.id = lastId + 1]]
      BY <1>1, <1>4 DEF Insert
    <2>2. PICK n, stage : n = lastId + 1 /\ stage = IF h.cols # {} THEN "inviteCols" ELSE "view"
      OBVIOUS
    <2> DEFINE g == [h EXCEPT !.id = n, !.wrote = TRUE, !.stage = stage]
    <2>3. g.stage = stage /\ g.user = h.user /\ g.wrote = TRUE /\ g.users = h.users
      BY DEF Handler
    <2>4. Goto(r, g)
      BY <2>1, <2>2
    <2> HIDE DEF g
    <2>5. g \in Handler
      BY <2>4 DEF Goto, OrgInv, OrgTypeOK
    <2>6. \A u \in User : \/ member'[u] = member[u]
                          \/ member'[u] \in Member /\ member'[u].status = "invited"
      BY InsertWrites DEF IsRow
    <2>7. h.user \in Members'
      <3>1. PICK new \in Member : new = h.new
        BY <1>1 DEF Sound, InviteStages, Invites, OwnerCalls
      <3>2. [new EXCEPT !.id = lastId + 1] \in Member
        BY <1>1 DEF OrgTypeOK, Member
      <3> QED
        BY <1>1, <1>2, <2>1, <3>1, <3>2, OrgNullAssumption DEF OrgTypeOK, Members
    <2>8. Members \subseteq Members' /\ \A u \in User : Confirmed(u)' => Confirmed(u) /\ member'[u] = member[u]
      BY <2>6, OrgNullAssumption DEF Members, Confirmed
    <2>9. (\A u \in User : Confirmed(u)' => member'[u].key) /\ \A x \in grant' : x[1] \in Members'
      BY <1>1, <1>2, <2>8, AloneHolding DEF OnlyMember
    <2>10a. g.stage \in {"inviteCols", "view"} /\ g.wrote = TRUE /\ g.users = h.users /\ g.user = h.user
      BY <2>2, <2>3
    <2>10. Alone(g)'
      BY <2>7, <2>10a DEF Alone, UpdateStages, RemoveStages
    <2>11. halfway' = halfway /\ Noting /\ account' = account
      BY <1>2, <2>1 DEF OnlyMember
    <2> QED
      BY <1>1, <2>11, <2>4, <2>5, <2>8, <2>9, <2>10, <2>10a, WriteAlone
      DEF Silent, DropStages
  <1> QED
    BY <1>3, <1>4

LEMMA ReplaceMemberCollectionsAlone ==
    ASSUME OrgInv, OrgInv', AloneInv, OneAtATime, NEW r \in Req, ReplaceMemberCollections(r), load' = load
    PROVE  AloneInv'
  <1>1. PICK h \in Handler : /\ h = req[r] /\ Alone(h) /\ Owing(h) /\ h.stage \in {"inviteCols", "memberCols"}
                             /\ ~At(r, "idle") /\ OrgTypeOK
    BY AloneHolding DEF ReplaceMemberCollections, At
  <1>2. h.user \in Members /\ h.wrote /\ OnlyGrant
    BY <1>1 DEF Alone, Owing, Written, ReplaceMemberCollections
  <1>3. CASE GiveUp(r) /\ grant' = grant
    BY <1>1, <1>2, <1>3, NothingWritten, EndAlone DEF OnlyGrant
  <1>4. CASE ~(GiveUp(r) /\ grant' = grant)
    <2>1. PICK stage \in {"view", "touch"} :
             Go(r, stage) /\ grant' = WithoutGrants(h.user) \cup ({h.user} \X h.cols)
      BY <1>1, <1>4 DEF ReplaceMemberCollections
    <2>2. PICK g \in Handler : Goto(r, g) /\ g.stage = stage /\ Kept(g, h) /\ g.wrote = h.wrote
      BY <1>1, <2>1, StageNames, Goes DEF Go
    <2>3. Alone(g)'
      BY <2>2 DEF Alone, UpdateStages, RemoveStages
    <2>4. \A x \in grant' : x \in grant \/ x[1] \in Members
      BY <1>2, <2>1 DEF WithoutGrants
    <2>5. halfway' = halfway
      BY <2>1 DEF Go
    <2> QED
      BY <1>1, <1>2, <2>2, <2>3, <2>4, <2>5, GrantsAlone DEF OnlyGrant, Kept, Silent, DropStages
  <1> QED
    BY <1>3, <1>4

LEMMA ReplaceUsersAlone ==
    ASSUME OrgInv, OrgInv', AloneInv, OneAtATime, NEW r \in Req, ReplaceUsers(r), load' = load
    PROVE  AloneInv'
  <1>1. PICK h \in Handler : /\ h = req[r] /\ Alone(h) /\ h.stage = "replaceUsers" /\ ~At(r, "idle") /\ OrgTypeOK
    BY AloneHolding DEF ReplaceUsers, At
  <1>2. h.users \subseteq Members /\ OnlyGrant
    BY <1>1 DEF Alone, ReplaceUsers
  <1>3. CASE GiveUp(r) /\ grant' = grant
    BY <1>1, <1>2, <1>3, NothingWritten, EndAlone DEF OnlyGrant
  <1>4. CASE ~(GiveUp(r) /\ grant' = grant)
    <2>1. PICK stage \in {"resolve", "touch"} :
             /\ Wrote(r, stage) /\ grant' = {g \in grant : g[2] \notin h.cols} \cup (h.users \X h.cols)
             /\ halfway' = halfway
      BY <1>1, <1>4 DEF ReplaceUsers
    <2>2. stage \in Stage
      BY DEF Stage
    <2>3. PICK g \in Handler : Goto(r, g) /\ g.stage = stage /\ Kept(g, h) /\ g.wrote = TRUE
      BY <1>1, <2>1, <2>2, Writes
    <2>4. Alone(g)'
      BY <2>3 DEF Alone, UpdateStages, RemoveStages
    <2>5. \A x \in grant' : x \in grant \/ x[1] \in Members
      BY <1>2, <2>1
    <2> QED
      BY <1>1, <1>2, <2>1, <2>3, <2>4, <2>5, GrantsAlone DEF OnlyGrant, Kept, Silent, DropStages
  <1> QED
    BY <1>3, <1>4

LEMMA DropCollectionGrantsAlone ==
    ASSUME OrgInv, OrgInv', AloneInv, OneAtATime, NEW r \in Req, DropCollectionGrants(r), load' = load
    PROVE  AloneInv'
  <1>1. PICK h \in Handler : h = req[r] /\ h.stage = "dropCollectionGrants" /\ ~At(r, "idle") /\ OrgTypeOK
    BY AloneHolding DEF DropCollectionGrants, At
  <1>2. grant' \subseteq grant /\ Wrote(r, "dropCollection") /\ halfway' = halfway /\ OnlyGrant
    BY DEF DropCollectionGrants
  <1>3. PICK g \in Handler : Goto(r, g) /\ g.stage = "dropCollection" /\ Kept(g, h) /\ g.wrote = TRUE
    BY <1>1, <1>2, Writes DEF Stage
  <1>4. Alone(g)'
    BY <1>3 DEF Alone, UpdateStages, RemoveStages
  <1> QED
    BY <1>1, <1>2, <1>3, <1>4, GrantsAlone DEF OnlyGrant, Kept, Silent, DropStages

LEMMA DropCollectionAlone ==
    ASSUME OrgInv, OrgInv', AloneInv, OneAtATime, NEW r \in Req, DropCollection(r), load' = load
    PROVE  AloneInv'
  <1>1. PICK h \in Handler : h = req[r] /\ Owing(h) /\ h.stage = "dropCollection" /\ ~At(r, "idle") /\ OrgTypeOK
    BY AloneHolding DEF DropCollection, At
  <1>2. /\ grant' \subseteq grant /\ Proceed(r, "touch") /\ halfway' = halfway /\ member' = member
        /\ account' = account /\ Noting /\ h.wrote
    BY <1>1 DEF DropCollection, Owing, Written
  <1>3. PICK g \in Handler : Goto(r, g) /\ g.stage = "touch" /\ Kept(g, h) /\ g.wrote = h.wrote
    BY <1>1, <1>2, StageNames, Goes
  <1>4. Alone(g)'
    BY <1>3 DEF Alone, UpdateStages, RemoveStages
  <1> QED
    BY <1>1, <1>2, <1>3, <1>4, GrantsAlone DEF Kept, Silent, DropStages

\* A query that writes memberships and ends none.
LEMMA MembersAlone ==
    ASSUME OrgInv, OrgInv', AloneInv, OneAtATime, NEW r \in Req, ~At(r, "idle"), load' = load,
           NEW g \in Handler, Goto(r, g), g.stage # "idle", g.wrote = TRUE, g.users = req[r].users,
           g.stage \notin Silent \cup DropStages, req[r].stage \notin DropStages, OnlyMember, halfway' = halfway,
           \A u \in User : member[u] # None => member'[u] # None,
           \A u \in User : Confirmed(u)' => (Confirmed(u) /\ member'[u].key = member[u].key) \/ member'[u].key,
           Alone(g)'
    PROVE  AloneInv'
  <1>1. Members \subseteq Members'
    BY DEF Members
  <1>2. \A u \in User : Confirmed(u)' => member'[u].key
    BY AloneHolding DEF At
  <1>3. \A x \in grant' : x[1] \in Members'
    BY <1>1, AloneHolding DEF At, OnlyMember
  <1> QED
    BY <1>1, <1>2, <1>3, WriteAlone DEF OnlyMember

\* The steps after which only telling is left.
LEMMA TouchNext == \A g : g.stage = "touch" => Alone(g)' /\ g.stage \notin Silent \cup DropStages
  BY DEF Alone, UpdateStages, RemoveStages, Silent, DropStages

LEMMA AcceptMemberAlone ==
    ASSUME OrgInv, OrgInv', AloneInv, OneAtATime, NEW r \in Req, AcceptMember(r), load' = load
    PROVE  AloneInv'
  <1>1. PICK h \in Handler : h = req[r] /\ h.stage = "accept" /\ ~At(r, "idle") /\ OrgTypeOK
    BY AloneHolding DEF AcceptMember, At
  <1>2. Wrote(r, "touch") /\ OnlyMember /\ halfway' = halfway
    BY DEF AcceptMember
  <1>3. PICK g \in Handler : Goto(r, g) /\ g.stage = "touch" /\ Kept(g, h) /\ g.wrote = TRUE
    BY <1>1, <1>2, StageNames, Writes
  <1>4. Alone(g)' /\ g.stage \notin Silent \cup DropStages /\ h.stage \notin DropStages /\ g.users = h.users
    BY <1>1, <1>3, TouchNext DEF DropStages, Kept
  <1>5. \A u \in User : \/ member'[u] = member[u]
                        \/ member'[u] # None /\ member'[u].status = "accepted"
    BY AcceptWrites, OrgNullAssumption DEF IsRow
  <1>6. (\A u \in User : member[u] # None => member'[u] # None)
        /\ \A u \in User : Confirmed(u)' => Confirmed(u) /\ member'[u].key = member[u].key
    BY <1>5 DEF Confirmed
  <1> QED
    BY <1>1, <1>2, <1>3, <1>4, <1>6, MembersAlone

LEMMA AcceptPendingAlone ==
    ASSUME OrgInv, OrgInv', AloneInv, OneAtATime, NEW r \in Req, AcceptPending(r), load' = load
    PROVE  AloneInv'
  <1>1. PICK h \in Handler : h = req[r] /\ h.stage = "acceptPending" /\ ~At(r, "idle") /\ OrgTypeOK
    BY AloneHolding DEF AcceptPending, At
  <1>2. Wrote(r, "touch") /\ OnlyMember /\ halfway' = halfway
    BY DEF AcceptPending
  <1>3. PICK g \in Handler : Goto(r, g) /\ g.stage = "touch" /\ Kept(g, h) /\ g.wrote = TRUE
    BY <1>1, <1>2, StageNames, Writes
  <1>4. Alone(g)' /\ g.stage \notin Silent \cup DropStages /\ h.stage \notin DropStages /\ g.users = h.users
    BY <1>1, <1>3, TouchNext DEF DropStages, Kept
  <1>5. \A u \in User : \/ member'[u] = member[u]
                        \/ member'[u] # None /\ member'[u].status = "accepted"
    BY AcceptPendingWrites, OrgNullAssumption DEF IsRow
  <1>6. (\A u \in User : member[u] # None => member'[u] # None)
        /\ \A u \in User : Confirmed(u)' => Confirmed(u) /\ member'[u].key = member[u].key
    BY <1>5 DEF Confirmed
  <1> QED
    BY <1>1, <1>2, <1>3, <1>4, <1>6, MembersAlone

LEMMA ConfirmMemberAlone ==
    ASSUME OrgInv, OrgInv', AloneInv, OneAtATime, NEW r \in Req, ConfirmMember(r), load' = load
    PROVE  AloneInv'
  <1>1. PICK h \in Handler : h = req[r] /\ h.stage \in {"confirmOne", "confirm"} /\ ~At(r, "idle") /\ OrgTypeOK
    BY AloneHolding DEF ConfirmMember, At
  <1>2. PICK i : Goto(r, [h EXCEPT !.todo = @ \ {i}, !.id = i, !.wrote = TRUE,
                                   !.stage = IF @ = "confirm" THEN "view" ELSE "touch"])
    BY <1>1 DEF ConfirmMember
  <1>3. PICK stage \in {"view", "touch"} : stage = IF h.stage = "confirm" THEN "view" ELSE "touch"
    OBVIOUS
  <1> DEFINE g == [h EXCEPT !.todo = @ \ {i}, !.id = i, !.wrote = TRUE, !.stage = stage]
  <1>4. g.stage \in {"view", "touch"} /\ g.wrote = TRUE /\ g.users = h.users
    BY DEF Handler
  <1>5. Goto(r, g)
    BY <1>2, <1>3 DEF Handler
  <1> HIDE DEF g
  <1>6. g \in Handler
    BY <1>5 DEF Goto, OrgInv, OrgTypeOK
  <1>7. Alone(g)' /\ g.stage \notin Silent \cup DropStages /\ h.stage \notin DropStages
    BY <1>1, <1>4 DEF Alone, UpdateStages, RemoveStages, Silent, DropStages
  <1>8. \A u \in User : member'[u] = member[u] \/ (member'[u] # None /\ member'[u].key = TRUE)
    BY ConfirmWrites, OrgNullAssumption DEF IsRow
  <1>9. /\ \A u \in User : member[u] # None => member'[u] # None
        /\ \A u \in User : Confirmed(u)' => (Confirmed(u) /\ member'[u].key = member[u].key) \/ member'[u].key
    BY <1>8 DEF Confirmed
  <1>10. OnlyMember /\ halfway' = halfway
    BY DEF ConfirmMember
  <1> QED
    BY <1>1, <1>4, <1>5, <1>6, <1>7, <1>9, <1>10, MembersAlone

\* The id of a membership names the user it was read for.
LEMMA OneOfId ==
    ASSUME OrgInv, NEW u \in User, NEW v \in User, NEW i, IsMember(u, i), IsMember(v, i)
    PROVE  u = v
  BY DEF OrgInv, Ids, IsMember, Members

LEMMA UpdateMemberAlone ==
    ASSUME OrgInv, OrgInv', AloneInv, OneAtATime, NEW r \in Req, UpdateMember(r), load' = load
    PROVE  AloneInv'
  <1>1. PICK h \in Handler : /\ h = req[r] /\ Sound(h) /\ Alone(h) /\ h.stage = "update" /\ ~At(r, "idle")
                             /\ OrgTypeOK
    BY AloneHolding DEF UpdateMember, At
  <1>2. h.user \in User /\ IsMember(h.user, h.id) /\ (Confirmed(h.user) => h.new.key)
    BY <1>1 DEF Sound, Alone, UpdateStages
  <1>3. PICK stage \in {"memberCols", "touch"} : Wrote(r, stage) /\ OnlyMember /\ halfway' = halfway
    BY DEF UpdateMember
  <1>4. stage \in Stage
    BY DEF Stage
  <1>5. PICK g \in Handler : Goto(r, g) /\ g.stage = stage /\ Kept(g, h) /\ g.wrote = TRUE
    BY <1>1, <1>3, <1>4, Writes
  <1>6. \A u \in User : \/ member'[u] = member[u]
                        \/ /\ u = h.user /\ member[u] # None /\ member'[u] # None
                           /\ member'[u].status = member[u].status /\ member'[u].key = h.new.key
    BY <1>1, <1>2, UpdateWrites, OneOfId, OrgNullAssumption DEF IsRow, IsMember
  <1>7. /\ \A u \in User : member[u] # None => member'[u] # None
        /\ \A u \in User : Confirmed(u)' => (Confirmed(u) /\ member'[u].key = member[u].key) \/ member'[u].key
    BY <1>2, <1>6 DEF Confirmed
  <1>8. h.user \in Members'
    BY <1>2, <1>7 DEF IsMember, Members
  <1>9. Alone(g)'
    BY <1>5, <1>8 DEF Alone, Kept, UpdateStages, RemoveStages
  <1> QED
    BY <1>1, <1>3, <1>5, <1>7, <1>9, MembersAlone DEF Kept, Silent, DropStages

\* Where one user's rows alone are touched, nobody else sees a change.
LEMMA OthersSame ==
    ASSUME OrgInv, Noting, NEW u \in User, collection' = collection, \A v \in User : v # u => member'[v] = member[v],
           grant' = grant \/ grant' = WithoutGrants(u), NEW v \in untold'
    PROVE  v \in untold \/ v = u
  <1> SUFFICES ASSUME v \in User, View(v)' # View(v), v # u
               PROVE  FALSE
    BY DEF Noting
  <1>1. \A c : <<v, c>> \in grant' <=> <<v, c>> \in grant
    BY DEF WithoutGrants
  <1>2. member'[v] = member[v]
    OBVIOUS
  <1>3. Visible(v)' = Visible(v)
    BY <1>1, <1>2 DEF Visible
  <1> QED
    BY <1>2, <1>3 DEF View, Confirmed

LEMMA DropGrantsAlone ==
    ASSUME OrgInv, OrgInv', AloneInv, OneAtATime, NEW r \in Req, DropGrants(r), load' = load
    PROVE  AloneInv'
  <1>1. PICK h \in Handler : /\ h = req[r] /\ Sound(h) /\ Alone(h) /\ Owing(h) /\ h.stage = "dropGrants"
                             /\ Sole(r) /\ OrgTypeOK
    BY AloneHolding DEF DropGrants, At
  <1>2. /\ h.user \in User /\ ~h.wrote /\ (halfway = {} => untold \cap account = {})
        /\ IsMember(h.user, h.id) /\ (RemovesOwner(member[h.user], None) => OtherOwner(h.user))
    BY <1>1 DEF Sound, UserStages, RemoveStages, Owing, Silent, Alone
  <1>3. grant' = WithoutGrants(h.user) /\ Wrote(r, "dropMember") /\ halfway' = halfway /\ OnlyGrant
    BY <1>1 DEF DropGrants
  <1>4. PICK g \in Handler : Goto(r, g) /\ g.stage = "dropMember" /\ Kept(g, h) /\ g.wrote = TRUE
    BY <1>1, <1>3, Writes DEF Stage
  <1>5. member' = member /\ account' = account /\ collection' = collection /\ Noting
    BY <1>3 DEF OnlyGrant
  <1>6. /\ \A u \in User : Confirmed(u)' => member'[u].key
        /\ \A x \in grant' : x[1] \in Members'
    BY <1>1, <1>3, <1>5, AloneHolding DEF WithoutGrants, Confirmed, Members
  <1>7. Alone(g)'
    <2>1. g.user = h.user /\ g.id = h.id
      BY <1>4 DEF Kept
    <2>2. IsMember(h.user, h.id)' /\ (RemovesOwner(member'[h.user], None) => OtherOwner(h.user)')
      BY <1>2, <1>5 DEF IsMember, OtherOwner, Owners, Confirmed
    <2>3. \A x \in grant' : x[1] # h.user
      BY <1>3 DEF WithoutGrants
    <2> QED
      BY <1>4, <2>1, <2>2, <2>3 DEF Alone, UpdateStages, RemoveStages
  <1>8. Owing(g)'
    <2>1. \A v \in untold' : v \in untold \/ v = h.user
      BY <1>2, <1>3, <1>5, OthersSame
    <2>2. halfway' = {} => untold' \cap account' \subseteq {h.user}
      BY <1>2, <1>3, <1>5, <2>1
    <2> QED
      BY <1>4, <2>2 DEF Owing, Kept, Silent
  <1> QED
    BY <1>1, <1>4, <1>6, <1>7, <1>8, AloneStep

LEMMA AccountGrantsAlone ==
    ASSUME OrgInv, OrgInv', AloneInv, OneAtATime, NEW r \in Req, AccountGrants(r), load' = load
    PROVE  AloneInv'
  <1>1. PICK h \in Handler : /\ h = req[r] /\ Sound(h) /\ Owing(h) /\ h.stage = "accountGrants"
                             /\ Sole(r) /\ OrgTypeOK
    BY AloneHolding DEF AccountGrants, At
  <1>2. h.user \in User /\ ~h.wrote /\ (halfway = {} => untold \cap account = {})
    BY <1>1 DEF Sound, UserStages, Owing, Silent
  <1>3. grant' = WithoutGrants(h.user) /\ Wrote(r, "accountMember") /\ halfway' = halfway /\ OnlyGrant
    BY <1>1 DEF AccountGrants
  <1>4. PICK g \in Handler : Goto(r, g) /\ g.stage = "accountMember" /\ Kept(g, h) /\ g.wrote = TRUE
    BY <1>1, <1>3, Writes DEF Stage
  <1>5. member' = member /\ account' = account /\ collection' = collection /\ Noting
    BY <1>3 DEF OnlyGrant
  <1>6. /\ \A u \in User : Confirmed(u)' => member'[u].key
        /\ \A x \in grant' : x[1] \in Members'
    BY <1>1, <1>3, <1>5, AloneHolding DEF WithoutGrants, Confirmed, Members
  <1>7. Alone(g)'
    <2>1. \A x \in grant' : x[1] # h.user
      BY <1>3 DEF WithoutGrants
    <2> QED
      BY <1>4, <2>1 DEF Kept, Alone, UpdateStages, RemoveStages
  <1>8. Owing(g)'
    <2>1. \A v \in untold' : v \in untold \/ v = h.user
      BY <1>2, <1>3, <1>5, OthersSame
    <2>2. halfway' = {} => untold' \cap account' \subseteq {h.user}
      BY <1>2, <1>3, <1>5, <2>1
    <2> QED
      BY <1>4, <2>2 DEF Owing, Kept, Silent
  <1> QED
    BY <1>1, <1>4, <1>6, <1>7, <1>8, AloneStep

\* What the end of a membership leaves: no grant of the member, and everyone else's key.
LEMMA MemberGone ==
    ASSUME NEW u \in User, \A v \in User : v # u => member'[v] = member[v], member'[u] = None,
           grant' \subseteq grant, \A x \in grant' : x[1] # u,
           \A v \in User : Confirmed(v) => member[v].key, \A x \in grant : x[1] \in Members
    PROVE  /\ \A v \in User : Confirmed(v)' => member'[v].key
           /\ \A x \in grant' : x[1] \in Members'
  <1>1. \A v \in User : Confirmed(v)' => v # u /\ Confirmed(v) /\ member'[v] = member[v]
    BY DEF Confirmed
  <1>2. \A v \in Members : v # u => v \in Members'
    BY DEF Members
  <1> QED
    BY <1>1, <1>2

LEMMA DropMemberAlone ==
    ASSUME OrgInv, OrgInv', AloneInv, OneAtATime, NEW r \in Req, DropMember(r), load' = load
    PROVE  AloneInv'
  <1>1. PICK h \in Handler : /\ h = req[r] /\ Sound(h) /\ Alone(h) /\ Owing(h) /\ h.stage = "dropMember"
                             /\ Sole(r) /\ OrgTypeOK
    BY AloneHolding DEF DropMember, At
  <1>2. /\ h.user \in User /\ h.wrote /\ (halfway = {} => untold \cap account \subseteq {h.user})
        /\ IsMember(h.user, h.id) /\ \A x \in grant : x[1] # h.user
    BY <1>1 DEF Sound, UserStages, RemoveStages, Owing, Written, Alone
  <1>3. Goto(r, [h EXCEPT !.stage = "touch", !.users = {h.user}]) /\ halfway' = halfway /\ OnlyMember
    BY <1>1 DEF DropMember
  <1> DEFINE g == [h EXCEPT !.stage = "touch", !.users = {h.user}]
  <1>4. g.stage = "touch" /\ g.users = {h.user} /\ g.wrote = h.wrote
    BY DEF Handler
  <1>5. Goto(r, g)
    BY <1>3
  <1> HIDE DEF g
  <1>6. g \in Handler
    BY <1>5 DEF Goto, OrgInv, OrgTypeOK
  <1>7. account' = account /\ collection' = collection /\ grant' = grant /\ Noting
    BY <1>3 DEF OnlyMember
  <1>8. member'[h.user] = None /\ \A v \in User : v # h.user => member'[v] = member[v]
    BY <1>1, <1>2, OneOfId DEF DropMember
  <1>9. /\ \A u \in User : Confirmed(u)' => member'[u].key
        /\ \A x \in grant' : x[1] \in Members'
    BY <1>1, <1>2, <1>7, <1>8, AloneHolding, MemberGone
  <1>10. Owing(g)'
    <2>1. \A v \in untold' : v \in untold \/ v = h.user
      BY <1>2, <1>7, <1>8, OthersSame
    <2>2. halfway' = {} => untold' \cap account' \subseteq {h.user}
      BY <1>2, <1>3, <1>7, <2>1
    <2> QED
      BY <1>2, <1>4, <2>2 DEF Owing, Silent
  <1> QED
    BY <1>1, <1>4, <1>5, <1>6, <1>9, <1>10, TouchNext, AloneStep

LEMMA AccountMemberAlone ==
    ASSUME OrgInv, OrgInv', AloneInv, OneAtATime, NEW r \in Req, AccountMember(r), load' = load
    PROVE  AloneInv'
  <1>1. PICK h \in Handler : /\ h = req[r] /\ Sound(h) /\ Alone(h) /\ Owing(h) /\ h.stage = "accountMember"
                             /\ Sole(r) /\ OrgTypeOK
    BY AloneHolding DEF AccountMember, At
  <1>2. /\ h.user \in User /\ h.wrote /\ (halfway = {} => untold \cap account \subseteq {h.user})
        /\ \A x \in grant : x[1] # h.user
    BY <1>1 DEF Sound, UserStages, Owing, Written, Alone
  <1>3. Proceed(r, "account") /\ "account" \in Stage /\ halfway' = halfway /\ OnlyMember
    BY DEF AccountMember, Stage
  <1>4. PICK g \in Handler : Goto(r, g) /\ g.stage = "account" /\ Kept(g, h) /\ g.wrote = h.wrote
    BY <1>1, <1>3, Goes
  <1>5. account' = account /\ collection' = collection /\ grant' = grant /\ Noting
    BY <1>3 DEF OnlyMember
  <1>6. member'[h.user] = None /\ \A v \in User : v # h.user => member'[v] = member[v]
    BY <1>1, <1>2 DEF AccountMember, OrgTypeOK
  <1>7. /\ \A u \in User : Confirmed(u)' => member'[u].key
        /\ \A x \in grant' : x[1] \in Members'
    BY <1>1, <1>2, <1>5, <1>6, AloneHolding, MemberGone
  <1>8. Alone(g)'
    BY <1>2, <1>4, <1>5 DEF Kept, Alone, UpdateStages, RemoveStages
  <1>9. Owing(g)'
    <2>1. \A v \in untold' : v \in untold \/ v = h.user
      BY <1>2, <1>5, <1>6, OthersSame
    <2>2. halfway' = {} => untold' \cap account' \subseteq {h.user}
      BY <1>2, <1>3, <1>5, <2>1
    <2> QED
      BY <1>2, <1>4, <2>2 DEF Owing, Kept, Silent
  <1> QED
    BY <1>1, <1>4, <1>7, <1>8, <1>9, AloneStep

LEMMA DeleteUserAlone ==
    ASSUME OrgInv, OrgInv', AloneInv, OneAtATime, NEW r \in Req, DeleteUser(r), load' = load
    PROVE  AloneInv'
  <1>1. PICK h \in Handler : /\ h = req[r] /\ Sound(h) /\ Owing(h) /\ h.stage = "account" /\ Sole(r) /\ OrgTypeOK
    BY AloneHolding DEF DeleteUser, At
  <1>2. h.user \in User /\ (halfway = {} => untold \cap account \subseteq {h.user})
    BY <1>1 DEF Sound, UserStages, Owing
  <1>3. /\ Goto(r, Idle) /\ halfway' = halfway /\ account' = account \ {h.user} /\ collection' = collection
        /\ grant' = WithoutGrants(h.user) /\ Noting
    BY <1>1 DEF DeleteUser, Finish, Goto
  <1>4. member'[h.user] = None /\ \A v \in User : v # h.user => member'[v] = member[v]
    BY <1>1, <1>2 DEF DeleteUser, OrgTypeOK
  <1>5. grant' \subseteq grant /\ \A x \in grant' : x[1] # h.user
    BY <1>3 DEF WithoutGrants
  <1>6. /\ \A u \in User : Confirmed(u)' => member'[u].key
        /\ \A x \in grant' : x[1] \in Members'
    BY <1>1, <1>2, <1>4, <1>5, AloneHolding, MemberGone
  <1>7. \A v \in untold' : v \in untold \/ v = h.user
    BY <1>2, <1>3, <1>4, OthersSame
  <1>8. halfway' = {} => untold' \cap account' = {}
    BY <1>2, <1>3, <1>7
  <1> QED
    BY <1>1, <1>3, <1>6, <1>8, IdleSound, AloneStep

LEMMA TouchAlone ==
    ASSUME OrgInv, OrgInv', AloneInv, OneAtATime, NEW r \in Req, Touch(r), load' = load
    PROVE  AloneInv'
  <1>1. PICK h \in Handler : h = req[r] /\ Owing(h) /\ h.stage = "touch" /\ Sole(r) /\ OrgTypeOK
    BY AloneHolding DEF Touch, At
  <1>2. halfway = {} => untold \cap account \subseteq Members \cup h.users
    BY <1>1 DEF Owing
  <1>3. /\ Goto(r, Idle) /\ halfway' = halfway /\ account' = account /\ member' = member /\ grant' = grant
        /\ untold' = untold \ (Members \cup h.users)
    BY <1>1 DEF Touch, Finish, Goto
  <1>4. /\ \A u \in User : Confirmed(u)' => member'[u].key
        /\ \A x \in grant' : x[1] \in Members'
    BY <1>1, <1>3, AloneHolding DEF Confirmed, Members
  <1>5. halfway' = {} => untold' \cap account' = {}
    BY <1>2, <1>3
  <1> QED
    BY <1>1, <1>3, <1>4, <1>5, IdleSound, AloneStep

LEMMA CrashAlone ==
    ASSUME OrgInv, AloneInv, OneAtATime, NEW r \in Req, Crash(r), load' = load
    PROVE  AloneInv'
  BY EndAlone DEF Crash

-----------------------------------------------------------------------------
\* What one handler at a time keeps

LEMMA AloneStart == ASSUME OrgInit PROVE AloneInv
  <1>1. \A r \in Req : At(r, "idle")
    BY IdleSound DEF OrgInit, At
  <1>2. \A u \in User : ~Confirmed(u)
    BY DEF OrgInit, Confirmed
  <1> QED
    BY <1>1, <1>2 DEF OrgInit, AloneInv, ConfirmedHasKey, GrantsToMembers, Told

LEMMA ContinueAlone ==
    ASSUME OrgInv, OrgInv', AloneInv, OneAtATime, NEW r \in Req, Continue(r), load' = load
    PROVE  AloneInv'
  BY InsertOwnerAlone, InsertCollectionAlone, GrantOwnerAlone, VetCollectionsAlone, LookupAlone, InsertAlone,
     ReplaceMemberCollectionsAlone, ViewMemberAlone, AcceptMemberAlone, AcceptPendingAlone, VetConfirmAlone,
     ConfirmMemberAlone, VetUpdateAlone, CountOwnersAlone, UpdateMemberAlone, VetDeleteAlone, DropGrantsAlone,
     DropMemberAlone, ResolveAlone, ResolveUsersAlone, ReplaceUsersAlone, DropCollectionGrantsAlone,
     DropCollectionAlone, AccountGrantsAlone, AccountMemberAlone, DeleteUserAlone, TouchAlone, CrashAlone
  DEF Continue

LEMMA AloneKept == ASSUME OrgInv, AloneInv, [OrgNext]_orgVars PROVE AloneInv'
  <1>1. OrgInv'
    BY OrgStep
  <1>2. CASE UNCHANGED orgVars
    BY <1>2 DEF orgVars, AloneInv, ConfirmedHasKey, GrantsToMembers, Told, InFlight, At, OneAtATime, Asked,
       Confirmed, Members, Alone, Owing, IsMember, OtherOwner, Owners
  <1>3. CASE OrgNext /\ OneAtATime
    <2>1. PICK r \in Req : load' = load /\ ((\E c \in User : Begin(r, c)) \/ Continue(r))
      BY <1>3 DEF OrgNext
    <2> QED
      BY <1>1, <1>3, <2>1, BeginAlone, ContinueAlone
  <1>4. CASE OrgNext /\ ~OneAtATime
    <2>1. ~OneAtATime'
      BY <1>4 DEF OrgNext, OneAtATime, Asked
    <2> QED
      BY <2>1 DEF AloneInv, ConfirmedHasKey, GrantsToMembers, Told
  <1> QED
    BY <1>2, <1>3, <1>4

\* One handler at a time, whatever updates follow a confirmation, the confirmed member keeps an
\* encrypted organization key.
THEOREM KeysKept == OrgSpec => []ConfirmedHasKey
  <1>1. AloneInv => ConfirmedHasKey
    BY DEF AloneInv
  <1> QED
    BY <1>1, OrgStart, OrgStep, AloneStart, AloneKept, PTL DEF OrgSpec

\* One handler at a time, half done and crashed removals included, a grant is a member's.
THEOREM GrantsKept == OrgSpec => []GrantsToMembers
  <1>1. AloneInv => GrantsToMembers
    BY DEF AloneInv
  <1> QED
    BY <1>1, OrgStart, OrgStep, AloneStart, AloneKept, PTL DEF OrgSpec

\* One handler at a time, none having ended half way, whoever sees the organization otherwise
\* than before is told to sync.
THEOREM ChangesTold == OrgSpec => []Told
  <1>1. AloneInv => Told
    BY DEF AloneInv
  <1> QED
    BY <1>1, OrgStart, OrgStep, AloneStart, AloneKept, PTL DEF OrgSpec

\* A confirmed row with the same id stays confirmed.
LEMMA ConfirmedStays ==
    ASSUME OrgInv, AloneInv, OneAtATime \/ "accept" \notin Asked.route, NEW r \in Req, Continue(r),
           NEW u \in User, Confirmed(u), member'[u] # None
    PROVE  member'[u].status = "confirmed"
  <1> SUFFICES ASSUME member'[u] # member[u]
               PROVE  member'[u].status = "confirmed"
    BY DEF Confirmed
  <1>1. CASE InsertOwner(r) \/ ConfirmMember(r)
    BY <1>1, OwnerWrites, ConfirmWrites DEF IsRow
  <1>2. CASE UpdateMember(r)
    BY <1>2, UpdateWrites DEF IsRow, Confirmed
  <1>3. ~Insert(r) /\ ~AcceptPending(r)
    BY InsertWrites, AcceptPendingWrites DEF Confirmed
  <1>4. ~AcceptMember(r)
    <2> SUFFICES ASSUME AcceptMember(r)
                 PROVE  FALSE
      OBVIOUS
    <2>1. PICK h \in Handler : h = req[r] /\ h.stage = "accept" /\ Sound(h)
      BY Holding DEF AcceptMember, At
    <2>2. OneAtATime
      BY <2>1 DEF Sound
    <2>3. IsMember(u, h.id)
      BY <2>1, AcceptWrites
    <2>4. Alone(h)
      BY <2>1, <2>2, AloneHolding
    <2> QED
      BY <2>1, <2>3, <2>4 DEF Alone, Confirmed
  <1>5. ~(DropMember(r) \/ AccountMember(r) \/ DeleteUser(r))
    BY DropWrites
  <1> QED
    BY <1>1, <1>2, <1>3, <1>4, <1>5, MembersWritten

\* No acceptance moves a confirmed member back, however the acceptances of logins interleave
\* with confirmations; with acceptances of invitations among the requests, one handler at a time.
THEOREM NobodyDemoted == OrgSpec => NeverDemoted
  <1>1. ASSUME OrgInv, AloneInv, [OrgNext]_orgVars, OneAtATime \/ "accept" \notin Asked.route, NEW u \in User,
               Confirmed(u), member'[u] # None, member'[u].id = member[u].id
        PROVE  member'[u].status = "confirmed"
    <2>1. CASE member' = member
      BY <1>1, <2>1 DEF Confirmed
    <2>2. CASE member' # member
      <3>1. PICK r \in Req : (\E c \in User : Begin(r, c)) \/ Continue(r)
        BY <1>1, <2>2 DEF OrgNext, orgVars
      <3> QED
        BY <1>1, <2>2, <3>1, MembersLeft, ConfirmedStays
    <2> QED
      BY <2>1, <2>2
  <1>2. OrgInv /\ AloneInv /\ [OrgNext]_orgVars =>
           [OneAtATime \/ "accept" \notin Asked.route =>
              \A u \in User : Confirmed(u) /\ member'[u] # None /\ member'[u].id = member[u].id
                                  => member'[u].status = "confirmed"]_orgVars
    BY <1>1
  <1> QED
    BY <1>2, OrgStart, OrgStep, AloneStart, AloneKept, PTL DEF OrgSpec, NeverDemoted

\* What leaves another owner beside the one it takes.
LEMMA OwnerLeft ==
    ASSUME NEW o \in User, OtherOwner(o), \A v \in User : v # o => member'[v] = member[v]
    PROVE  Owners' # {}
  <1>1. PICK v \in Owners : v # o
    BY DEF OtherOwner
  <1>2. v \in Owners'
    BY <1>1 DEF Owners, Confirmed
  <1> QED
    BY <1>2

LEMMA LastOwnerStep ==
    ASSUME OrgInv, OrgInv', AloneInv, OneAtATime, NEW r \in Req, Continue(r), load' = load, Owners # {}, Owners' = {}
    PROVE  req[r].stage \in {"accountMember", "account"} /\ req'[r] # req[r]
  <1>1. PICK o \in User : o \in Owners
    BY DEF Owners
  <1>2. member'[o] # member[o] /\ Confirmed(o) /\ member[o].type = "owner"
    BY <1>1 DEF Owners, Confirmed
  <1>3. ~InsertOwner(r) /\ ~ConfirmMember(r)
    <2> SUFFICES ASSUME InsertOwner(r) \/ ConfirmMember(r)
                 PROVE  o \in Owners'
      OBVIOUS
    <2>1. member'[o] \in Member /\ member'[o].status = "confirmed" /\ member'[o].type = "owner"
      BY <1>2, OwnerWrites, ConfirmWrites DEF IsRow
    <2> QED
      BY <2>1, OrgNullAssumption DEF Owners, Confirmed
  <1>4. ~Insert(r) /\ ~AcceptPending(r)
    BY <1>2, InsertWrites, AcceptPendingWrites DEF Confirmed
  <1>5. ~AcceptMember(r)
    <2> SUFFICES ASSUME AcceptMember(r)
                 PROVE  FALSE
      OBVIOUS
    <2>1. PICK h \in Handler : h = req[r] /\ h.stage = "accept" /\ Alone(h)
      BY AloneHolding DEF AcceptMember, At
    <2>2. IsMember(o, h.id)
      BY <1>2, <2>1, AcceptWrites
    <2> QED
      BY <1>2, <2>1, <2>2 DEF Alone, Confirmed
  <1>6. ~UpdateMember(r)
    <2> SUFFICES ASSUME UpdateMember(r)
                 PROVE  FALSE
      OBVIOUS
    <2>1. PICK h \in Handler : h = req[r] /\ h.stage = "update" /\ Alone(h) /\ Sound(h)
      BY AloneHolding DEF UpdateMember, At
    <2>2. h.user \in User /\ IsMember(h.user, h.id)
      BY <2>1 DEF Alone, Sound, UpdateStages
    <2>3. \A v \in User : member'[v] # member[v] => v = h.user
      BY <2>1, <2>2, UpdateWrites, OneOfId
    <2>4. o = h.user /\ member'[o] # None /\ member'[o].type = h.new.type /\ member'[o].status = "confirmed"
      BY <1>2, <2>1, <2>3, UpdateWrites, OrgNullAssumption DEF IsRow, Confirmed
    <2>5. h.new.type # "owner"
      BY <1>1, <2>4 DEF Owners, Confirmed
    <2>6. RemovesOwner(member[o], h.new.type)
      BY <1>2, <2>5 DEF RemovesOwner, Confirmed
    <2>7. OtherOwner(o)
      BY <2>1, <2>4, <2>6 DEF Alone
    <2> QED
      BY <1>1, <2>3, <2>4, <2>7, OwnerLeft
  <1>7. ~DropMember(r)
    <2> SUFFICES ASSUME DropMember(r)
                 PROVE  FALSE
      OBVIOUS
    <2>1. PICK h \in Handler : h = req[r] /\ h.stage = "dropMember" /\ Alone(h) /\ Sound(h)
      BY AloneHolding DEF DropMember, At
    <2>2. h.user \in User /\ IsMember(h.user, h.id)
      BY <2>1 DEF Alone, Sound, UserStages, RemoveStages
    <2>3. \A v \in User : member'[v] # member[v] => v = h.user
      BY <2>1, <2>2, DropWrites, OneOfId
    <2>4. RemovesOwner(member[o], None)
      BY <1>2, OrgNoneAssumption DEF RemovesOwner, Confirmed
    <2>5. o = h.user /\ OtherOwner(o)
      BY <1>2, <2>1, <2>3, <2>4 DEF Alone
    <2> QED
      BY <1>1, <2>3, <2>5, OwnerLeft
  <1>8. CASE AccountMember(r) \/ DeleteUser(r)
    <2>1. PICK h \in Handler : h = req[r] /\ h.stage \in {"accountMember", "account"} /\ OrgTypeOK
      BY <1>8, AloneHolding DEF AccountMember, DeleteUser, At
    <2>2. \E g \in Handler : Goto(r, g) /\ g.stage # h.stage
      <3>1. CASE AccountMember(r)
        <4>1. Proceed(r, "account") /\ "account" \in Stage /\ h.stage = "accountMember"
          BY <2>1, <3>1 DEF AccountMember, At, Stage
        <4> QED
          BY <2>1, <4>1, Goes
      <3>2. CASE DeleteUser(r)
        <4>1. Goto(r, Idle)
          BY <3>2 DEF DeleteUser, Finish, Goto
        <4> QED
          BY <2>1, <4>1, IdleSound
      <3> QED
        BY <1>8, <3>1, <3>2
    <2>3. req'[r] # h
      BY <2>1, <2>2 DEF Goto, OrgTypeOK
    <2> QED
      BY <2>1, <2>3
  <1> QED
    BY <1>2, <1>3, <1>4, <1>5, <1>6, <1>7, <1>8, MembersWritten

\* One handler at a time, the last confirmed owner leaves only with the account.
THEOREM LastOwnerKept == OrgSpec => OwnerKeptAlone
  <1>1. ASSUME OrgInv, AloneInv, [OrgNext]_orgVars, OneAtATime, Owners # {}, Owners' = {}
        PROVE  \E r \in Req : req[r].stage \in {"accountMember", "account"} /\ req'[r] # req[r]
    <2>1. member' # member
      BY <1>1 DEF Owners, Confirmed
    <2>2. PICK r \in Req : load' = load /\ ((\E c \in User : Begin(r, c)) \/ Continue(r))
      BY <1>1, <2>1 DEF OrgNext, orgVars
    <2> QED
      BY <1>1, <2>1, <2>2, OrgStep, MembersLeft, LastOwnerStep
  <1>2. OrgInv /\ AloneInv /\ [OrgNext]_orgVars =>
           [OneAtATime /\ Owners # {} /\ Owners' = {} =>
              \E r \in Req : req[r].stage \in {"accountMember", "account"} /\ req'[r] # req[r]]_orgVars
    BY <1>1
  <1> QED
    BY <1>2, OrgStart, OrgStep, AloneStart, AloneKept, PTL DEF OrgSpec, OwnerKeptAlone
=============================================================================
