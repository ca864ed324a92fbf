---------------------------- MODULE VaultProofs ----------------------------
(***************************************************************************)
(* Proofs about Vault, for any accounts, ciphers, collections and folders, *)
(* any finite number of handlers and any workloads: its types, who writes  *)
(* ciphers and who places them, what the purge takes, in whose folders     *)
(* ciphers lie; and, handlers one at a time, that a cipher has one owner   *)
(* and who is told.                                                        *)
(***************************************************************************)
EXTENDS Vault, FiniteSetTheorems, TLAPS

-----------------------------------------------------------------------------
\* What a handler holds

InTurn == {"update", "share", "collections", "bulkCollections"}
Marking == {"softDelete", "restore", "archive", "unarchive", "partial", "move"}
\* The routes that name ciphers there are, and those that make some.
Changing == InTurn \cup Marking \cup {"hardDelete"}
Making == {"create", "import"}

\* The stages belong to routes.
Follows(h) ==
    /\ h.stage = "access" => h.route \in Changing
    /\ h.stage \in {"fetch", "writeRow"} => h.route \in {"update", "share"}
    /\ h.stage = "vetBulk" => h.route = "bulkCollections"
    /\ h.stage \in {"vetAssignment", "place"} => h.route \in Making \cup InTurn
    /\ h.stage = "vetManage" => h.route \in InTurn
    /\ h.stage = "vetFolder" => h.route \in {"create", "update", "partial", "move"}
    /\ h.stage = "insertFolder" => h.route = "import" /\ h.folder # None
    /\ h.stage = "insert" => h.route \in Making
    /\ h.stage = "bump" => h.route \in {"collections", "bulkCollections"}
    /\ h.stage = "write" => h.route \in Marking
    /\ h.stage \in {"dropPlaced", "deleteRows"} => h.route = "hardDelete"

\* The stages at which a handler is at a cipher it may write.
Reached(h) ==
    /\ h.route \in InTurn
    /\ \/ h.stage \in {"fetch", "vetAssignment", "vetFolder", "writeRow", "place", "bump"}
       \/ h.stage = "vetManage" /\ h.route # "bulkCollections"

\* It has found that it may write all it names.
Through(h) ==
    \/ h.stage \in {"write", "dropPlaced", "deleteRows"}
    \/ h.stage = "vetFolder" /\ h.route \in Marking

\* It has looked at the owner of the folder it names; the client of an import drew it.
FolderVetted(h) == h.route = "import" \/ h.stage \in {"insert", "writeRow", "write"}

Busy(h) ==
    /\ Follows(h)
    /\ h.user \in User /\ h.todo \subseteq h.ids
    /\ h.folder # None => h.route \in {"create", "import", "update", "partial", "move"}
    /\ h.route \in {"share", "collections", "bulkCollections"} => h.org /\ h.ask \subseteq Collection
    /\ h.route \in Making => (h.org => h.folder = None) /\ (~h.org => h.cols = {})
    /\ h.folder # None /\ FolderVetted(h) => FolderOwner[h.folder] = h.user
    /\ Through(h) => h.todo = {}
    /\ Reached(h) => h.c \in h.ids \ h.todo

Sound(h) == IF h.stage = "idle" THEN h = Idle ELSE Busy(h)
AllSound == \A r \in Req : Sound(req[r])

\* It found its caller to be an administrator.
Administers(h) ==
    \/ h.route = "bulkCollections" /\ h.stage \notin {"vetBulk", "vetManage"}
    \/ /\ h.route \in {"update", "share", "collections"} /\ h.org
       /\ h.stage = "place" \/ (h.stage \in {"vetFolder", "writeRow"} /\ h.ask # None)

\* What the checks of a handler found is among what its caller could do.
Watched(h, edit, admin) ==
    h.stage # "idle" =>
        /\ h.route \in Changing => h.ids \ h.todo \subseteq edit
        /\ Administers(h) => admin

AllWatched == \A r \in Req : Watched(req[r], seen[r].edit, seen[r].admin)

HandlersInv == VaultTypeOK /\ AllSound /\ AllWatched

-----------------------------------------------------------------------------
\* Steps

\* The types of all that is not about handlers.
TablesOK ==
    /\ account \subseteq User
    /\ member \in [User -> Member \cup {None}]
    /\ grant \subseteq Grant
    /\ collection \subseteq Collection
    /\ folder \subseteq Folder
    /\ cipher \in [Cipher -> Row \cup {None}]
    /\ placed \subseteq {c \in Cipher : cipher[c] # None} \X collection
    /\ cron \in [stage : {"idle", "count", "delete", "touch"}, ids : SUBSET Cipher,
                 users : SUBSET User]
    /\ drawn \subseteq Cipher \cup Folder
    /\ untold \subseteq User
    /\ excused \subseteq {"error", "crash", "cascade", "purge"}

\* The history that every step writes.
Recording == Seeing /\ Reverting /\ load' = load

LEMMA IdleSound == Idle \in Handler /\ Sound(Idle) /\ Idle.stage = "idle"
  BY DEF Idle, Handler, Stage, Sound

LEMMA RecordingTypes ==
    ASSUME VaultTypeOK, Recording, req' \in [Req -> Handler]
    PROVE  /\ seen' \in [Req -> [edit : SUBSET Cipher, admin : BOOLEAN]]
           /\ reverted' \subseteq Cipher /\ load' \in DOMAIN VaultWorkload
  <1>1. seen \in [Req -> [edit : SUBSET Cipher, admin : BOOLEAN]] /\ reverted \subseteq Cipher
    BY DEF VaultTypeOK
  <1>2. reverted' \subseteq Cipher /\ load' \in DOMAIN VaultWorkload
    BY <1>1 DEF Recording, Reverting, VaultTypeOK
  <1>3. ASSUME NEW r \in Req, NEW edit, NEW admin, edit \subseteq Cipher \cup req'[r].ids, admin \in BOOLEAN
        PROVE  [edit |-> edit, admin |-> admin] \in [edit : SUBSET Cipher, admin : BOOLEAN]
    BY <1>3 DEF Handler
  <1>4. Unseen \in [edit : SUBSET Cipher, admin : BOOLEAN]
    BY DEF Unseen
  <1> QED
    BY <1>1, <1>2, <1>3, <1>4 DEF Recording, Seeing

\* What the caller of r can see of late, if r goes on with h.
LatelySeen(r, h) ==
    [edit |-> seen[r].edit \cup {c \in h.ids : MayEdit(h.user, c)}, admin |-> seen[r].admin \/ Admin(h.user)]

LEMMA SeenGrows ==
    ASSUME Seeing, NEW r \in Req, req'[r].stage # "idle", req'[r].user \in User
    PROVE  /\ seen[r].edit \subseteq seen'[r].edit
           /\ \A c \in req'[r].ids : MayEdit(req'[r].user, c) => c \in seen'[r].edit
           /\ seen[r].admin \/ Admin(req'[r].user) => seen'[r].admin
  <1> DEFINE u == req'[r].user
  <1>1. seen'[r].edit = seen[r].edit \cup
          {c \in req'[r].ids : \E v \in User : v = u /\ (MayEdit(v, c) \/ MayEdit(v, c)')}
    BY DEF Seeing
  <1>2. seen'[r].admin = (seen[r].admin \/ \E v \in User : v = u /\ Admin(v))
    BY DEF Seeing
  <1> QED
    BY <1>1, <1>2

LEMMA WatchedMore ==
    ASSUME NEW h, NEW edit, NEW admin, NEW edit2, NEW admin2, Watched(h, edit, admin),
           edit \subseteq edit2, admin => admin2
    PROVE  Watched(h, edit2, admin2)
  BY DEF Watched

\* A step of a handler, after which it holds h.
LEMMA HandlerStep ==
    ASSUME HandlersInv, NEW r \in Req, NEW h \in Handler, Goto(r, h), Sound(h), TablesOK', Recording,
           Watched(h, LatelySeen(r, h).edit, LatelySeen(r, h).admin)
    PROVE  HandlersInv'
  <1>1. req' \in [Req -> Handler] /\ \A s \in Req : req'[s] = IF s = r THEN h ELSE req[s]
    BY DEF HandlersInv, VaultTypeOK, Goto
  <1>2. VaultTypeOK'
    BY <1>1, RecordingTypes DEF HandlersInv, VaultTypeOK, TablesOK
  <1>3. AllSound'
    BY <1>1 DEF HandlersInv, AllSound
  <1>4. ASSUME NEW s \in Req, req'[s].stage # "idle"
        PROVE  Watched(req'[s], seen'[s].edit, seen'[s].admin)
    <2>1. req'[s].user \in User
      BY <1>3, <1>4 DEF AllSound, Sound, Busy
    <2>2. /\ seen[s].edit \subseteq seen'[s].edit /\ (seen[s].admin => seen'[s].admin)
          /\ \A c \in req'[s].ids : MayEdit(req'[s].user, c) => c \in seen'[s].edit
          /\ Admin(req'[s].user) => seen'[s].admin
      BY <2>1, <1>4, SeenGrows DEF Recording
    <2>3. CASE s = r
      <3>1. req'[s] = h
        BY <1>1, <2>3
      <3>2. LatelySeen(r, h).edit \subseteq seen'[s].edit /\ (LatelySeen(r, h).admin => seen'[s].admin)
        BY <2>2, <2>3, <3>1 DEF LatelySeen
      <3> QED
        BY <3>1, <3>2, WatchedMore
    <2>4. CASE s # r
      <3>1. req'[s] = req[s] /\ Watched(req[s], seen[s].edit, seen[s].admin)
        BY <1>1, <2>4 DEF HandlersInv, AllWatched
      <3> QED
        BY <3>1, <2>2, WatchedMore
    <2> QED
      BY <2>3, <2>4
  <1>5. AllWatched'
    BY <1>4 DEF AllWatched, Watched
  <1> QED
    BY <1>2, <1>3, <1>5 DEF HandlersInv

\* A step of no handler.
LEMMA CronStep ==
    ASSUME HandlersInv, UNCHANGED req, TablesOK', Recording
    PROVE  HandlersInv'
  <1>1. VaultTypeOK'
    BY RecordingTypes DEF HandlersInv, VaultTypeOK, TablesOK
  <1>2. AllSound'
    BY DEF HandlersInv, AllSound
  <1>3. ASSUME NEW s \in Req, req'[s].stage # "idle"
        PROVE  Watched(req'[s], seen'[s].edit, seen'[s].admin)
    <2>1. req'[s].user \in User
      BY <1>2, <1>3 DEF AllSound, Sound, Busy
    <2>2. seen[s].edit \subseteq seen'[s].edit /\ (seen[s].admin => seen'[s].admin)
      BY <2>1, <1>3, SeenGrows DEF Recording
    <2> QED
      BY <2>2, WatchedMore DEF HandlersInv, AllWatched
  <1>4. AllWatched'
    BY <1>3 DEF AllWatched, Watched
  <1> QED
    BY <1>1, <1>2, <1>4 DEF HandlersInv

LEMMA QueryOK == ASSUME VaultTypeOK, Query, excused' \subseteq {"error", "crash", "cascade", "purge"} PROVE TablesOK'
  BY DEF VaultTypeOK, Query, tables, TablesOK

\* What was seen before and what can be seen now is seen of late.
LEMMA SeenLately ==
    ASSUME HandlersInv, NEW r \in Req, NEW h
    PROVE  /\ seen[r].edit \subseteq LatelySeen(r, h).edit
           /\ \A c \in h.ids : MayEdit(h.user, c) => c \in LatelySeen(r, h).edit
           /\ seen[r].admin \/ Admin(h.user) => LatelySeen(r, h).admin
  BY DEF LatelySeen

-----------------------------------------------------------------------------
\* What steps do to the slot

\* What no handler changes; and what most steps leave alone besides.
Holds(g, h) ==
    /\ g.route = h.route /\ g.user = h.user /\ g.ids = h.ids /\ g.folder = h.folder
    /\ g.ask = h.ask /\ g.remove = h.remove /\ g.other = h.other
Same(g, h) ==
    /\ Holds(g, h)
    /\ g.todo = h.todo /\ g.c = h.c /\ g.org = h.org /\ g.cols = h.cols /\ g.scopes = h.scopes

LEMMA Goes ==
    ASSUME VaultTypeOK, NEW r \in Req, NEW stage \in Stage, Proceed(r, stage)
    PROVE  \E g \in Handler : Goto(r, g) /\ g.stage = stage /\ Same(g, req[r]) /\ g.wrote = req[r].wrote
  <1>1. PICK h \in Handler : h = req[r]
    BY DEF VaultTypeOK
  <1> DEFINE g == [h EXCEPT !.stage = stage]
  <1>2. g \in Handler
    BY DEF Handler
  <1>3. g.stage = stage /\ Same(g, h) /\ g.wrote = h.wrote
    BY DEF Handler, Same, Holds
  <1>4. Goto(r, g)
    BY <1>1 DEF Proceed, Goto
  <1> HIDE DEF g
  <1> QED
    BY <1>1, <1>2, <1>3, <1>4

LEMMA Writes ==
    ASSUME VaultTypeOK, NEW r \in Req, NEW stage \in Stage, Wrote(r, stage)
    PROVE  \E g \in Handler : Goto(r, g) /\ g.stage = stage /\ Same(g, req[r]) /\ g.wrote = TRUE
  <1>1. PICK h \in Handler : h = req[r] /\ req \in [Req -> Handler]
    BY DEF VaultTypeOK
  <1> DEFINE g == [h EXCEPT !.stage = stage, !.wrote = TRUE]
  <1>2. g \in Handler
    BY DEF Handler
  <1>3. g.stage = stage /\ Same(g, h) /\ g.wrote = TRUE
    BY DEF Handler, Same, Holds
  <1>4. Goto(r, g)
    BY <1>1 DEF Wrote, Goto
  <1> HIDE DEF g
  <1> QED
    BY <1>1, <1>2, <1>3, <1>4

LEMMA Ends ==
    ASSUME VaultTypeOK, NEW r \in Req, Finish(r) \/ GiveUp(r) \/ Leave(r, "crash")
    PROVE  Goto(r, Idle) /\ excused' \subseteq {"error", "crash", "cascade", "purge"}
  BY DEF Finish, GiveUp, Leave, Goto, VaultTypeOK

\* A read of c, and the step to the next stage; most of the fields stay.
LEMMA AccessDoes ==
    ASSUME HandlersInv, NEW r \in Req, Access(r)
    PROVE  /\ Query /\ At(r, "access")
           /\ \/ GiveUp(r)
              \/ \E g \in Handler, c \in req[r].todo :
                    /\ Goto(r, g) /\ UNCHANGED excused /\ Holds(g, req[r]) /\ g.org = req[r].org /\ g.wrote = req[r].wrote
                    /\ g.todo = req[r].todo \ {c} /\ g.c = c
                    /\ g.scopes = req[r].scopes \cup {IF cipher[c].org THEN "org" ELSE "personal"}
                    /\ CanEdit(g.user, c)
                    /\ g.route = "move" => ~cipher[c].org
                    /\ g.route = "partial" /\ g.folder # None => ~cipher[c].org
                    /\ g.route \in {"collections", "bulkCollections"} => cipher[c].org
                    /\ g.route \in {"update", "share"} => g.stage = "fetch"
                    /\ g.route \in {"collections", "bulkCollections"} => g.stage = "vetAssignment"
                    /\ g.route \notin InTurn /\ g.todo # {} => g.stage = "access"
                    /\ g.route \notin InTurn /\ g.todo = {} =>
                          g.stage = IF g.route = "hardDelete" THEN "dropPlaced"
                                    ELSE IF g.folder # None THEN "vetFolder" ELSE "write"
  <1>1. PICK h \in Handler : h = req[r] /\ req \in [Req -> Handler]
    BY DEF HandlersInv, VaultTypeOK
  <1>2. Query /\ At(r, "access")
    BY DEF Access
  <1> SUFFICES ASSUME ~GiveUp(r)
               PROVE  \E g \in Handler, c \in req[r].todo :
                    /\ Goto(r, g) /\ UNCHANGED excused /\ Holds(g, req[r]) /\ g.org = req[r].org /\ g.wrote = req[r].wrote
                    /\ g.todo = req[r].todo \ {c} /\ g.c = c
                    /\ g.scopes = req[r].scopes \cup {IF cipher[c].org THEN "org" ELSE "personal"}
                    /\ CanEdit(g.user, c)
                    /\ g.route = "move" => ~cipher[c].org
                    /\ g.route = "partial" /\ g.folder # None => ~cipher[c].org
                    /\ g.route \in {"collections", "bulkCollections"} => cipher[c].org
                    /\ g.route \in {"update", "share"} => g.stage = "fetch"
                    /\ g.route \in {"collections", "bulkCollections"} => g.stage = "vetAssignment"
                    /\ g.route \notin InTurn /\ g.todo # {} => g.stage = "access"
                    /\ g.route \notin InTurn /\ g.todo = {} =>
                          g.stage = IF g.route = "hardDelete" THEN "dropPlaced"
                                    ELSE IF g.folder # None THEN "vetFolder" ELSE "write"
    BY <1>2
  <1>3. h.stage = "access" /\ Busy(h) /\ h.route \in Changing
    BY <1>1, <1>2 DEF HandlersInv, AllSound, Sound, Busy, Follows, At
  <1> DEFINE inTurn == req[r].route \in {"update", "share", "collections", "bulkCollections"}
             then == IF req[r].route \in {"update", "share"} THEN "fetch"
                     ELSE IF inTurn THEN "vetAssignment"
                     ELSE IF req[r].route = "hardDelete" THEN "dropPlaced"
                     ELSE IF req[r].folder # None THEN "vetFolder" ELSE "write"
             next(c) == CASE req[r].route = "collections" -> req[r].ask
                          [] req[r].route = "bulkCollections" ->
                                IF req[r].remove THEN ColsOf(c) \ req[r].ask ELSE ColsOf(c) \cup req[r].ask
                          [] OTHER -> {}
             refused(c) ==
                \/ ~CanEdit(req[r].user, c)
                \/ req[r].route = "move" /\ cipher[c].org
                \/ req[r].route = "partial" /\ cipher[c].org /\ req[r].folder # None
                \/ req[r].route \in {"collections", "bulkCollections"} /\ ~cipher[c].org
             stages(c) == IF inTurn \/ req[r].todo = {c} THEN then ELSE "access"
  <1>40. PICK c \in req[r].todo :
          /\ ~refused(c) /\ UNCHANGED excused
          /\ Goto(r, [req[r] EXCEPT !.todo = @ \ {c}, !.c = c, !.cols = next(c),
                               !.scopes = @ \cup {IF cipher[c].org THEN "org" ELSE "personal"}, !.stage = stages(c)])
    BY DEF Access
  <1>4. /\ c \in h.todo /\ c \in Cipher /\ CanEdit(h.user, c)
        /\ h.route = "move" => ~cipher[c].org
        /\ h.route = "partial" /\ h.folder # None => ~cipher[c].org
        /\ h.route \in {"collections", "bulkCollections"} => cipher[c].org
        /\ UNCHANGED excused
    BY <1>1, <1>40 DEF Handler
  <1>5. PICK cols \in SUBSET Collection : cols = next(c)
    BY <1>1, <1>3 DEF Busy, ColsOf
  <1>6. PICK stage \in Stage : stage = stages(c)
    BY DEF Stage
  <1>7. /\ h.route \in {"update", "share"} => stage = "fetch"
        /\ h.route \in {"collections", "bulkCollections"} => stage = "vetAssignment"
        /\ h.route \notin InTurn /\ h.todo # {c} => stage = "access"
        /\ h.route \notin InTurn /\ h.todo = {c} =>
              stage = IF h.route = "hardDelete" THEN "dropPlaced"
                      ELSE IF h.folder # None THEN "vetFolder" ELSE "write"
    BY <1>1, <1>6 DEF InTurn
  <1> HIDE DEF then, next, refused, stages, inTurn
  <1>8. PICK scope \in {"org", "personal"} : scope = IF cipher[c].org THEN "org" ELSE "personal"
    OBVIOUS
  <1> DEFINE g == [h EXCEPT !.todo = @ \ {c}, !.c = c, !.cols = cols, !.scopes = @ \cup {scope}, !.stage = stage]
  <1>9. g \in Handler
    BY <1>4 DEF Handler
  <1>10. /\ Holds(g, h) /\ g.org = h.org /\ g.wrote = h.wrote /\ g.todo = h.todo \ {c} /\ g.c = c
         /\ g.scopes = h.scopes \cup {scope} /\ g.stage = stage
    BY DEF Handler, Holds
  <1>11. Goto(r, g)
    BY <1>1, <1>40, <1>5, <1>6, <1>8
  <1> HIDE DEF g
  <1>12. g.todo = {} <=> h.todo = {c}
    BY <1>4, <1>10
  <1>13. /\ g.route \in {"update", "share"} => g.stage = "fetch"
         /\ g.route \in {"collections", "bulkCollections"} => g.stage = "vetAssignment"
         /\ g.route \notin InTurn /\ g.todo # {} => g.stage = "access"
         /\ g.route \notin InTurn /\ g.todo = {} =>
               g.stage = IF g.route = "hardDelete" THEN "dropPlaced"
                         ELSE IF g.folder # None THEN "vetFolder" ELSE "write"
    BY <1>7, <1>10, <1>12 DEF InTurn, Holds
  <1> QED
    BY <1>1, <1>4, <1>8, <1>9, <1>10, <1>11, <1>13 DEF Holds

LEMMA FetchDoes ==
    ASSUME HandlersInv, NEW r \in Req, Fetch(r)
    PROVE  /\ Query /\ At(r, "fetch")
           /\ \/ GiveUp(r)
              \/ \E g \in Handler :
                    /\ Goto(r, g) /\ UNCHANGED excused /\ Holds(g, req[r]) /\ g.todo = req[r].todo /\ g.c = req[r].c
                    /\ g.scopes = req[r].scopes /\ g.wrote = req[r].wrote
                    /\ g.c \in Cipher /\ cipher[g.c] # None
                    /\ g.org = (g.route = "share" \/ cipher[g.c].org)
                    /\ g.route = "update" /\ cipher[g.c].org => g.folder = None
                    /\ g.cols = IF g.ask = None THEN {} ELSE g.ask
                    /\ g.stage = IF g.ask # None THEN "vetAssignment"
                                 ELSE IF g.folder # None THEN "vetFolder" ELSE "writeRow"
  <1>1. PICK h \in Handler : h = req[r] /\ req \in [Req -> Handler] /\ cipher \in [Cipher -> Row \cup {None}]
    BY DEF HandlersInv, VaultTypeOK
  <1>2. Query /\ At(r, "fetch")
    BY DEF Fetch
  <1>3. h.stage = "fetch" /\ Busy(h) /\ h.route \in {"update", "share"}
    BY <1>1, <1>2 DEF HandlersInv, AllSound, Sound, Busy, Follows, At
  <1>4. h.c \in Cipher /\ h.ask \in (SUBSET Collection) \cup {None}
    BY <1>3 DEF Busy, Reached, InTurn, Handler
  <1> SUFFICES ASSUME ~GiveUp(r)
               PROVE  \E g \in Handler :
                    /\ Goto(r, g) /\ UNCHANGED excused /\ Holds(g, req[r]) /\ g.todo = req[r].todo /\ g.c = req[r].c
                    /\ g.scopes = req[r].scopes /\ g.wrote = req[r].wrote
                    /\ g.c \in Cipher /\ cipher[g.c] # None
                    /\ g.org = (g.route = "share" \/ cipher[g.c].org)
                    /\ g.route = "update" /\ cipher[g.c].org => g.folder = None
                    /\ g.cols = IF g.ask = None THEN {} ELSE g.ask
                    /\ g.stage = IF g.ask # None THEN "vetAssignment"
                                 ELSE IF g.folder # None THEN "vetFolder" ELSE "writeRow"
    BY <1>2
  <1>5. /\ cipher[h.c] # None /\ UNCHANGED excused
        /\ ~(h.route = "update" /\ cipher[h.c].org /\ h.folder # None)
        /\ Goto(r, [req[r] EXCEPT !.org = (req[r].route = "share" \/ cipher[req[r].c].org),
                                  !.cols = IF req[r].ask = None THEN {} ELSE req[r].ask,
                                  !.stage = IF req[r].ask # None THEN "vetAssignment" ELSE AfterVetting(req[r])])
    BY <1>1 DEF Fetch
  <1>6. PICK row \in Row : row = cipher[h.c]
    BY <1>1, <1>4, <1>5
  <1>7. PICK org \in BOOLEAN : org = (h.route = "share" \/ cipher[h.c].org)
    OBVIOUS
  <1>8. PICK cols \in SUBSET Collection : cols = IF h.ask = None THEN {} ELSE h.ask
    BY <1>4
  <1>9. PICK stage \in Stage : stage = IF h.ask # None THEN "vetAssignment"
                                       ELSE IF h.folder # None THEN "vetFolder" ELSE "writeRow"
    BY DEF Stage
  <1>10. stage = IF h.ask # None THEN "vetAssignment" ELSE AfterVetting(h)
    BY <1>3, <1>9 DEF AfterVetting
  <1> DEFINE g == [h EXCEPT !.org = org, !.cols = cols, !.stage = stage]
  <1>11. g \in Handler
    BY DEF Handler
  <1>12. /\ Holds(g, h) /\ g.todo = h.todo /\ g.c = h.c /\ g.scopes = h.scopes /\ g.wrote = h.wrote
         /\ g.org = org /\ g.cols = cols /\ g.stage = stage
    BY DEF Handler, Holds
  <1>13. Goto(r, g)
    BY <1>1, <1>5, <1>7, <1>8, <1>10
  <1> HIDE DEF g
  <1> QED
    BY <1>1, <1>3, <1>4, <1>5, <1>7, <1>8, <1>9, <1>11, <1>12, <1>13 DEF Holds

LEMMA InsertDoes ==
    ASSUME HandlersInv, NEW r \in Req, Insert(r)
    PROVE  /\ At(r, "insert") /\ drawn' = drawn \cup req[r].ids
           /\ \E cs \in SUBSET req[r].todo :
                 /\ cs # {} /\ OnlyCiphers(cs) /\ UNCHANGED placed
                 /\ \/ GiveUp(r) /\ UNCHANGED cipher
                    \/ /\ req[r].user \in account /\ (req[r].folder = None \/ req[r].folder \in folder)
                       /\ cipher' = [c \in Cipher |-> IF c \in cs
                             THEN [creator |-> req[r].user, org |-> req[r].org, folder |-> req[r].folder,
                                   trash |-> "no"] ELSE cipher[c]]
                       /\ UNCHANGED excused
                       /\ \E g \in Handler :
                             /\ Goto(r, g) /\ Holds(g, req[r]) /\ g.c = req[r].c /\ g.org = req[r].org
                             /\ g.cols = req[r].cols /\ g.scopes = req[r].scopes /\ g.wrote = TRUE
                             /\ \/ g.todo = req[r].todo \ cs /\ g.stage = "insert"
                                \/ cs = req[r].todo /\ g.todo = req[r].ids /\ g.stage = "place"
  <1>1. PICK h \in Handler : h = req[r] /\ req \in [Req -> Handler]
    BY DEF HandlersInv, VaultTypeOK
  <1>2. At(r, "insert") /\ h.stage = "insert"
    BY <1>1 DEF Insert, At
  <1>3. PICK cs \in SUBSET req[r].todo :
          /\ cs # {}
          /\ IF req[r].user \notin account \/ (req[r].folder # None /\ req[r].folder \notin folder)
               THEN GiveUp(r) /\ UNCHANGED <<cipher, placed>>
               ELSE /\ cipher' = [c \in Cipher |-> IF c \in cs
                          THEN [creator |-> req[r].user, org |-> req[r].org, folder |-> req[r].folder,
                                trash |-> "no"] ELSE cipher[c]]
                    /\ Goto(r, IF cs # req[r].todo THEN [req[r] EXCEPT !.todo = @ \ cs, !.wrote = TRUE]
                               ELSE [req[r] EXCEPT !.todo = req[r].ids, !.wrote = TRUE, !.stage = "place"])
                    /\ UNCHANGED <<placed, excused>>
          /\ drawn' = drawn \cup req[r].ids
          /\ OnlyCiphers(cs)
    BY DEF Insert
  <1>4. CASE GiveUp(r) /\ UNCHANGED <<cipher, placed>>
    BY <1>2, <1>3, <1>4
  <1>5. CASE ~(GiveUp(r) /\ UNCHANGED <<cipher, placed>>)
    <2> DEFINE g1 == [h EXCEPT !.todo = @ \ cs, !.wrote = TRUE]
               g2 == [h EXCEPT !.todo = h.ids, !.wrote = TRUE, !.stage = "place"]
    <2>1. g1 \in Handler /\ g2 \in Handler
      <3>1. h.todo \ cs \in SUBSET Cipher /\ h.ids \in SUBSET Cipher /\ "place" \in Stage
        BY DEF Handler, Stage
      <3>2. g1 \in Handler
        BY <3>1 DEF Handler
      <3>3. g2 \in Handler
        BY <3>1 DEF Handler
      <3> QED
        BY <3>2, <3>3
    <2>2. /\ Holds(g1, h) /\ g1.c = h.c /\ g1.org = h.org /\ g1.cols = h.cols /\ g1.scopes = h.scopes
          /\ g1.wrote = TRUE /\ g1.todo = h.todo \ cs /\ g1.stage = h.stage
      BY DEF Handler, Holds
    <2>3. /\ Holds(g2, h) /\ g2.c = h.c /\ g2.org = h.org /\ g2.cols = h.cols /\ g2.scopes = h.scopes
          /\ g2.wrote = TRUE /\ g2.todo = h.ids /\ g2.stage = "place"
      BY DEF Handler, Holds
    <2>4. IF cs # h.todo THEN Goto(r, g1) ELSE Goto(r, g2)
      BY <1>1, <1>3, <1>5
    <2> HIDE DEF g1, g2
    <2>5. \E g \in Handler :
             /\ Goto(r, g) /\ Holds(g, h) /\ g.c = h.c /\ g.org = h.org
             /\ g.cols = h.cols /\ g.scopes = h.scopes /\ g.wrote = TRUE
             /\ \/ g.todo = h.todo \ cs /\ g.stage = "insert"
                \/ cs = h.todo /\ g.todo = h.ids /\ g.stage = "place"
      <3>1. CASE cs # h.todo
        BY <3>1, <1>2, <2>1, <2>2, <2>4
      <3>2. CASE cs = h.todo
        BY <3>2, <2>1, <2>3, <2>4
      <3> QED
        BY <3>1, <3>2
    <2> QED
      BY <1>1, <1>2, <1>3, <1>5, <2>5
  <1> QED
    BY <1>4, <1>5

LEMMA PlaceDoes ==
    ASSUME HandlersInv, NEW r \in Req, Place(r)
    PROVE  /\ At(r, "place") /\ UNCHANGED <<cipher, drawn>> /\ OnlyCiphers({})
           /\ \/ GiveUp(r) /\ UNCHANGED placed
              \/ \E g \in Handler, c \in Cipher :
                    /\ c \in IF g.route \in Making THEN req[r].todo ELSE {g.c}
                    /\ g.cols = {} \/ (cipher[c] # None /\ g.cols \subseteq collection)
                    /\ placed' = {p \in placed : p[1] # c} \cup ({c} \X g.cols)
                    /\ Goto(r, g) /\ UNCHANGED excused /\ Holds(g, req[r]) /\ g.todo = req[r].todo \ {c}
                    /\ g.c = req[r].c /\ g.org = req[r].org /\ g.cols = req[r].cols
                    /\ g.scopes = req[r].scopes /\ g.wrote = TRUE
                    /\ g.stage = IF g.route \in Making THEN IF req[r].todo = {c} THEN "touch" ELSE "place"
                                 ELSE IF g.route \in {"update", "share"} THEN "touch" ELSE "bump"
  <1>1. PICK h \in Handler : h = req[r] /\ req \in [Req -> Handler]
    BY DEF HandlersInv, VaultTypeOK
  <1>2. At(r, "place") /\ h.stage = "place" /\ Busy(h) /\ h.route \in Making \cup InTurn
    BY <1>1 DEF Place, At, HandlersInv, AllSound, Sound, Busy, Follows
  <1>3. PICK c \in IF req[r].route \in {"create", "import"} THEN req[r].todo ELSE {req[r].c} :
          /\ IF req[r].cols # {} /\ (cipher[c] = None \/ ~(req[r].cols \subseteq collection))
               THEN GiveUp(r) /\ UNCHANGED placed
               ELSE /\ placed' = {p \in placed : p[1] # c} \cup ({c} \X req[r].cols)
                    /\ Goto(r, [req[r] EXCEPT !.todo = @ \ {c}, !.wrote = TRUE,
                                         !.stage = IF req[r].route \in {"create", "import"}
                                                   THEN IF req[r].todo = {c} THEN "touch" ELSE @
                                                   ELSE IF req[r].route \in {"update", "share"} THEN "touch"
                                                   ELSE "bump"])
                    /\ UNCHANGED excused
          /\ UNCHANGED <<cipher, drawn>> /\ OnlyCiphers({})
    BY DEF Place
  <1>4. c \in Cipher
    <2>1. h.route \notin Making => Reached(h)
      BY <1>2 DEF Reached
    <2> QED
      BY <1>1, <1>2, <1>3, <2>1 DEF Busy, Handler, Making
  <1>5. CASE GiveUp(r) /\ UNCHANGED placed
    BY <1>2, <1>3, <1>5
  <1>6. CASE ~(GiveUp(r) /\ UNCHANGED placed)
    <2>1. PICK stage \in Stage : stage = IF h.route \in Making THEN IF h.todo = {c} THEN "touch" ELSE "place"
                                 ELSE IF h.route \in {"update", "share"} THEN "touch" ELSE "bump"
      BY DEF Stage
    <2> DEFINE g == [h EXCEPT !.todo = @ \ {c}, !.wrote = TRUE, !.stage = stage]
    <2>2. g \in Handler
      BY DEF Handler
    <2>3. /\ Holds(g, h) /\ g.todo = h.todo \ {c} /\ g.c = h.c /\ g.org = h.org /\ g.cols = h.cols
          /\ g.scopes = h.scopes /\ g.wrote = TRUE /\ g.stage = stage
      BY DEF Handler, Holds
    <2>4. Goto(r, g)
      BY <1>1, <1>2, <1>3, <1>6, <2>1 DEF Making
    <2> HIDE DEF g
    <2>5. /\ c \in IF g.route \in Making THEN h.todo ELSE {g.c}
          /\ g.cols = {} \/ (cipher[c] # None /\ g.cols \subseteq collection)
          /\ placed' = {p \in placed : p[1] # c} \cup ({c} \X g.cols)
          /\ UNCHANGED excused
      BY <1>1, <1>3, <1>6, <2>3 DEF Making, Holds
    <2>6. g.stage = IF g.route \in Making THEN IF h.todo = {c} THEN "touch" ELSE "place"
                    ELSE IF g.route \in {"update", "share"} THEN "touch" ELSE "bump"
      BY <2>1, <2>3 DEF Holds
    <2> QED
      BY <1>1, <1>2, <1>3, <1>4, <2>2, <2>3, <2>4, <2>5, <2>6
  <1> QED
    BY <1>5, <1>6

LEMMA WriteRowDoes ==
    ASSUME HandlersInv, NEW r \in Req, WriteRow(r)
    PROVE  /\ At(r, "writeRow") /\ UNCHANGED <<placed, drawn>> /\ OnlyCiphers({req[r].c})
           /\ \/ GiveUp(r) /\ UNCHANGED cipher
              \/ \E g \in Handler :
                    /\ g.c \in Cipher
                    /\ cipher[g.c] = None \/ g.folder = None \/ g.folder \in folder
                    /\ cipher' = [cipher EXCEPT ![g.c] = IF cipher[g.c] = None THEN None
                                     ELSE [cipher[g.c] EXCEPT !.org = g.org, !.folder = g.folder]]
                    /\ Goto(r, g) /\ UNCHANGED excused /\ Holds(g, req[r]) /\ g.todo = req[r].todo
                    /\ g.c = req[r].c /\ g.org = req[r].org /\ g.cols = req[r].cols /\ g.wrote = TRUE
                    /\ g.scopes = {IF g.org THEN "org" ELSE "personal"}
                    /\ g.stage = IF g.ask = None THEN "touch" ELSE "place"
  <1>1. PICK h \in Handler : h = req[r] /\ req \in [Req -> Handler] /\ cipher \in [Cipher -> Row \cup {None}]
    BY DEF HandlersInv, VaultTypeOK
  <1>2. At(r, "writeRow") /\ h.stage = "writeRow" /\ Busy(h) /\ h.route \in {"update", "share"}
    BY <1>1 DEF WriteRow, At, HandlersInv, AllSound, Sound, Busy, Follows
  <1>3. h.c \in Cipher
    BY <1>2 DEF Busy, Reached, InTurn, Handler
  <1>4. UNCHANGED <<placed, drawn>> /\ OnlyCiphers({req[r].c})
    BY DEF WriteRow
  <1>5. CASE GiveUp(r) /\ UNCHANGED cipher
    BY <1>2, <1>4, <1>5
  <1>6. CASE ~(GiveUp(r) /\ UNCHANGED cipher)
    <2>1. /\ ~(cipher[h.c] # None /\ h.folder # None /\ h.folder \notin folder)
          /\ cipher' = [cipher EXCEPT ![h.c] = IF @ = None THEN None ELSE Updated(@, h)]
          /\ Goto(r, [req[r] EXCEPT !.wrote = TRUE, !.stage = IF req[r].ask = None THEN "touch" ELSE "place",
                                    !.scopes = {IF req[r].org THEN "org" ELSE "personal"}])
          /\ UNCHANGED excused
      BY <1>1, <1>6 DEF WriteRow
    <2>2. PICK stage \in Stage : stage = IF h.ask = None THEN "touch" ELSE "place"
      BY DEF Stage
    <2>3. PICK scope \in {"personal", "org"} : scope = IF h.org THEN "org" ELSE "personal"
      OBVIOUS
    <2> DEFINE g == [h EXCEPT !.wrote = TRUE, !.stage = stage, !.scopes = {scope}]
    <2>4. g \in Handler
      BY DEF Handler
    <2>5. /\ Holds(g, h) /\ g.todo = h.todo /\ g.c = h.c /\ g.org = h.org /\ g.cols = h.cols
          /\ g.scopes = {scope} /\ g.wrote = TRUE /\ g.stage = stage
      BY DEF Handler, Holds
    <2>6. Goto(r, g)
      BY <1>1, <2>1, <2>2, <2>3
    <2> HIDE DEF g
    <2>7. cipher' = [cipher EXCEPT ![g.c] = IF cipher[g.c] = None THEN None
                                     ELSE [cipher[g.c] EXCEPT !.org = g.org, !.folder = g.folder]]
      BY <1>1, <1>3, <2>1, <2>5 DEF Updated, Holds
    <2>8. cipher[g.c] = None \/ g.folder = None \/ g.folder \in folder
      BY <2>1, <2>5 DEF Holds
    <2>9. g.scopes = {IF g.org THEN "org" ELSE "personal"} /\ g.stage = IF g.ask = None THEN "touch" ELSE "place"
      BY <2>2, <2>3, <2>5 DEF Holds
    <2> QED
      BY <1>1, <1>2, <1>3, <1>4, <2>1, <2>4, <2>5, <2>6, <2>7, <2>8, <2>9
  <1> QED
    BY <1>5, <1>6

LEMMA WriteDoes ==
    ASSUME HandlersInv, NEW r \in Req, Write(r)
    PROVE  LET h == req[r]
               cs == {c \in h.ids : cipher[c] # None /\ (h.route = "move" => cipher[c].creator = h.user)}
           IN
           /\ At(r, "write") /\ UNCHANGED <<placed, drawn>> /\ OnlyCiphers(cs)
           /\ \/ GiveUp(r) /\ UNCHANGED cipher
              \/ \E g \in Handler :
                    /\ cs = {} \/ h.folder = None \/ h.folder \in folder
                    /\ cipher' = [c \in Cipher |-> IF c \in cs THEN Marked(cipher[c], h) ELSE cipher[c]]
                    /\ Goto(r, g) /\ g.stage \in {"touch", "refetch"} /\ Same(g, h) /\ g.wrote = TRUE
                    /\ UNCHANGED excused
  <1> DEFINE h == req[r]
             cs == {c \in h.ids : cipher[c] # None /\ (h.route = "move" => cipher[c].creator = h.user)}
  <1>1. At(r, "write") /\ UNCHANGED <<placed, drawn>> /\ OnlyCiphers(cs)
    BY DEF Write
  <1>2. CASE GiveUp(r) /\ UNCHANGED cipher
    BY <1>1, <1>2
  <1>3. CASE ~(GiveUp(r) /\ UNCHANGED cipher)
    <2>1. /\ ~(cs # {} /\ h.folder # None /\ h.folder \notin folder)
          /\ cipher' = [c \in Cipher |-> IF c \in cs THEN Marked(cipher[c], h) ELSE cipher[c]]
          /\ Wrote(r, "touch") \/ Wrote(r, "refetch")
          /\ UNCHANGED excused
      BY <1>3 DEF Write
    <2>2. "touch" \in Stage /\ "refetch" \in Stage /\ VaultTypeOK
      BY DEF Stage, HandlersInv
    <2>3. PICK g \in Handler : Goto(r, g) /\ g.stage \in {"touch", "refetch"} /\ Same(g, req[r]) /\ g.wrote = TRUE
      BY <2>1, <2>2, Writes
    <2> QED
      BY <1>1, <2>1, <2>3
  <1> QED
    BY <1>2, <1>3

LEMMA TouchDoes ==
    ASSUME HandlersInv, NEW r \in Req, Touch(r)
    PROVE  LET left == IF "personal" \in req[r].scopes THEN req[r].scopes \ {"personal"} ELSE {} IN
           /\ At(r, "touch") /\ UNCHANGED <<tables, cron, drawn>> /\ untold' = untold \ Told(req[r])
           /\ UNCHANGED excused
           /\ \/ Goto(r, Idle) /\ left = {}
              \/ \E g \in Handler :
                    /\ Goto(r, g) /\ Holds(g, req[r]) /\ g.todo = req[r].todo /\ g.c = req[r].c /\ g.org = req[r].org
                    /\ g.cols = req[r].cols /\ g.wrote = req[r].wrote
                    /\ \/ left # {} /\ g.scopes = left /\ g.stage = "touch"
                       \/ left = {} /\ g.scopes = req[r].scopes /\ g.stage = "access" /\ g.route = "share"
  <1>1. PICK h \in Handler : h = req[r] /\ req \in [Req -> Handler]
    BY DEF HandlersInv, VaultTypeOK
  <1> DEFINE left == IF "personal" \in req[r].scopes THEN req[r].scopes \ {"personal"} ELSE {}
  <1>2. /\ At(r, "touch") /\ UNCHANGED <<tables, cron, drawn>> /\ untold' = untold \ Told(req[r])
        /\ IF left # {} THEN Goto(r, [req[r] EXCEPT !.scopes = left]) /\ UNCHANGED excused
           ELSE IF req[r].route = "share" /\ req[r].todo # {} THEN Go(r, "access")
           ELSE Finish(r)
    BY DEF Touch
  <1>3. CASE left # {}
    <2>1. PICK rest \in SUBSET {"personal", "org"} : rest = left
      BY <1>1 DEF Handler
    <2> DEFINE g == [h EXCEPT !.scopes = rest]
    <2>2. g \in Handler
      BY DEF Handler
    <2>3. /\ Holds(g, h) /\ g.todo = h.todo /\ g.c = h.c /\ g.org = h.org /\ g.cols = h.cols /\ g.wrote = h.wrote
          /\ g.scopes = rest /\ g.stage = h.stage
      BY DEF Handler, Holds
    <2>4. Goto(r, g) /\ UNCHANGED excused
      BY <1>1, <1>2, <1>3, <2>1
    <2> HIDE DEF g
    <2>5. /\ Goto(r, g) /\ Holds(g, req[r]) /\ g.todo = req[r].todo /\ g.c = req[r].c /\ g.org = req[r].org
          /\ g.cols = req[r].cols /\ g.wrote = req[r].wrote /\ left # {} /\ g.scopes = left /\ g.stage = "touch"
      BY <1>1, <1>2, <1>3, <2>1, <2>3, <2>4 DEF At
    <2> QED
      BY <1>2, <2>2, <2>4, <2>5
  <1>4. CASE left = {} /\ req[r].route = "share" /\ req[r].todo # {}
    <2>1. "access" \in Stage /\ VaultTypeOK
      BY DEF Stage, HandlersInv
    <2>2. Proceed(r, "access") /\ UNCHANGED excused
      BY <1>2, <1>4 DEF Go
    <2>3. PICK g \in Handler : Goto(r, g) /\ g.stage = "access" /\ Same(g, req[r]) /\ g.wrote = req[r].wrote
      BY <2>1, <2>2, Goes
    <2> QED
      BY <1>2, <1>4, <2>2, <2>3 DEF Same, Holds
  <1>5. CASE left = {} /\ ~(req[r].route = "share" /\ req[r].todo # {})
    BY <1>2, <1>5 DEF Finish, Goto
  <1> QED
    BY <1>3, <1>4, <1>5

-----------------------------------------------------------------------------
\* Requests that begin

\* The scopes of the routes that do not learn them from the ciphers they name.
Personally == {"purgeVault", "deleteAccount", "createFolder", "deleteFolder"}
Wholly == Personally \cup {"deleteMember", "deleteCollection"}

\* What a handler holds when it has just begun.
Begun(g) ==
    /\ g.stage # "idle" /\ Sound(g) /\ ~Administers(g) /\ g.todo = g.ids
    /\ g.route \in Making \cup Changing \cup Wholly
    /\ g.route \in Making =>
          /\ g.ids \cap (drawn \cup BeingMade) = {} /\ ~g.wrote
          /\ g.stage \in {"vetAssignment", "vetFolder", "insertFolder", "insert"}
          /\ IF g.org THEN "org" \in g.scopes ELSE "personal" \in g.scopes
          /\ g.route = "import" => "personal" \in g.scopes
    /\ g.route \in Changing => g.ids \subseteq drawn /\ g.stage \in {"access", "vetBulk"} /\ g.scopes = {} /\ ~g.wrote
    /\ g.route \in Wholly =>
          /\ g.ids = {} /\ g.c = None /\ g.scopes = IF g.route \in Personally THEN {"personal"} ELSE {"org"}
          /\ IF g.route = "deleteMember" THEN g.other \in User ELSE g.other = None
          /\ g.route \in {"purgeVault", "deleteAccount"} => g.stage = "deletePersonal"
          /\ g.route \in {"createFolder", "deleteFolder"} => g.stage = "touch" /\ g.wrote
          /\ g.route = "deleteMember" => g.stage = "memberGrants"
          /\ g.route = "deleteCollection" => g.stage = "colPlaced"

\* All fields but route and user.
Filled(g, i) ==
    /\ g.stage = i.stage /\ g.ids = i.ids /\ g.todo = i.todo /\ g.c = i.c /\ g.org = i.org /\ g.folder = i.folder
    /\ g.ask = i.ask /\ g.remove = i.remove /\ g.cols = i.cols /\ g.scopes = i.scopes /\ g.other = i.other
    /\ g.wrote = i.wrote

LEMMA StartDoes ==
    ASSUME HandlersInv, NEW r \in Req, NEW u \in User, NEW route, NEW i \in Handler, Start(r, route, u, i)
    PROVE  /\ route \in Asked.route /\ route \in VaultRoutes /\ Query /\ UNCHANGED excused
           /\ \E g \in Handler : Goto(r, g) /\ g.route = route /\ g.user = u /\ Filled(g, i)
  <1>1. route \in Asked.route /\ Query /\ UNCHANGED excused
    BY DEF Start
  <1>2. route \in VaultRoutes
    BY <1>1, VaultWorkloadAssumption DEF Asked, HandlersInv, VaultTypeOK
  <1> DEFINE g == [i EXCEPT !.route = route, !.user = u]
  <1>3. g \in Handler
    BY <1>2 DEF Handler
  <1>4. g.route = route /\ g.user = u /\ Filled(g, i)
    BY <1>2 DEF Handler, Filled
  <1>5. Goto(r, g)
    BY DEF Start
  <1> HIDE DEF g
  <1> QED
    BY <1>1, <1>2, <1>3, <1>4, <1>5

LEMMA StartChangeDoes ==
    ASSUME HandlersInv, NEW r \in Req, NEW u \in User, NEW route, NEW cs \in SUBSET Cipher,
           NEW f \in Folder \cup {None}, StartChange(r, route, u, cs, f)
    PROVE  Query /\ UNCHANGED excused /\ \E g \in Handler : Goto(r, g) /\ Begun(g)
  <1>1. PICK h \in Handler : h = Idle
    BY IdleSound
  <1>2. /\ cs \subseteq drawn
        /\ route \in {"hardDelete", "softDelete", "restore", "archive", "unarchive", "partial", "move"}
        /\ route \notin {"partial", "move"} => f = None
    BY DEF StartChange, Named
  <1> DEFINE i == [h EXCEPT !.stage = "access", !.ids = cs, !.todo = cs, !.folder = f]
  <1>3. i \in Handler
    BY DEF Handler, Stage
  <1>4. i.stage = "access" /\ i.ids = cs /\ i.todo = cs /\ i.folder = f /\ i.scopes = h.scopes /\ i.wrote = h.wrote
    BY DEF Handler
  <1>5. Start(r, route, u, i) /\ h.scopes = {} /\ h.wrote = FALSE
    BY <1>1 DEF StartChange, Idle
  <1> HIDE DEF i
  <1>6. PICK g \in Handler : Goto(r, g) /\ g.route = route /\ g.user = u /\ Filled(g, i) /\ Query /\ UNCHANGED excused
    BY <1>3, <1>5, StartDoes
  <1>7. /\ g.stage = "access" /\ g.ids = cs /\ g.todo = cs /\ g.folder = f /\ g.scopes = {} /\ g.wrote = FALSE
        /\ g.route \in Marking \cup {"hardDelete"}
    BY <1>2, <1>4, <1>5, <1>6 DEF Filled, Marking
  <1>8. Busy(g)
    BY <1>2, <1>6, <1>7 DEF Busy, Follows, Through, FolderVetted, Reached, Changing, InTurn, Marking, Making
  <1>9. ~Administers(g)
    BY <1>7 DEF Administers, Marking
  <1>10. Begun(g)
    BY <1>2, <1>7, <1>8, <1>9 DEF Begun, Sound, Changing, InTurn, Marking, Making, Wholly, Personally
  <1> QED
    BY <1>6, <1>10

LEMMA StartUpdateDoes ==
    ASSUME HandlersInv, NEW r \in Req, NEW u \in User, NEW c \in Cipher, NEW org \in BOOLEAN,
           NEW cols \in (SUBSET Collection) \cup {None}, NEW f \in Folder \cup {None},
           StartUpdate(r, u, c, org, cols, f)
    PROVE  Query /\ UNCHANGED excused /\ \E g \in Handler : Goto(r, g) /\ Begun(g)
  <1>1. PICK h \in Handler : h = Idle
    BY IdleSound
  <1>2. {c} \subseteq drawn
    BY DEF StartUpdate, Named
  <1> DEFINE i == [h EXCEPT !.stage = "access", !.ids = {c}, !.todo = {c}, !.org = org, !.ask = cols, !.folder = f]
  <1>3. i \in Handler
    BY DEF Handler, Stage
  <1>4. i.stage = "access" /\ i.ids = {c} /\ i.todo = {c} /\ i.folder = f /\ i.scopes = h.scopes /\ i.wrote = h.wrote
    BY DEF Handler
  <1>5. Start(r, "update", u, i) /\ h.folder = None /\ h.scopes = {} /\ h.wrote = FALSE
    BY <1>1 DEF StartUpdate, Idle
  <1> HIDE DEF i
  <1>6. PICK g \in Handler : Goto(r, g) /\ g.route = "update" /\ g.user = u /\ Filled(g, i) /\ Query /\ UNCHANGED excused
    BY <1>3, <1>5, StartDoes
  <1>7. g.stage = "access" /\ g.ids = {c} /\ g.todo = {c} /\ g.folder = f /\ g.scopes = {} /\ g.wrote = FALSE
    BY <1>2, <1>4, <1>5, <1>6 DEF Filled
  <1>8. Busy(g)
    BY <1>2, <1>6, <1>7 DEF Busy, Follows, Through, FolderVetted, Reached, Changing, InTurn, Marking, Making
  <1>9. ~Administers(g)
    BY <1>6, <1>7 DEF Administers
  <1>10. Begun(g)
    BY <1>2, <1>6, <1>7, <1>8, <1>9 DEF Begun, Sound, Changing, InTurn, Marking, Making, Wholly, Personally
  <1> QED
    BY <1>6, <1>10

LEMMA StartShareDoes ==
    ASSUME HandlersInv, NEW r \in Req, NEW u \in User, NEW cs \in SUBSET Cipher, NEW cols \in SUBSET Collection,
           StartShare(r, u, cs, cols)
    PROVE  Query /\ UNCHANGED excused /\ \E g \in Handler : Goto(r, g) /\ Begun(g)
  <1>1. PICK h \in Handler : h = Idle
    BY IdleSound
  <1>2. cs \subseteq drawn
    BY DEF StartShare, Named
  <1> DEFINE i == [h EXCEPT !.stage = "access", !.ids = cs, !.todo = cs, !.org = TRUE, !.ask = cols]
  <1>3. i \in Handler
    BY DEF Handler, Stage
  <1>4. /\ i.stage = "access" /\ i.ids = cs /\ i.todo = cs /\ i.org = TRUE /\ i.ask = cols
        /\ i.folder = h.folder /\ i.scopes = h.scopes /\ i.wrote = h.wrote
    BY DEF Handler
  <1>5. Start(r, "share", u, i) /\ h.folder = None /\ h.scopes = {} /\ h.wrote = FALSE
    BY <1>1 DEF StartShare, Idle
  <1> HIDE DEF i
  <1>6. PICK g \in Handler : Goto(r, g) /\ g.route = "share" /\ g.user = u /\ Filled(g, i) /\ Query /\ UNCHANGED excused
    BY <1>3, <1>5, StartDoes
  <1>7. /\ g.stage = "access" /\ g.ids = cs /\ g.todo = cs /\ g.org = TRUE /\ g.ask = cols
        /\ g.folder = None /\ g.scopes = {} /\ g.wrote = FALSE
    BY <1>2, <1>4, <1>5, <1>6 DEF Filled
  <1>8. Busy(g)
    BY <1>2, <1>6, <1>7 DEF Busy, Follows, Through, FolderVetted, Reached, Changing, InTurn, Marking, Making
  <1>9. ~Administers(g)
    BY <1>6, <1>7 DEF Administers
  <1>10. Begun(g)
    BY <1>2, <1>6, <1>7, <1>8, <1>9 DEF Begun, Sound, Changing, InTurn, Marking, Making, Wholly, Personally
  <1> QED
    BY <1>6, <1>10

LEMMA StartCollectionsDoes ==
    ASSUME HandlersInv, NEW r \in Req, NEW u \in User, NEW c \in Cipher, NEW cols \in SUBSET Collection,
           StartCollections(r, u, c, cols)
    PROVE  Query /\ UNCHANGED excused /\ \E g \in Handler : Goto(r, g) /\ Begun(g)
  <1>1. PICK h \in Handler : h = Idle
    BY IdleSound
  <1>2. {c} \subseteq drawn
    BY DEF StartCollections, Named
  <1> DEFINE i == [h EXCEPT !.stage = "access", !.ids = {c}, !.todo = {c}, !.org = TRUE, !.ask = cols]
  <1>3. i \in Handler
    BY DEF Handler, Stage
  <1>4. /\ i.stage = "access" /\ i.ids = {c} /\ i.todo = {c} /\ i.org = TRUE /\ i.ask = cols
        /\ i.folder = h.folder /\ i.scopes = h.scopes /\ i.wrote = h.wrote
    BY DEF Handler
  <1>5. Start(r, "collections", u, i) /\ h.folder = None /\ h.scopes = {} /\ h.wrote = FALSE
    BY <1>1 DEF StartCollections, Idle
  <1> HIDE DEF i
  <1>6. PICK g \in Handler : Goto(r, g) /\ g.route = "collections" /\ g.user = u /\ Filled(g, i) /\ Query /\ UNCHANGED excused
    BY <1>3, <1>5, StartDoes
  <1>7. /\ g.stage = "access" /\ g.ids = {c} /\ g.todo = {c} /\ g.org = TRUE /\ g.ask = cols
        /\ g.folder = None /\ g.scopes = {} /\ g.wrote = FALSE
    BY <1>2, <1>4, <1>5, <1>6 DEF Filled
  <1>8. Busy(g)
    BY <1>2, <1>6, <1>7 DEF Busy, Follows, Through, FolderVetted, Reached, Changing, InTurn, Marking, Making
  <1>9. ~Administers(g)
    BY <1>6, <1>7 DEF Administers
  <1>10. Begun(g)
    BY <1>2, <1>6, <1>7, <1>8, <1>9 DEF Begun, Sound, Changing, InTurn, Marking, Making, Wholly, Personally
  <1> QED
    BY <1>6, <1>10

LEMMA StartBulkCollectionsDoes ==
    ASSUME HandlersInv, NEW r \in Req, NEW u \in User, NEW cs \in SUBSET Cipher, NEW cols \in SUBSET Collection,
           NEW remove \in BOOLEAN,
           StartBulkCollections(r, u, cs, cols, remove)
    PROVE  Query /\ UNCHANGED excused /\ \E g \in Handler : Goto(r, g) /\ Begun(g)
  <1>1. PICK h \in Handler : h = Idle
    BY IdleSound
  <1>2. cs \subseteq drawn
    BY DEF StartBulkCollections, Named
  <1> DEFINE i == [h EXCEPT !.stage = "vetBulk", !.ids = cs, !.todo = cs, !.org = TRUE, !.ask = cols, !.remove = remove]
  <1>3. i \in Handler
    BY DEF Handler, Stage
  <1>4. /\ i.stage = "vetBulk" /\ i.ids = cs /\ i.todo = cs /\ i.org = TRUE /\ i.ask = cols
        /\ i.folder = h.folder /\ i.scopes = h.scopes /\ i.wrote = h.wrote
    BY DEF Handler
  <1>5. Start(r, "bulkCollections", u, i) /\ h.folder = None /\ h.scopes = {} /\ h.wrote = FALSE
    BY <1>1 DEF StartBulkCollections, Idle
  <1> HIDE DEF i
  <1>6. PICK g \in Handler : Goto(r, g) /\ g.route = "bulkCollections" /\ g.user = u /\ Filled(g, i) /\ Query /\ UNCHANGED excused
    BY <1>3, <1>5, StartDoes
  <1>7. /\ g.stage = "vetBulk" /\ g.ids = cs /\ g.todo = cs /\ g.org = TRUE /\ g.ask = cols
        /\ g.folder = None /\ g.scopes = {} /\ g.wrote = FALSE
    BY <1>2, <1>4, <1>5, <1>6 DEF Filled
  <1>8. Busy(g)
    BY <1>2, <1>6, <1>7 DEF Busy, Follows, Through, FolderVetted, Reached, Changing, InTurn, Marking, Making
  <1>9. ~Administers(g)
    BY <1>6, <1>7 DEF Administers
  <1>10. Begun(g)
    BY <1>2, <1>6, <1>7, <1>8, <1>9 DEF Begun, Sound, Changing, InTurn, Marking, Making, Wholly, Personally
  <1> QED
    BY <1>6, <1>10

LEMMA StartCreateDoes ==
    ASSUME HandlersInv, NEW r \in Req, NEW u \in User, NEW cs \in SUBSET Cipher, NEW org \in BOOLEAN,
           NEW cols \in SUBSET Collection, NEW f \in Folder \cup {None}, StartCreate(r, u, cs, org, cols, f)
    PROVE  Query /\ UNCHANGED excused /\ \E g \in Handler : Goto(r, g) /\ Begun(g)
  <1>1. PICK h \in Handler, scope \in {"org", "personal"} :
           h = Idle /\ scope = IF org THEN "org" ELSE "personal"
    BY IdleSound
  <1> DEFINE H == [Idle EXCEPT !.ids = cs, !.todo = cs, !.org = org, !.cols = cols, !.folder = f,
                               !.scopes = IF org THEN {"org"} ELSE {"personal"}]
             k == [h EXCEPT !.ids = cs, !.todo = cs, !.org = org, !.cols = cols, !.folder = f, !.scopes = {scope}]
  <1>2. /\ cs \cap (drawn \cup BeingMade) = {} /\ (org => f = None) /\ (~org => cols = {})
        /\ \/ Start(r, "create", u, [H EXCEPT !.stage = IF org THEN "vetAssignment"
                                       ELSE IF f # None THEN "vetFolder" ELSE "insert"])
           \/ /\ f # None => FolderOwner[f] = u
              /\ Start(r, "import", u, [H EXCEPT !.scopes = @ \cup {"personal"},
                          !.stage = IF f # None /\ f \notin folder THEN "insertFolder" ELSE "vetAssignment"])
    BY DEF StartCreate
  <1>3. k \in Handler /\ k = H
    <2>1. {scope} = IF org THEN {"org"} ELSE {"personal"}
      BY <1>1
    <2>2. k \in Handler
      BY DEF Handler
    <2> QED
      BY <1>1, <2>1, <2>2
  <1>4. /\ k.ids = cs /\ k.todo = cs /\ k.org = org /\ k.cols = cols /\ k.folder = f /\ k.scopes = {scope}
        /\ k.wrote = FALSE
    BY <1>1 DEF Handler, Idle
  <1> HIDE DEF k, H
  <1>5. PICK route \in Making, stage \in {"vetAssignment", "vetFolder", "insert", "insertFolder"},
             scopes \in SUBSET {"org", "personal"} :
          /\ Start(r, route, u, [k EXCEPT !.scopes = scopes, !.stage = stage])
          /\ scope \in scopes /\ (route = "import" => "personal" \in scopes /\ (f # None => FolderOwner[f] = u))
          /\ route = "create" => stage = IF org THEN "vetAssignment" ELSE IF f # None THEN "vetFolder" ELSE "insert"
          /\ route = "import" => stage = "vetAssignment" \/ (stage = "insertFolder" /\ f # None)
    <2>1. CASE Start(r, "create", u, [H EXCEPT !.stage = IF org THEN "vetAssignment"
                                         ELSE IF f # None THEN "vetFolder" ELSE "insert"])
      <3>1. PICK stage \in {"vetAssignment", "vetFolder", "insert"} :
              stage = IF org THEN "vetAssignment" ELSE IF f # None THEN "vetFolder" ELSE "insert"
        OBVIOUS
      <3>2. [k EXCEPT !.scopes = {scope}, !.stage = stage] = [H EXCEPT !.stage = stage]
        BY <1>3, <1>4 DEF Handler
      <3>3. Start(r, "create", u, [k EXCEPT !.scopes = {scope}, !.stage = stage])
        BY <2>1, <3>1, <3>2
      <3>4. "create" \in Making /\ {scope} \in SUBSET {"org", "personal"} /\ scope \in {scope} /\ "create" # "import"
        BY DEF Making
      <3> QED
        BY <3>1, <3>3, <3>4
    <2>2. CASE /\ f # None => FolderOwner[f] = u
               /\ Start(r, "import", u, [H EXCEPT !.scopes = @ \cup {"personal"},
                          !.stage = IF f # None /\ f \notin folder THEN "insertFolder" ELSE "vetAssignment"])
      <3>1. PICK stage \in {"vetAssignment", "insertFolder"} :
              stage = IF f # None /\ f \notin folder THEN "insertFolder" ELSE "vetAssignment"
        OBVIOUS
      <3>2. [k EXCEPT !.scopes = {scope} \cup {"personal"}, !.stage = stage]
               = [H EXCEPT !.scopes = @ \cup {"personal"}, !.stage = stage]
        BY <1>3, <1>4 DEF Handler
      <3>3. Start(r, "import", u, [k EXCEPT !.scopes = {scope} \cup {"personal"}, !.stage = stage])
        BY <2>2, <3>1, <3>2
      <3>4. /\ "import" \in Making /\ {scope} \cup {"personal"} \in SUBSET {"org", "personal"}
            /\ scope \in {scope} \cup {"personal"} /\ "create" # "import"
        BY DEF Making
      <3> QED
        BY <2>2, <3>1, <3>3, <3>4
    <2> QED
      BY <1>2, <2>1, <2>2
  <1> DEFINE i == [k EXCEPT !.scopes = scopes, !.stage = stage]
  <1>6. i \in Handler
    BY <1>3 DEF Handler, Stage
  <1>7. /\ i.stage = stage /\ i.scopes = scopes /\ i.ids = k.ids /\ i.todo = k.todo /\ i.org = k.org
        /\ i.cols = k.cols /\ i.folder = k.folder /\ i.wrote = k.wrote
    BY <1>3 DEF Handler
  <1> HIDE DEF i
  <1>8. PICK g \in Handler : Goto(r, g) /\ g.route = route /\ g.user = u /\ Filled(g, i) /\ Query /\ UNCHANGED excused
    BY <1>5, <1>6, StartDoes DEF i
  <1>9. /\ g.stage = stage /\ g.scopes = scopes /\ g.ids = cs /\ g.todo = cs /\ g.org = org /\ g.cols = cols
        /\ g.folder = f /\ g.wrote = FALSE
    BY <1>4, <1>7, <1>8 DEF Filled
  <1>10. Busy(g)
    BY <1>2, <1>5, <1>8, <1>9
    DEF Busy, Follows, Through, FolderVetted, Reached, Changing, InTurn, Marking, Making
  <1>11. ~Administers(g) /\ g.stage # "idle"
    BY <1>5, <1>8, <1>9 DEF Administers, Making
  <1>12. Begun(g)
    BY <1>1, <1>2, <1>5, <1>8, <1>9, <1>10, <1>11
    DEF Begun, Sound, Changing, InTurn, Marking, Making, Wholly, Personally
  <1> QED
    BY <1>8, <1>12

LEMMA StartWholeDoes ==
    ASSUME HandlersInv, NEW r \in Req, NEW u \in User, NEW route, StartWhole(r, route, u)
    PROVE  Query /\ UNCHANGED excused /\ \E g \in Handler : Goto(r, g) /\ Begun(g)
  <1>1. PICK h \in Handler : h = Idle
    BY IdleSound
  <1> DEFINE i == [h EXCEPT !.stage = "deletePersonal", !.scopes = {"personal"}]
  <1>2. i \in Handler
    BY DEF Handler, Stage
  <1>3. /\ i.stage = "deletePersonal" /\ i.scopes = {"personal"} /\ i.ids = h.ids /\ i.todo = h.todo
        /\ i.folder = h.folder /\ i.c = h.c /\ i.other = h.other
    BY DEF Handler
  <1>4. /\ Start(r, route, u, i) /\ route \in {"purgeVault", "deleteAccount"}
        /\ h.ids = {} /\ h.todo = {} /\ h.folder = None /\ h.c = None /\ h.other = None
    BY <1>1 DEF StartWhole, Idle
  <1> HIDE DEF i
  <1>5. PICK g \in Handler : Goto(r, g) /\ g.route = route /\ g.user = u /\ Filled(g, i) /\ Query /\ UNCHANGED excused
    BY <1>2, <1>4, StartDoes
  <1>6. /\ g.stage = "deletePersonal" /\ g.scopes = {"personal"} /\ g.ids = {} /\ g.todo = {}
        /\ g.folder = None /\ g.c = None /\ g.other = None /\ g.route \in {"purgeVault", "deleteAccount"}
    BY <1>3, <1>4, <1>5 DEF Filled
  <1>7. Busy(g) /\ ~Administers(g)
    BY <1>5, <1>6
    DEF Busy, Follows, Through, FolderVetted, Reached, Administers, Changing, InTurn, Marking, Making
  <1>8. Begun(g)
    BY <1>6, <1>7 DEF Begun, Sound, Changing, InTurn, Marking, Making, Wholly, Personally
  <1> QED
    BY <1>5, <1>8

LEMMA StartDeleteMemberDoes ==
    ASSUME HandlersInv, NEW r \in Req, NEW u \in User, NEW v \in User, StartDeleteMember(r, u, v)
    PROVE  Query /\ UNCHANGED excused /\ \E g \in Handler : Goto(r, g) /\ Begun(g)
  <1>1. PICK h \in Handler : h = Idle
    BY IdleSound
  <1> DEFINE i == [h EXCEPT !.stage = "memberGrants", !.other = v, !.scopes = {"org"}]
  <1>2. i \in Handler
    BY DEF Handler, Stage
  <1>3. /\ i.stage = "memberGrants" /\ i.scopes = {"org"} /\ i.ids = h.ids /\ i.todo = h.todo
        /\ i.folder = h.folder /\ i.c = h.c /\ i.other = v
    BY DEF Handler
  <1>4. /\ Start(r, "deleteMember", u, i)
        /\ h.ids = {} /\ h.todo = {} /\ h.folder = None /\ h.c = None
    BY <1>1 DEF StartDeleteMember, Idle
  <1> HIDE DEF i
  <1>5. PICK g \in Handler : /\ Goto(r, g) /\ g.route = "deleteMember" /\ g.user = u /\ Filled(g, i)
                             /\ Query /\ UNCHANGED excused
    BY <1>2, <1>4, StartDoes
  <1>6. /\ g.stage = "memberGrants" /\ g.scopes = {"org"} /\ g.ids = {} /\ g.todo = {}
        /\ g.folder = None /\ g.c = None /\ g.other = v
    BY <1>3, <1>4, <1>5 DEF Filled
  <1>7. Busy(g) /\ ~Administers(g)
    BY <1>5, <1>6
    DEF Busy, Follows, Through, FolderVetted, Reached, Administers, Changing, InTurn, Marking, Making
  <1>8. Begun(g)
    BY <1>5, <1>6, <1>7 DEF Begun, Sound, Changing, InTurn, Marking, Making, Wholly, Personally
  <1> QED
    BY <1>5, <1>8

LEMMA StartDeleteCollectionDoes ==
    ASSUME HandlersInv, NEW r \in Req, NEW u \in User, NEW col \in Collection, StartDeleteCollection(r, u, col)
    PROVE  Query /\ UNCHANGED excused /\ \E g \in Handler : Goto(r, g) /\ Begun(g)
  <1>1. PICK h \in Handler : h = Idle
    BY IdleSound
  <1> DEFINE i == [h EXCEPT !.stage = "colPlaced", !.cols = {col}, !.scopes = {"org"}]
  <1>2. i \in Handler
    BY DEF Handler, Stage
  <1>3. /\ i.stage = "colPlaced" /\ i.scopes = {"org"} /\ i.ids = h.ids /\ i.todo = h.todo
        /\ i.folder = h.folder /\ i.c = h.c /\ i.other = h.other
    BY DEF Handler
  <1>4. /\ Start(r, "deleteCollection", u, i)
        /\ h.ids = {} /\ h.todo = {} /\ h.folder = None /\ h.c = None /\ h.other = None
    BY <1>1 DEF StartDeleteCollection, Idle
  <1> HIDE DEF i
  <1>5. PICK g \in Handler : /\ Goto(r, g) /\ g.route = "deleteCollection" /\ g.user = u /\ Filled(g, i)
                             /\ Query /\ UNCHANGED excused
    BY <1>2, <1>4, StartDoes
  <1>6. /\ g.stage = "colPlaced" /\ g.scopes = {"org"} /\ g.ids = {} /\ g.todo = {}
        /\ g.folder = None /\ g.c = None /\ g.other = None
    BY <1>3, <1>4, <1>5 DEF Filled
  <1>7. Busy(g) /\ ~Administers(g)
    BY <1>5, <1>6
    DEF Busy, Follows, Through, FolderVetted, Reached, Administers, Changing, InTurn, Marking, Making
  <1>8. Begun(g)
    BY <1>5, <1>6, <1>7 DEF Begun, Sound, Changing, InTurn, Marking, Making, Wholly, Personally
  <1> QED
    BY <1>5, <1>8

\* The two that write at once.
LEMMA StartFolderDoes ==
    ASSUME NEW r \in Req, NEW u \in User, NEW route \in {"createFolder", "deleteFolder"},
           Goto(r, [Idle EXCEPT !.stage = "touch", !.route = route, !.user = u, !.scopes = {"personal"}, !.wrote = TRUE])
    PROVE  \E g \in Handler : Goto(r, g) /\ Begun(g) /\ g.user = u /\ g.stage = "touch" /\ g.route = route
  <1>1. PICK h \in Handler : h = Idle
    BY IdleSound
  <1>2. route \in VaultRoutes /\ "touch" \in Stage
    BY DEF VaultRoutes, Stage
  <1> DEFINE g == [h EXCEPT !.stage = "touch", !.route = route, !.user = u, !.scopes = {"personal"}, !.wrote = TRUE]
  <1>3. g \in Handler
    BY <1>2 DEF Handler
  <1>4. /\ g.stage = "touch" /\ g.route = route /\ g.user = u /\ g.scopes = {"personal"} /\ g.ids = h.ids
        /\ g.wrote = TRUE /\ g.todo = h.todo /\ g.folder = h.folder /\ g.c = h.c /\ g.other = h.other
    BY <1>2 DEF Handler
  <1>5. Goto(r, g) /\ h.ids = {} /\ h.todo = {} /\ h.folder = None /\ h.c = None /\ h.other = None
    BY <1>1 DEF Idle
  <1> HIDE DEF g
  <1>6. Busy(g) /\ ~Administers(g)
    BY <1>4, <1>5
    DEF Busy, Follows, Through, FolderVetted, Reached, Administers, Changing, InTurn, Marking, Making
  <1>7. Begun(g)
    BY <1>4, <1>5, <1>6 DEF Begun, Sound, Changing, InTurn, Marking, Making, Wholly, Personally
  <1> QED
    BY <1>3, <1>4, <1>5, <1>7

\* All requests that begin, but the two about folders, only read.
FolderRequest(r, u) == \E f \in Asked.folder : StartCreateFolder(r, u, f) \/ StartDeleteFolder(r, u, f)

LEMMA BeginDoes ==
    ASSUME HandlersInv, NEW r \in Req, NEW u \in User, Begin(r, u)
    PROVE  /\ At(r, "idle") /\ Cardinality(InFlight) < Asked.most /\ u \in account
           /\ \E g \in Handler : Goto(r, g) /\ Begun(g)
           /\ (Query /\ UNCHANGED excused) \/ FolderRequest(r, u)
  <1>1. At(r, "idle") /\ u \in account /\ Cardinality(InFlight) < Asked.most
    BY DEF Begin
  <1>2. /\ \A cs \in Asked.batch : cs \in SUBSET Cipher
        /\ \A cols \in Asked.cols : cols \in SUBSET Collection
        /\ \A f \in Asked.folder : f \in Folder
    BY VaultWorkloadAssumption DEF Asked, HandlersInv, VaultTypeOK
  <1>3. ASSUME NEW cs \in Asked.batch, NEW org \in BOOLEAN, NEW cols \in Asked.cols,
               NEW f \in Asked.folder \cup {None}, StartCreate(r, u, cs, org, cols, f)
        PROVE  Query /\ UNCHANGED excused /\ \E g \in Handler : Goto(r, g) /\ Begun(g)
    BY <1>2, <1>3, StartCreateDoes
  <1>4. ASSUME NEW cs \in Asked.batch, NEW f \in Asked.folder \cup {None}, NEW route,
               StartChange(r, route, u, cs, f)
        PROVE  Query /\ UNCHANGED excused /\ \E g \in Handler : Goto(r, g) /\ Begun(g)
    BY <1>2, <1>4, StartChangeDoes
  <1>5. ASSUME NEW c \in Cipher, NEW org \in BOOLEAN, NEW cols \in Asked.cols \cup {None},
               NEW f \in Asked.folder \cup {None}, StartUpdate(r, u, c, org, cols, f)
        PROVE  Query /\ UNCHANGED excused /\ \E g \in Handler : Goto(r, g) /\ Begun(g)
    BY <1>2, <1>5, StartUpdateDoes
  <1>6. ASSUME NEW cs \in Asked.batch, NEW cols \in Asked.cols, StartShare(r, u, cs, cols)
        PROVE  Query /\ UNCHANGED excused /\ \E g \in Handler : Goto(r, g) /\ Begun(g)
    BY <1>2, <1>6, StartShareDoes
  <1>7. ASSUME NEW cs \in Asked.batch, NEW cols \in Asked.cols, NEW remove \in BOOLEAN,
               StartBulkCollections(r, u, cs, cols, remove)
        PROVE  Query /\ UNCHANGED excused /\ \E g \in Handler : Goto(r, g) /\ Begun(g)
    BY <1>2, <1>7, StartBulkCollectionsDoes
  <1>8. ASSUME NEW c \in Cipher, NEW cols \in Asked.cols, StartCollections(r, u, c, cols)
        PROVE  Query /\ UNCHANGED excused /\ \E g \in Handler : Goto(r, g) /\ Begun(g)
    BY <1>2, <1>8, StartCollectionsDoes
  <1>9. ASSUME NEW route, StartWhole(r, route, u)
        PROVE  Query /\ UNCHANGED excused /\ \E g \in Handler : Goto(r, g) /\ Begun(g)
    BY <1>9, StartWholeDoes
  <1>10. ASSUME NEW v \in User, StartDeleteMember(r, u, v)
         PROVE  Query /\ UNCHANGED excused /\ \E g \in Handler : Goto(r, g) /\ Begun(g)
    BY <1>10, StartDeleteMemberDoes
  <1>11. ASSUME NEW col \in Collection, StartDeleteCollection(r, u, col)
         PROVE  Query /\ UNCHANGED excused /\ \E g \in Handler : Goto(r, g) /\ Begun(g)
    BY <1>11, StartDeleteCollectionDoes
  <1>12. ASSUME NEW f \in Asked.folder, StartCreateFolder(r, u, f) \/ StartDeleteFolder(r, u, f)
         PROVE  FolderRequest(r, u) /\ \E g \in Handler : Goto(r, g) /\ Begun(g)
    <2>1. PICK route \in {"createFolder", "deleteFolder"} :
             Goto(r, [Idle EXCEPT !.stage = "touch", !.route = route, !.user = u, !.scopes = {"personal"}, !.wrote = TRUE])
      BY <1>12 DEF StartCreateFolder, StartDeleteFolder
    <2> QED
      BY <1>12, <2>1, StartFolderDoes DEF FolderRequest
  <1> QED
    BY <1>1, <1>3, <1>4, <1>5, <1>6, <1>7, <1>8, <1>9, <1>10, <1>11, <1>12 DEF Begin

-----------------------------------------------------------------------------
\* Types, routes, and what was seen, step by step

LEMMA IdleStep ==
    ASSUME HandlersInv, NEW r \in Req, Goto(r, Idle), TablesOK', Recording
    PROVE  HandlersInv'
  <1>1. Watched(Idle, LatelySeen(r, Idle).edit, LatelySeen(r, Idle).admin)
    BY IdleSound DEF Watched
  <1> QED
    BY <1>1, IdleSound, HandlerStep

LEMMA BegunStep ==
    ASSUME HandlersInv, NEW r \in Req, NEW g \in Handler, Goto(r, g), Begun(g), TablesOK', Recording
    PROVE  HandlersInv'
  <1>1. Watched(g, LatelySeen(r, g).edit, LatelySeen(r, g).admin)
    BY DEF Watched, Begun
  <1> QED
    BY <1>1, HandlerStep DEF Begun

LEMMA NotingTypes == ASSUME VaultTypeOK, NEW cs, Noting(cs) PROVE untold' \subseteq User
  BY DEF VaultTypeOK, Noting

\* A write to ciphers and their placements.
LEMMA CiphersOK ==
    ASSUME VaultTypeOK, NEW cs, OnlyCiphers(cs), cipher' \in [Cipher -> Row \cup {None}],
           placed' \subseteq {c \in Cipher : cipher'[c] # None} \X collection,
           drawn' \subseteq Cipher \cup Folder, excused' \subseteq {"error", "crash", "cascade", "purge"}
    PROVE  TablesOK'
  <1>1. untold' \subseteq User
    BY NotingTypes DEF OnlyCiphers
  <1> QED
    BY <1>1 DEF VaultTypeOK, OnlyCiphers, TablesOK

LEMMA UnfiledTypes ==
    ASSUME VaultTypeOK, NEW fs
    PROVE  \A c \in Cipher : Unfiled(c, fs) \in Row \cup {None} /\ (Unfiled(c, fs) = None <=> cipher[c] = None)
  <1> SUFFICES ASSUME NEW c \in Cipher
               PROVE  Unfiled(c, fs) \in Row \cup {None} /\ (Unfiled(c, fs) = None <=> cipher[c] = None)
    OBVIOUS
  <1>1. CASE cipher[c] = None
    BY <1>1 DEF Unfiled
  <1>2. CASE cipher[c] # None
    <2>1. PICK row \in Row : row = cipher[c]
      BY <1>2 DEF VaultTypeOK
    <2>2. [row EXCEPT !.folder = None] \in Row
      BY DEF Row
    <2> QED
      BY <1>2, <2>1, <2>2, VaultNoneAssumption DEF Unfiled
  <1> QED
    BY <1>1, <1>2

\* A step that leaves the handler all but its stage.
LEMMA SameStep ==
    ASSUME HandlersInv, NEW r \in Req, NEW g \in Handler, Goto(r, g), Same(g, req[r]), ~At(r, "idle"),
           g.stage # "idle", Follows(g), Reached(g) => Reached(req[r]),
           Through(g) => Through(req[r]) \/ req[r].todo = {},
           g.folder # None /\ FolderVetted(g) => FolderVetted(req[r]) \/ FolderOwner[g.folder] = g.user,
           Administers(g) => Administers(req[r]) \/ Admin(g.user),
           TablesOK', Recording
    PROVE  HandlersInv'
  <1>1. PICK h \in Handler : h = req[r]
    BY DEF HandlersInv, VaultTypeOK
  <1>2. Busy(h) /\ Watched(h, seen[r].edit, seen[r].admin) /\ h.stage # "idle"
    BY <1>1 DEF HandlersInv, AllSound, AllWatched, Sound, At
  <1>3. Busy(g)
    BY <1>1, <1>2 DEF Busy, Same, Holds
  <1>4. Watched(g, LatelySeen(r, g).edit, LatelySeen(r, g).admin)
    BY <1>1, <1>2, SeenLately DEF Watched, Same, Holds
  <1> QED
    BY <1>3, <1>4, HandlerStep DEF Sound

\* The handler that takes a step is in flight.
LEMMA BusyHandler ==
    ASSUME HandlersInv, NEW r \in Req, ~At(r, "idle")
    PROVE  /\ req[r] \in Handler /\ Busy(req[r]) /\ Watched(req[r], seen[r].edit, seen[r].admin)
           /\ req[r].stage # "idle" /\ seen[r].edit \subseteq Cipher
  BY DEF HandlersInv, VaultTypeOK, AllSound, AllWatched, Sound, At

LEMMA EditsBySight ==
    ASSUME HandlersInv, NEW u \in User, NEW c \in Cipher, CanEdit(u, c)
    PROVE  MayEdit(u, c) /\ cipher[c] # None
  BY DEF CanEdit, Reads, MayEdit, ReadOnly, Strong, Granted, ColsOf

LEMMA AccessStep ==
    ASSUME HandlersInv, NEW r \in Req, Access(r), Recording
    PROVE  HandlersInv'
  <1>1. VaultTypeOK /\ Query /\ At(r, "access") /\ ~At(r, "idle")
    BY AccessDoes DEF HandlersInv, At
  <1>2. CASE GiveUp(r)
    BY <1>1, <1>2, Ends, QueryOK, IdleStep
  <1>3. CASE ~GiveUp(r)
    <2>1. PICK g \in Handler, c \in req[r].todo :
                    /\ Goto(r, g) /\ UNCHANGED excused /\ Holds(g, req[r]) /\ g.org = req[r].org
                    /\ g.todo = req[r].todo \ {c} /\ g.c = c
                    /\ CanEdit(g.user, c)
                    /\ g.route \in {"update", "share"} => g.stage = "fetch"
                    /\ g.route \in {"collections", "bulkCollections"} => g.stage = "vetAssignment"
                    /\ g.route \notin InTurn /\ g.todo # {} => g.stage = "access"
                    /\ g.route \notin InTurn /\ g.todo = {} =>
                          g.stage = IF g.route = "hardDelete" THEN "dropPlaced"
                                    ELSE IF g.folder # None THEN "vetFolder" ELSE "write"
      BY <1>3, AccessDoes
    <2>2. PICK h \in Handler : h = req[r] /\ Busy(h) /\ Watched(h, seen[r].edit, seen[r].admin) /\ h.stage = "access"
      BY <1>1, BusyHandler DEF At
    <2>3. c \in h.ids /\ c \in Cipher /\ g.user \in User /\ h.route \in Changing
      BY <2>1, <2>2 DEF Busy, Handler, Holds, Follows
    <2>4. MayEdit(g.user, c)
      BY <2>1, <2>3, EditsBySight
    <2>5. g.ids \ g.todo \subseteq (h.ids \ h.todo) \cup {c} /\ c \in g.ids \ g.todo
      BY <2>1, <2>2, <2>3 DEF Holds
    <2>6. Follows(g) /\ g.stage # "idle"
      <3>1. g.route \in Changing /\ (g.folder # None => g.route \in {"update", "partial", "move"})
        BY <2>1, <2>2, <2>3 DEF Holds, Busy, Changing, InTurn, Marking
      <3>2. \/ g.route \in {"update", "share"} /\ g.stage = "fetch"
            \/ g.route \in {"collections", "bulkCollections"} /\ g.stage = "vetAssignment"
            \/ g.stage = "access"
            \/ g.route = "hardDelete" /\ g.stage = "dropPlaced"
            \/ g.route \in {"partial", "move"} /\ g.stage = "vetFolder"
            \/ g.route \in Marking /\ g.stage = "write"
        <4>1. CASE g.route \in InTurn
          BY <2>1, <4>1 DEF InTurn
        <4>2. CASE g.route = "hardDelete"
          BY <2>1, <4>2 DEF InTurn
        <4>3. CASE g.route \in Marking
          BY <2>1, <3>1, <4>3 DEF InTurn, Marking
        <4> QED
          BY <3>1, <4>1, <4>2, <4>3 DEF Changing
      <3> QED
        BY <3>1, <3>2 DEF Follows, Changing, InTurn, Marking, Making
    <2>7. (Through(g) => g.todo = {}) /\ ~(FolderVetted(g) /\ g.folder # None)
      BY <2>1, <2>2, <2>3 DEF Through, FolderVetted, Busy, Holds, Changing, InTurn, Marking
    <2>8. g.todo \subseteq g.ids /\ g.user \in User
      BY <2>1, <2>2, <2>3 DEF Holds, Busy
    <2>9. /\ g.folder # None => g.route \in {"create", "import", "update", "partial", "move"}
          /\ g.route \in {"share", "collections", "bulkCollections"} => g.org /\ g.ask \subseteq Collection
          /\ g.route \notin Making
      BY <2>1, <2>2, <2>3 DEF Holds, Busy, Changing, InTurn, Marking, Making
    <2>10. Busy(g)
      BY <2>1, <2>5, <2>6, <2>7, <2>8, <2>9 DEF Busy
    <2>11. Administers(g) => Administers(h)
      BY <2>1, <2>2 DEF Administers, Holds, InTurn
    <2>12. Watched(g, LatelySeen(r, g).edit, LatelySeen(r, g).admin)
      BY <2>1, <2>2, <2>3, <2>4, <2>5, <2>11, SeenLately DEF Watched, Holds
    <2> QED
      BY <1>1, <2>1, <2>6, <2>10, <2>12, QueryOK, HandlerStep DEF Sound, VaultTypeOK
  <1> QED
    BY <1>2, <1>3

LEMMA FetchStep ==
    ASSUME HandlersInv, NEW r \in Req, Fetch(r), Recording
    PROVE  HandlersInv'
  <1>1. VaultTypeOK /\ Query /\ At(r, "fetch") /\ ~At(r, "idle")
    BY FetchDoes DEF HandlersInv, At
  <1>2. CASE GiveUp(r)
    BY <1>1, <1>2, Ends, QueryOK, IdleStep
  <1>3. CASE ~GiveUp(r)
    <2>1. PICK g \in Handler :
                    /\ Goto(r, g) /\ UNCHANGED excused /\ Holds(g, req[r]) /\ g.todo = req[r].todo /\ g.c = req[r].c
                    /\ g.org = (g.route = "share" \/ cipher[g.c].org)
                    /\ g.stage = IF g.ask # None THEN "vetAssignment"
                                 ELSE IF g.folder # None THEN "vetFolder" ELSE "writeRow"
      BY <1>3, FetchDoes
    <2>2. PICK h \in Handler : h = req[r] /\ Busy(h) /\ Watched(h, seen[r].edit, seen[r].admin) /\ h.stage = "fetch"
      BY <1>1, BusyHandler DEF At
    <2>3. h.route \in {"update", "share"} /\ g.route = h.route /\ h.c \in h.ids \ h.todo
      BY <2>1, <2>2 DEF Busy, Follows, Reached, InTurn, Holds
    <2>4. Follows(g) /\ g.stage # "idle"
      <3>1. g.folder # None => g.route = "update"
        BY <2>1, <2>2, <2>3 DEF Holds, Busy
      <3> QED
        BY <2>1, <2>3, <3>1 DEF Follows, InTurn, Making
    <2>5. ~Through(g) /\ ~(FolderVetted(g) /\ g.folder # None) /\ ~Administers(g)
      BY <2>1, <2>3 DEF Through, FolderVetted, Administers, Marking
    <2>6. /\ g.folder # None => g.route \in {"create", "import", "update", "partial", "move"}
          /\ g.route \in {"share", "collections", "bulkCollections"} => g.org /\ g.ask \subseteq Collection
          /\ g.route \notin Making
      BY <2>1, <2>2, <2>3 DEF Holds, Busy, Making
    <2>7. Busy(g)
      BY <2>1, <2>2, <2>3, <2>4, <2>5, <2>6 DEF Busy, Holds
    <2>8. Watched(g, LatelySeen(r, g).edit, LatelySeen(r, g).admin)
      BY <2>1, <2>2, <2>5, SeenLately DEF Watched, Holds
    <2> QED
      BY <1>1, <2>1, <2>4, <2>7, <2>8, QueryOK, HandlerStep DEF Sound, VaultTypeOK
  <1> QED
    BY <1>2, <1>3

\* A step of a handler to another stage of its route.
LEMMA GoStep ==
    ASSUME HandlersInv, NEW r \in Req, ~At(r, "idle"), NEW stage \in Stage, Go(r, stage), stage # "idle", Query, Recording,
           \A g \in Handler : g.stage = stage /\ Same(g, req[r]) =>
              /\ Follows(g) /\ (Reached(g) => Reached(req[r]))
              /\ Through(g) => Through(req[r]) \/ req[r].todo = {}
              /\ g.folder # None /\ FolderVetted(g) => FolderVetted(req[r]) \/ FolderOwner[g.folder] = g.user
              /\ Administers(g) => Administers(req[r]) \/ Admin(g.user)
    PROVE  HandlersInv'
  <1>1. VaultTypeOK /\ Proceed(r, stage) /\ UNCHANGED excused
    BY DEF HandlersInv, Go
  <1>2. PICK g \in Handler : Goto(r, g) /\ g.stage = stage /\ Same(g, req[r])
    BY <1>1, Goes
  <1>3. TablesOK'
    BY <1>1, QueryOK DEF VaultTypeOK
  <1> QED
    BY <1>2, <1>3, SameStep

LEMMA VetBulkStep ==
    ASSUME HandlersInv, NEW r \in Req, VetBulk(r), Recording
    PROVE  HandlersInv'
  <1>1. VaultTypeOK /\ Query /\ At(r, "vetBulk") /\ ~At(r, "idle") /\ (GiveUp(r) \/ Go(r, "vetManage"))
    BY DEF VetBulk, HandlersInv, At
  <1>2. CASE GiveUp(r)
    BY <1>1, <1>2, Ends, QueryOK, IdleStep
  <1>3. CASE Go(r, "vetManage")
    <2>1. req[r].route = "bulkCollections" /\ "vetManage" \in Stage
      BY <1>1, BusyHandler DEF Busy, Follows, At, Stage
    <2>2. ASSUME NEW g \in Handler, g.stage = "vetManage", Same(g, req[r])
          PROVE  Follows(g) /\ ~Reached(g) /\ ~Through(g) /\ ~Administers(g) /\ ~FolderVetted(g)
      BY <2>1, <2>2 DEF Follows, Reached, Through, Administers, FolderVetted, Same, Holds, InTurn
    <2> QED
      BY <1>1, <1>3, <2>1, <2>2, GoStep
  <1> QED
    BY <1>1, <1>2, <1>3

\* To which stage VetAssignment goes on.
LEMMA VetAssignmentDoes ==
    ASSUME HandlersInv, NEW r \in Req, VetAssignment(r)
    PROVE  /\ Query /\ At(r, "vetAssignment") /\ req[r].route \in Making \cup InTurn
           /\ \/ GiveUp(r)
              \/ /\ IF req[r].org THEN req[r].cols \subseteq collection /\ WriteAccess(req[r].user, req[r].cols)
                    ELSE req[r].cols = {}
                 /\ \E stage \in Stage : Go(r, stage) /\
                      \/ req[r].org /\ req[r].route \in {"update", "share", "collections"} /\ stage = "vetManage"
                      \/ req[r].route \in {"create", "import"} /\ req[r].folder = None /\ stage = "insert"
                      \/ req[r].route = "import" /\ stage = "insert"
                      \/ /\ req[r].route \in {"create", "update"} /\ (req[r].route = "update" => ~req[r].org)
                         /\ req[r].folder # None /\ stage = "vetFolder"
                      \/ ~req[r].org /\ req[r].route = "update" /\ req[r].folder = None /\ stage = "writeRow"
                      \/ req[r].route = "bulkCollections" /\ stage = "place"
  <1>1. Query /\ At(r, "vetAssignment") /\ ~At(r, "idle")
    BY DEF VetAssignment, At
  <1>2. /\ req[r].route \in Making \cup InTurn
        /\ req[r].folder # None => req[r].route \in {"create", "import", "update"}
        /\ req[r].route \in {"share", "collections", "bulkCollections"} => req[r].org
    BY <1>1, BusyHandler DEF Busy, Follows, At, Making, InTurn
  <1>3. CASE GiveUp(r)
    BY <1>1, <1>2, <1>3
  <1>4. CASE ~GiveUp(r)
    <2> DEFINE stage == IF req[r].org /\ req[r].route \in {"update", "share", "collections"} THEN "vetManage"
                        ELSE IF req[r].route = "import" THEN "insert" ELSE AfterVetting(req[r])
    <2>1. /\ IF req[r].org THEN req[r].cols \subseteq collection /\ WriteAccess(req[r].user, req[r].cols)
             ELSE req[r].cols = {}
          /\ Go(r, stage)
      BY <1>4 DEF VetAssignment
    <2>2. \/ req[r].org /\ req[r].route \in {"update", "share", "collections"} /\ stage = "vetManage"
          \/ req[r].route \in {"create", "import"} /\ req[r].folder = None /\ stage = "insert"
          \/ req[r].route = "import" /\ stage = "insert"
          \/ /\ req[r].route \in {"create", "update"} /\ (req[r].route = "update" => ~req[r].org)
             /\ req[r].folder # None /\ stage = "vetFolder"
          \/ ~req[r].org /\ req[r].route = "update" /\ req[r].folder = None /\ stage = "writeRow"
          \/ req[r].route = "bulkCollections" /\ stage = "place"
      BY <1>2 DEF AfterVetting, Making, InTurn
    <2> HIDE DEF stage
    <2>3. stage \in Stage
      BY <2>2 DEF Stage
    <2> QED
      BY <1>1, <1>2, <2>1, <2>2, <2>3
  <1> QED
    BY <1>3, <1>4

LEMMA VetAssignmentStep ==
    ASSUME HandlersInv, NEW r \in Req, VetAssignment(r), Recording
    PROVE  HandlersInv'
  <1>1. VaultTypeOK /\ Query /\ At(r, "vetAssignment") /\ ~At(r, "idle") /\ req[r].route \in Making \cup InTurn
    BY VetAssignmentDoes DEF HandlersInv, At
  <1>2. CASE GiveUp(r)
    BY <1>1, <1>2, Ends, QueryOK, IdleStep
  <1>3. CASE ~GiveUp(r)
    <2>1. PICK stage \in Stage : Go(r, stage) /\
            \/ req[r].org /\ req[r].route \in {"update", "share", "collections"} /\ stage = "vetManage"
            \/ req[r].route \in {"create", "import"} /\ req[r].folder = None /\ stage = "insert"
            \/ req[r].route = "import" /\ stage = "insert"
            \/ /\ req[r].route \in {"create", "update"} /\ (req[r].route = "update" => ~req[r].org)
             /\ req[r].folder # None /\ stage = "vetFolder"
            \/ ~req[r].org /\ req[r].route = "update" /\ req[r].folder = None /\ stage = "writeRow"
            \/ req[r].route = "bulkCollections" /\ stage = "place"
      BY <1>3, VetAssignmentDoes
    <2>2. ASSUME NEW g \in Handler, g.stage = stage, Same(g, req[r])
          PROVE  /\ Follows(g) /\ (Reached(g) => Reached(req[r])) /\ ~Through(g)
                 /\ g.folder # None /\ FolderVetted(g) => FolderVetted(req[r])
                 /\ Administers(g) => Administers(req[r])
      <3>1. /\ g.route = req[r].route /\ g.org = req[r].org /\ g.folder = req[r].folder
            /\ req[r].stage = "vetAssignment"
        BY <1>1, <2>2 DEF Same, Holds, At
      <3>2. Follows(g) /\ stage # "vetAssignment"
        BY <1>1, <2>1, <2>2, <3>1 DEF Follows, Making, InTurn
      <3>3. Reached(g) => Reached(req[r])
        BY <3>1 DEF Reached
      <3>4. ~Through(g)
        BY <2>1, <2>2, <3>1 DEF Through, Marking
      <3>5. g.folder # None /\ FolderVetted(g) => FolderVetted(req[r])
        BY <2>1, <2>2, <3>1 DEF FolderVetted
      <3>6. Administers(g) => Administers(req[r])
        BY <2>1, <2>2, <3>1 DEF Administers
      <3> QED
        BY <3>2, <3>3, <3>4, <3>5, <3>6
    <2>3. stage # "idle"
      BY <2>1
    <2> QED
      BY <1>1, <2>1, <2>2, <2>3, GoStep
  <1> QED
    BY <1>2, <1>3

LEMMA VetManageDoes ==
    ASSUME HandlersInv, NEW r \in Req, VetManage(r)
    PROVE  /\ Query /\ At(r, "vetManage") /\ req[r].route \in InTurn
           /\ \/ GiveUp(r)
              \/ /\ Admin(req[r].user)
                 /\ \E stage \in Stage : Go(r, stage) /\
                      \/ req[r].route = "bulkCollections" /\ stage = "access"
                      \/ req[r].route = "collections" /\ stage = "place"
                      \/ req[r].route = "update" /\ req[r].folder # None /\ stage = "vetFolder"
                      \/ req[r].route \in {"update", "share"} /\ req[r].folder = None /\ stage = "writeRow"
  <1>1. Query /\ At(r, "vetManage") /\ ~At(r, "idle")
    BY DEF VetManage, At
  <1>2. req[r].route \in InTurn /\ (req[r].folder # None => req[r].route = "update")
    BY <1>1, BusyHandler DEF Busy, Follows, At, InTurn
  <1>3. CASE GiveUp(r)
    BY <1>1, <1>2, <1>3
  <1>4. CASE ~GiveUp(r)
    <2> DEFINE stage == CASE req[r].route = "bulkCollections" -> "access"
                          [] req[r].route = "collections" -> "place"
                          [] OTHER -> AfterVetting(req[r])
    <2>1. Admin(req[r].user) /\ Go(r, stage)
      BY <1>4 DEF VetManage
    <2>2. \/ req[r].route = "bulkCollections" /\ stage = "access"
          \/ req[r].route = "collections" /\ stage = "place"
          \/ req[r].route = "update" /\ req[r].folder # None /\ stage = "vetFolder"
          \/ req[r].route \in {"update", "share"} /\ req[r].folder = None /\ stage = "writeRow"
      BY <1>2 DEF AfterVetting, InTurn
    <2> HIDE DEF stage
    <2>3. stage \in Stage
      BY <2>2 DEF Stage
    <2> QED
      BY <1>1, <1>2, <2>1, <2>2, <2>3
  <1> QED
    BY <1>3, <1>4

LEMMA VetManageStep ==
    ASSUME HandlersInv, NEW r \in Req, VetManage(r), Recording
    PROVE  HandlersInv'
  <1>1. VaultTypeOK /\ Query /\ At(r, "vetManage") /\ ~At(r, "idle") /\ req[r].route \in InTurn
    BY VetManageDoes DEF HandlersInv, At
  <1>2. CASE GiveUp(r)
    BY <1>1, <1>2, Ends, QueryOK, IdleStep
  <1>3. CASE ~GiveUp(r)
    <2>1. PICK stage \in Stage : Go(r, stage) /\
            \/ req[r].route = "bulkCollections" /\ stage = "access"
            \/ req[r].route = "collections" /\ stage = "place"
            \/ req[r].route = "update" /\ req[r].folder # None /\ stage = "vetFolder"
            \/ req[r].route \in {"update", "share"} /\ req[r].folder = None /\ stage = "writeRow"
      BY <1>3, VetManageDoes
    <2>2. ASSUME NEW g \in Handler, g.stage = stage, Same(g, req[r])
          PROVE  /\ Follows(g) /\ (Reached(g) => Reached(req[r])) /\ ~Through(g)
                 /\ g.folder # None => ~FolderVetted(g)
                 /\ Admin(g.user)
      <3>1. g.route = req[r].route /\ g.folder = req[r].folder /\ g.user = req[r].user /\ req[r].stage = "vetManage"
        BY <1>1, <2>2 DEF Same, Holds, At
      <3>2. Follows(g)
        BY <1>1, <2>1, <2>2, <3>1 DEF Follows, Making, InTurn, Changing
      <3>3. Reached(g) => Reached(req[r])
        BY <2>1, <2>2, <3>1 DEF Reached
      <3>4. ~Through(g)
        BY <2>1, <2>2, <3>1 DEF Through, Marking
      <3>5. g.folder # None => ~FolderVetted(g)
        <4>1. req[r].folder # None => req[r].route = "update"
          BY <1>1, BusyHandler DEF Busy, InTurn
        <4> QED
          BY <2>1, <2>2, <3>1, <4>1 DEF FolderVetted
      <3>6. Admin(g.user)
        BY <1>3, <3>1, VetManageDoes
      <3> QED
        BY <3>2, <3>3, <3>4, <3>5, <3>6
    <2>3. stage # "idle"
      BY <2>1
    <2> QED
      BY <1>1, <2>1, <2>2, <2>3, GoStep
  <1> QED
    BY <1>2, <1>3

LEMMA VetFolderDoes ==
    ASSUME HandlersInv, NEW r \in Req, VetFolder(r)
    PROVE  /\ Query /\ At(r, "vetFolder") /\ req[r].route \in {"create", "update", "partial", "move"}
           /\ \/ GiveUp(r)
              \/ /\ req[r].folder \in folder /\ FolderOwner[req[r].folder] = req[r].user
                 /\ \E stage \in Stage : Go(r, stage) /\
                      \/ req[r].route = "create" /\ stage = "insert"
                      \/ req[r].route = "update" /\ stage = "writeRow"
                      \/ req[r].route \in {"partial", "move"} /\ stage = "write"
  <1>1. Query /\ At(r, "vetFolder") /\ ~At(r, "idle")
    BY DEF VetFolder, At
  <1>2. req[r].route \in {"create", "update", "partial", "move"}
    BY <1>1, BusyHandler DEF Busy, Follows, At
  <1>3. CASE GiveUp(r)
    BY <1>1, <1>2, <1>3
  <1>4. CASE ~GiveUp(r)
    <2> DEFINE stage == CASE req[r].route = "create" -> "insert" [] req[r].route = "update" -> "writeRow"
                          [] OTHER -> "write"
    <2>1. req[r].folder \in folder /\ FolderOwner[req[r].folder] = req[r].user /\ Go(r, stage)
      BY <1>4 DEF VetFolder
    <2>2. \/ req[r].route = "create" /\ stage = "insert"
          \/ req[r].route = "update" /\ stage = "writeRow"
          \/ req[r].route \in {"partial", "move"} /\ stage = "write"
      BY <1>2
    <2> HIDE DEF stage
    <2>3. stage \in Stage
      BY <2>2 DEF Stage
    <2> QED
      BY <1>1, <1>2, <2>1, <2>2, <2>3
  <1> QED
    BY <1>3, <1>4

LEMMA VetFolderStep ==
    ASSUME HandlersInv, NEW r \in Req, VetFolder(r), Recording
    PROVE  HandlersInv'
  <1>1. /\ VaultTypeOK /\ Query /\ At(r, "vetFolder") /\ ~At(r, "idle")
        /\ req[r].route \in {"create", "update", "partial", "move"}
    BY VetFolderDoes DEF HandlersInv, At
  <1>2. CASE GiveUp(r)
    BY <1>1, <1>2, Ends, QueryOK, IdleStep
  <1>3. CASE ~GiveUp(r)
    <2>1. PICK stage \in Stage : Go(r, stage) /\
            \/ req[r].route = "create" /\ stage = "insert"
            \/ req[r].route = "update" /\ stage = "writeRow"
            \/ req[r].route \in {"partial", "move"} /\ stage = "write"
      BY <1>3, VetFolderDoes
    <2>2. ASSUME NEW g \in Handler, g.stage = stage, Same(g, req[r])
          PROVE  /\ Follows(g) /\ (Reached(g) => Reached(req[r])) /\ (Through(g) => Through(req[r]))
                 /\ FolderOwner[g.folder] = g.user
                 /\ Administers(g) => Administers(req[r])
      <3>1. /\ g.route = req[r].route /\ g.folder = req[r].folder /\ g.user = req[r].user /\ req[r].stage = "vetFolder"
            /\ g.org = req[r].org /\ g.ask = req[r].ask
        BY <1>1, <2>2 DEF Same, Holds, At
      <3>2. Follows(g)
        BY <1>1, <2>1, <2>2, <3>1 DEF Follows, Making, Marking
      <3>3. Reached(g) => Reached(req[r])
        BY <3>1 DEF Reached
      <3>4. Through(g) => Through(req[r])
        BY <2>1, <2>2, <3>1 DEF Through, Marking
      <3>5. FolderOwner[g.folder] = g.user
        BY <1>3, <3>1, VetFolderDoes
      <3>6. Administers(g) => Administers(req[r])
        BY <2>1, <2>2, <3>1 DEF Administers
      <3> QED
        BY <3>2, <3>3, <3>4, <3>5, <3>6
    <2>3. stage # "idle"
      BY <2>1
    <2> QED
      BY <1>1, <2>1, <2>2, <2>3, GoStep
  <1> QED
    BY <1>2, <1>3

\* A step of a handler to another stage of its route, whatever it writes.
LEMMA TurnStep ==
    ASSUME HandlersInv, NEW r \in Req, ~At(r, "idle"), NEW stage \in Stage, Proceed(r, stage) \/ Wrote(r, stage),
           stage # "idle", TablesOK', Recording,
           \A g \in Handler : g.stage = stage /\ Same(g, req[r]) =>
              /\ Follows(g) /\ (Reached(g) => Reached(req[r]))
              /\ Through(g) => Through(req[r]) \/ req[r].todo = {}
              /\ g.folder # None /\ FolderVetted(g) => FolderVetted(req[r]) \/ FolderOwner[g.folder] = g.user
              /\ Administers(g) => Administers(req[r]) \/ Admin(g.user)
    PROVE  HandlersInv'
  <1>1. VaultTypeOK
    BY DEF HandlersInv
  <1>2. PICK g \in Handler : Goto(r, g) /\ g.stage = stage /\ Same(g, req[r])
    BY <1>1, Goes, Writes
  <1> QED
    BY <1>2, SameStep

\* The stages at which no more is to be checked.
Plain == {"touch", "refetch", "accountGrants", "accountMember", "dropFolders", "account",
          "memberRow", "colGrants", "colRow"}

LEMMA PlainStep ==
    ASSUME HandlersInv, NEW r \in Req, ~At(r, "idle"), req[r].stage \notin {"vetBulk", "vetManage"},
           NEW stage \in Plain, Proceed(r, stage) \/ Wrote(r, stage), TablesOK', Recording
    PROVE  HandlersInv'
  <1>1. stage \in Stage /\ stage # "idle"
    BY DEF Plain, Stage
  <1>2. ASSUME NEW g \in Handler, g.stage = stage, Same(g, req[r])
        PROVE  /\ Follows(g) /\ ~Reached(g) /\ ~Through(g)
               /\ FolderVetted(g) => FolderVetted(req[r])
               /\ Administers(g) => Administers(req[r])
    BY <1>2 DEF Plain, Follows, Reached, Through, FolderVetted, Administers, Same, Holds
  <1> QED
    BY <1>1, <1>2, TurnStep

LEMMA InsertFolderStep ==
    ASSUME HandlersInv, NEW r \in Req, InsertFolder(r), Recording
    PROVE  HandlersInv'
  <1>1. VaultTypeOK /\ At(r, "insertFolder") /\ ~At(r, "idle")
    BY DEF InsertFolder, HandlersInv, At
  <1>2. req[r].route = "import" /\ req[r].folder \in Folder
    BY <1>1, BusyHandler DEF Busy, Follows, At, Handler
  <1>3. /\ drawn' = drawn \cup {req[r].folder}
        /\ UNCHANGED <<account, member, grant, collection, cipher, placed, cron>> /\ Noting({})
        /\ \/ GiveUp(r) /\ UNCHANGED folder
           \/ folder' = folder \cup {req[r].folder} /\ Wrote(r, "vetAssignment") /\ UNCHANGED excused
    BY DEF InsertFolder
  <1>4. TablesOK'
    <2>1. untold' \subseteq User
      BY <1>1, <1>3, NotingTypes
    <2>2. excused' \subseteq {"error", "crash", "cascade", "purge"}
      BY <1>1, <1>3, Ends DEF VaultTypeOK
    <2> QED
      BY <1>1, <1>2, <1>3, <2>1, <2>2 DEF VaultTypeOK, TablesOK
  <1>5. CASE GiveUp(r)
    BY <1>1, <1>4, <1>5, Ends, IdleStep
  <1>6. CASE Wrote(r, "vetAssignment")
    <2>1. "vetAssignment" \in Stage
      BY DEF Stage
    <2>2. ASSUME NEW g \in Handler, g.stage = "vetAssignment", Same(g, req[r])
          PROVE  /\ Follows(g) /\ ~Reached(g) /\ ~Through(g) /\ ~Administers(g)
                 /\ FolderVetted(req[r])
      BY <1>2, <2>2 DEF Follows, Reached, Through, FolderVetted, Administers, Same, Holds, Making, InTurn, Marking
    <2> QED
      BY <1>1, <1>4, <1>6, <2>1, <2>2, TurnStep
  <1> QED
    BY <1>3, <1>5, <1>6

LEMMA InsertStep ==
    ASSUME HandlersInv, NEW r \in Req, Insert(r), Recording
    PROVE  HandlersInv'
  <1>1. VaultTypeOK /\ At(r, "insert") /\ ~At(r, "idle") /\ drawn' = drawn \cup req[r].ids
    BY InsertDoes DEF HandlersInv, At
  <1> DEFINE h == req[r]
  <1>2. h \in Handler /\ Busy(h) /\ Watched(h, seen[r].edit, seen[r].admin) /\ h.stage = "insert"
    BY <1>1, BusyHandler DEF At
  <1>3. PICK cs \in SUBSET h.todo :
                 /\ cs # {} /\ OnlyCiphers(cs) /\ UNCHANGED placed
                 /\ \/ GiveUp(r) /\ UNCHANGED cipher
                    \/ /\ cipher' = [c \in Cipher |-> IF c \in cs
                             THEN [creator |-> h.user, org |-> h.org, folder |-> h.folder,
                                   trash |-> "no"] ELSE cipher[c]]
                       /\ UNCHANGED excused
                       /\ \E g \in Handler :
                             /\ Goto(r, g) /\ Holds(g, h) /\ g.c = h.c /\ g.org = h.org
                             /\ g.cols = h.cols /\ g.scopes = h.scopes /\ g.wrote = TRUE
                             /\ \/ g.todo = h.todo \ cs /\ g.stage = "insert"
                                \/ cs = h.todo /\ g.todo = h.ids /\ g.stage = "place"
    BY InsertDoes
  <1>4. drawn' \subseteq Cipher \cup Folder /\ h.route \in Making
    BY <1>1, <1>2 DEF VaultTypeOK, Handler, Busy, Follows
  <1>5. CASE GiveUp(r) /\ UNCHANGED cipher
    BY <1>1, <1>3, <1>4, <1>5, Ends, CiphersOK, IdleStep DEF VaultTypeOK
  <1>6. CASE ~(GiveUp(r) /\ UNCHANGED cipher)
    <2>1. PICK row : row = [creator |-> h.user, org |-> h.org, folder |-> h.folder, trash |-> "no"]
      OBVIOUS
    <2>2. row \in Row /\ row # None
      BY <1>2, <2>1, VaultNoneAssumption DEF Row, Handler, Busy
    <2>3. cipher' = [c \in Cipher |-> IF c \in cs THEN row ELSE cipher[c]] /\ UNCHANGED excused
      BY <1>3, <1>6, <2>1
    <2>4. cipher' \in [Cipher -> Row \cup {None}] /\ placed' \subseteq {c \in Cipher : cipher'[c] # None} \X collection
      BY <1>1, <1>3, <2>2, <2>3 DEF VaultTypeOK
    <2>5. TablesOK'
      BY <1>1, <1>3, <1>4, <2>3, <2>4, CiphersOK DEF VaultTypeOK
    <2>6. PICK g \in Handler :
                             /\ Goto(r, g) /\ Holds(g, h) /\ g.c = h.c /\ g.org = h.org /\ g.cols = h.cols
                             /\ \/ g.todo = h.todo \ cs /\ g.stage = "insert"
                                \/ cs = h.todo /\ g.todo = h.ids /\ g.stage = "place"
      BY <1>3, <1>6
    <2>7. Follows(g) /\ ~Reached(g) /\ ~Through(g) /\ ~Administers(g) /\ FolderVetted(h) /\ g.stage # "idle"
      BY <1>2, <1>4, <2>6 DEF Holds, Follows, Reached, Through, Administers, FolderVetted, InTurn, Making, Marking
    <2>8. Busy(g)
      BY <1>2, <1>4, <2>6, <2>7 DEF Busy, Holds
    <2>9. Watched(g, LatelySeen(r, g).edit, LatelySeen(r, g).admin)
      BY <1>4, <2>6, <2>7 DEF Watched, Holds, Making, Changing, InTurn, Marking
    <2> QED
      BY <2>5, <2>6, <2>7, <2>8, <2>9, HandlerStep DEF Sound
  <1> QED
    BY <1>5, <1>6

LEMMA PlaceStep ==
    ASSUME HandlersInv, NEW r \in Req, Place(r), Recording
    PROVE  HandlersInv'
  <1>1. /\ VaultTypeOK /\ At(r, "place") /\ ~At(r, "idle")
        /\ UNCHANGED <<cipher, drawn>> /\ OnlyCiphers({})
    BY PlaceDoes DEF HandlersInv, At
  <1> DEFINE h == req[r]
  <1>2. h \in Handler /\ Busy(h) /\ Watched(h, seen[r].edit, seen[r].admin) /\ h.stage = "place"
    BY <1>1, BusyHandler DEF At
  <1>3. CASE GiveUp(r) /\ UNCHANGED placed
    BY <1>1, <1>3, Ends, CiphersOK, IdleStep DEF VaultTypeOK
  <1>4. CASE ~(GiveUp(r) /\ UNCHANGED placed)
    <2>1. PICK g \in Handler, c \in Cipher :
                    /\ c \in IF g.route \in Making THEN h.todo ELSE {g.c}
                    /\ g.cols = {} \/ (cipher[c] # None /\ g.cols \subseteq collection)
                    /\ placed' = {p \in placed : p[1] # c} \cup ({c} \X g.cols)
                    /\ Goto(r, g) /\ UNCHANGED excused /\ Holds(g, h) /\ g.todo = h.todo \ {c}
                    /\ g.c = h.c /\ g.org = h.org /\ g.cols = h.cols
                    /\ g.scopes = h.scopes /\ g.wrote = TRUE
                    /\ g.stage = IF g.route \in Making THEN IF h.todo = {c} THEN "touch" ELSE "place"
                                 ELSE IF g.route \in {"update", "share"} THEN "touch" ELSE "bump"
      BY <1>4, PlaceDoes
    <2>2. placed' \subseteq {d \in Cipher : cipher'[d] # None} \X collection
      BY <1>1, <2>1 DEF VaultTypeOK
    <2>3. TablesOK'
      BY <1>1, <2>1, <2>2, CiphersOK DEF VaultTypeOK
    <2>4. h.route \in Making \cup InTurn /\ g.route = h.route /\ g.ids = h.ids
      BY <1>2, <2>1 DEF Busy, Follows, Holds
    <2>5. g.stage \in {"place", "touch", "bump"} /\ Follows(g) /\ ~Through(g)
      BY <2>1, <2>4 DEF Follows, Through, Making, InTurn, Marking
    <2>6. h.route \in InTurn => Reached(h) /\ h.c \in h.ids \ h.todo /\ g.todo = h.todo
      BY <1>2, <2>1, <2>4 DEF Busy, Reached, InTurn, Making
    <2>7. Reached(g) => g.c \in g.ids \ g.todo
      BY <2>1, <2>4, <2>6 DEF Reached, Holds
    <2>8. (FolderVetted(g) => FolderVetted(h)) /\ (Administers(g) => Administers(h))
      BY <1>2, <2>1, <2>4, <2>5 DEF FolderVetted, Administers, Holds
    <2>9. Busy(g)
      BY <1>2, <2>1, <2>5, <2>7, <2>8 DEF Busy, Holds
    <2>10. Watched(g, LatelySeen(r, g).edit, LatelySeen(r, g).admin)
      <3>1. g.route \in Changing => h.route \in InTurn
        BY <2>4 DEF Changing, InTurn, Marking, Making
      <3> QED
        BY <1>2, <2>1, <2>4, <2>6, <2>8, <3>1, SeenLately DEF Watched
    <2> QED
      BY <2>1, <2>3, <2>5, <2>9, <2>10, HandlerStep DEF Sound
  <1> QED
    BY <1>3, <1>4

LEMMA WriteRowStep ==
    ASSUME HandlersInv, NEW r \in Req, WriteRow(r), Recording
    PROVE  HandlersInv'
  <1>1. /\ VaultTypeOK /\ At(r, "writeRow") /\ ~At(r, "idle")
        /\ UNCHANGED <<placed, drawn>> /\ OnlyCiphers({req[r].c})
    BY WriteRowDoes DEF HandlersInv, At
  <1>2. PICK h \in Handler : h = req[r] /\ Busy(h) /\ Watched(h, seen[r].edit, seen[r].admin) /\ h.stage = "writeRow"
    BY <1>1, BusyHandler DEF At
  <1>3. CASE GiveUp(r) /\ UNCHANGED cipher
    BY <1>1, <1>3, Ends, CiphersOK, IdleStep DEF VaultTypeOK
  <1>4. CASE ~(GiveUp(r) /\ UNCHANGED cipher)
    <2>1. PICK g \in Handler :
                    /\ g.c \in Cipher
                    /\ cipher' = [cipher EXCEPT ![g.c] = IF cipher[g.c] = None THEN None
                                     ELSE [cipher[g.c] EXCEPT !.org = g.org, !.folder = g.folder]]
                    /\ Goto(r, g) /\ UNCHANGED excused /\ Holds(g, h) /\ g.todo = h.todo
                    /\ g.c = h.c /\ g.org = h.org /\ g.cols = h.cols
                    /\ g.stage = IF g.ask = None THEN "touch" ELSE "place"
      BY <1>2, <1>4, WriteRowDoes
    <2>2. PICK row \in Row \cup {None} :
             /\ row = IF cipher[g.c] = None THEN None ELSE [cipher[g.c] EXCEPT !.org = g.org, !.folder = g.folder]
             /\ row = None <=> cipher[g.c] = None
      <3>1. CASE cipher[g.c] = None
        BY <3>1
      <3>2. CASE cipher[g.c] # None
        <4>1. PICK old \in Row : old = cipher[g.c]
          BY <1>1, <2>1, <3>2 DEF VaultTypeOK
        <4>2. [old EXCEPT !.org = g.org, !.folder = g.folder] \in Row
          BY DEF Row, Handler
        <4> QED
          BY <3>2, <4>1, <4>2, VaultNoneAssumption
      <3> QED
        BY <3>1, <3>2
    <2>4. cipher' = [cipher EXCEPT ![g.c] = row]
      BY <2>1, <2>2
    <2>5. cipher' \in [Cipher -> Row \cup {None}] /\ \A c \in Cipher : cipher'[c] = None <=> cipher[c] = None
      BY <1>1, <2>1, <2>2, <2>4 DEF VaultTypeOK
    <2>6. placed' \subseteq {c \in Cipher : cipher'[c] # None} \X collection
      BY <1>1, <2>5 DEF VaultTypeOK
    <2>7. TablesOK'
      BY <1>1, <2>1, <2>5, <2>6, CiphersOK DEF VaultTypeOK
    <2>8. h.route \in {"update", "share"} /\ g.route = h.route /\ g.ids = h.ids /\ Reached(h)
      BY <1>2, <2>1 DEF Busy, Follows, Holds, Reached, InTurn
    <2>9. g.stage \in {"touch", "place"} /\ Follows(g) /\ ~Through(g) /\ (FolderVetted(g) => FolderVetted(h))
      BY <1>2, <2>1, <2>8 DEF Follows, Through, FolderVetted, InTurn, Marking
    <2>10. Administers(g) => Administers(h)
      BY <1>2, <2>1, <2>8 DEF Administers, Holds
    <2>11. Busy(g)
      BY <1>2, <2>1, <2>8, <2>9 DEF Busy, Holds
    <2>12. Watched(g, LatelySeen(r, g).edit, LatelySeen(r, g).admin)
      BY <1>2, <2>1, <2>8, <2>10, SeenLately DEF Watched
    <2> QED
      BY <2>1, <2>7, <2>9, <2>11, <2>12, HandlerStep DEF Sound
  <1> QED
    BY <1>3, <1>4

LEMMA MarkedTypes ==
    ASSUME NEW row \in Row, NEW h \in Handler
    PROVE  Marked(row, h) \in Row
  <1>1. [row EXCEPT !.trash = "trash"] \in Row /\ [row EXCEPT !.trash = "no"] \in Row
    BY DEF Row
  <1>2. [row EXCEPT !.folder = h.folder] \in Row
    BY DEF Row, Handler
  <1> QED
    BY <1>1, <1>2 DEF Marked

LEMMA WriteStep ==
    ASSUME HandlersInv, NEW r \in Req, Write(r), Recording
    PROVE  HandlersInv'
  <1> DEFINE h == req[r]
             cs == {c \in h.ids : cipher[c] # None /\ (h.route = "move" => cipher[c].creator = h.user)}
  <1>1. /\ VaultTypeOK /\ At(r, "write") /\ ~At(r, "idle")
        /\ UNCHANGED <<placed, drawn>> /\ OnlyCiphers(cs)
    BY WriteDoes DEF HandlersInv, At
  <1>2. CASE GiveUp(r) /\ UNCHANGED cipher
    BY <1>1, <1>2, Ends, CiphersOK, IdleStep DEF VaultTypeOK
  <1>3. CASE ~(GiveUp(r) /\ UNCHANGED cipher)
    <2>1. /\ cipher' = [c \in Cipher |-> IF c \in cs THEN Marked(cipher[c], h) ELSE cipher[c]]
          /\ UNCHANGED excused /\ \E stage \in {"touch", "refetch"} : Wrote(r, stage)
      BY <1>3 DEF Write
    <2>2. \A c \in cs : Marked(cipher[c], h) \in Row
      <3>1. h \in Handler /\ \A c \in cs : cipher[c] \in Row
        BY <1>1 DEF VaultTypeOK, Handler
      <3> QED
        BY <3>1, MarkedTypes
    <2> HIDE DEF cs
    <2>3. cipher' \in [Cipher -> Row \cup {None}] /\ \A c \in Cipher : cipher[c] # None => cipher'[c] # None
      BY <1>1, <2>1, <2>2, VaultNoneAssumption DEF VaultTypeOK
    <2>4. TablesOK'
      <3>1. placed' \subseteq {c \in Cipher : cipher'[c] # None} \X collection
        BY <1>1, <2>3 DEF VaultTypeOK
      <3> QED
        BY <1>1, <2>1, <2>3, <3>1, CiphersOK DEF VaultTypeOK
    <2>5. "touch" \in Plain /\ "refetch" \in Plain /\ h.stage \notin {"vetBulk", "vetManage"}
      BY <1>1 DEF Plain, At
    <2> QED
      BY <1>1, <2>1, <2>4, <2>5, PlainStep
  <1> QED
    BY <1>2, <1>3 DEF Write

LEMMA BumpStep ==
    ASSUME HandlersInv, NEW r \in Req, Bump(r), Recording
    PROVE  HandlersInv'
  <1>1. /\ VaultTypeOK /\ At(r, "bump") /\ ~At(r, "idle")
        /\ UNCHANGED <<cipher, placed, drawn, excused>> /\ OnlyCiphers({req[r].c})
        /\ \E stage \in {"refetch", "touch", "access"} :
              Proceed(r, stage) /\ (stage = "access" => req[r].route # "collections")
    BY DEF Bump, HandlersInv, At, Go
  <1>2. req[r].route \in {"collections", "bulkCollections"} /\ req[r].stage = "bump"
    BY <1>1, BusyHandler DEF Busy, Follows, At
  <1>3. TablesOK'
    BY <1>1, CiphersOK DEF VaultTypeOK
  <1>4. PICK stage \in {"refetch", "touch", "access"} :
           Proceed(r, stage) /\ (stage = "access" => req[r].route # "collections")
    BY <1>1
  <1>5. CASE stage = "access"
    <2>1. "access" \in Stage
      BY DEF Stage
    <2>2. ASSUME NEW g \in Handler, g.stage = "access", Same(g, req[r])
          PROVE  /\ Follows(g) /\ ~Reached(g) /\ ~Through(g) /\ ~FolderVetted(g)
                 /\ Administers(g) => Administers(req[r])
      BY <1>2, <2>2 DEF Follows, Reached, Through, FolderVetted, Administers, Same, Holds, Changing, InTurn
    <2> QED
      BY <1>1, <1>3, <1>4, <1>5, <2>1, <2>2, TurnStep
  <1>6. CASE stage # "access"
    <2>1. stage \in Plain
      BY <1>6 DEF Plain
    <2> QED
      BY <1>1, <1>2, <1>3, <1>4, <2>1, PlainStep
  <1> QED
    BY <1>5, <1>6

LEMMA RefetchStep ==
    ASSUME HandlersInv, NEW r \in Req, Refetch(r), Recording
    PROVE  HandlersInv'
  <1>1. VaultTypeOK /\ At(r, "refetch") /\ ~At(r, "idle") /\ Query /\ req[r].stage = "refetch"
    BY DEF Refetch, HandlersInv, At
  <1>2. GiveUp(r) \/ (Proceed(r, "touch") /\ UNCHANGED excused)
    BY DEF Refetch, Go
  <1>3. TablesOK'
    BY <1>1, <1>2, Ends, QueryOK DEF VaultTypeOK
  <1>4. "touch" \in Plain
    BY DEF Plain
  <1> QED
    BY <1>1, <1>2, <1>3, <1>4, Ends, IdleStep, PlainStep

\* Deletions leave the types as they were.
LEMMA WithoutCiphersOK ==
    ASSUME VaultTypeOK, NEW cs, WithoutCiphers(cs)
    PROVE  cipher' \in [Cipher -> Row \cup {None}] /\ placed' \subseteq {c \in Cipher : cipher'[c] # None} \X collection
  BY DEF VaultTypeOK, WithoutCiphers

LEMMA DropPlacedStep ==
    ASSUME HandlersInv, NEW r \in Req, DropPlaced(r), Recording
    PROVE  HandlersInv'
  <1>1. /\ VaultTypeOK /\ At(r, "dropPlaced") /\ ~At(r, "idle") /\ Wrote(r, "deleteRows")
        /\ placed' = {p \in placed : p[1] \notin req[r].ids}
        /\ UNCHANGED <<cipher, drawn, excused>> /\ OnlyCiphers({})
    BY DEF DropPlaced, HandlersInv, At
  <1>2. TablesOK'
    <2>1. placed' \subseteq {c \in Cipher : cipher'[c] # None} \X collection
      BY <1>1 DEF VaultTypeOK
    <2> QED
      BY <1>1, <2>1, CiphersOK DEF VaultTypeOK
  <1>3. req[r].route = "hardDelete" /\ req[r].stage = "dropPlaced" /\ "deleteRows" \in Stage
    BY <1>1, BusyHandler DEF Busy, Follows, At, Stage
  <1>4. ASSUME NEW g \in Handler, g.stage = "deleteRows", Same(g, req[r])
        PROVE  Follows(g) /\ ~Reached(g) /\ Through(req[r]) /\ ~FolderVetted(g) /\ ~Administers(g)
    BY <1>3, <1>4 DEF Follows, Reached, Through, FolderVetted, Administers, Same, Holds
  <1> QED
    BY <1>1, <1>2, <1>3, <1>4, TurnStep

LEMMA DeleteRowsStep ==
    ASSUME HandlersInv, NEW r \in Req, DeleteRows(r), Recording
    PROVE  HandlersInv'
  <1>1. /\ VaultTypeOK /\ ~At(r, "idle") /\ req[r].stage = "deleteRows" /\ Proceed(r, "touch")
        /\ WithoutCiphers(req[r].ids) /\ UNCHANGED <<drawn, excused>> /\ OnlyCiphers({})
    BY DEF DeleteRows, HandlersInv, At
  <1>2. TablesOK'
    BY <1>1, WithoutCiphersOK, CiphersOK DEF VaultTypeOK
  <1>3. "touch" \in Plain
    BY DEF Plain
  <1> QED
    BY <1>1, <1>2, <1>3, PlainStep

LEMMA DeletePersonalStep ==
    ASSUME HandlersInv, NEW r \in Req, DeletePersonal(r), Recording
    PROVE  HandlersInv'
  <1>1. /\ VaultTypeOK /\ ~At(r, "idle") /\ req[r].stage = "deletePersonal"
        /\ WithoutCiphers(Personal(req[r].user)) /\ UNCHANGED <<drawn, excused>> /\ OnlyCiphers({})
    BY DEF DeletePersonal, HandlersInv, At
  <1>2. TablesOK'
    BY <1>1, WithoutCiphersOK, CiphersOK DEF VaultTypeOK
  <1>3. \E stage \in Plain : Wrote(r, stage)
    BY DEF Plain, DeletePersonal
  <1> QED
    BY <1>1, <1>2, <1>3, PlainStep

\* Folders that go are left by their ciphers.
LEMMA WithoutFoldersOK ==
    ASSUME VaultTypeOK, NEW fs, WithoutFolders(fs)
    PROVE  /\ folder' \subseteq Folder /\ cipher' \in [Cipher -> Row \cup {None}]
           /\ \A c \in Cipher : cipher'[c] = None <=> cipher[c] = None
  <1>1. cipher' = [c \in Cipher |-> Unfiled(c, fs)] /\ folder' = folder \ fs
    BY DEF WithoutFolders
  <1> QED
    BY <1>1, UnfiledTypes DEF VaultTypeOK

LEMMA FoldersOK ==
    ASSUME VaultTypeOK, NEW fs, WithoutFolders(fs), Noting({}),
           UNCHANGED <<account, member, grant, collection, placed, cron, drawn, excused>>
    PROVE  TablesOK'
  <1>1. untold' \subseteq User
    BY NotingTypes
  <1>2. placed' \subseteq {c \in Cipher : cipher'[c] # None} \X collection
    BY WithoutFoldersOK DEF VaultTypeOK
  <1> QED
    BY <1>1, <1>2, WithoutFoldersOK DEF VaultTypeOK, TablesOK

LEMMA DropFoldersStep ==
    ASSUME HandlersInv, NEW r \in Req, DropFolders(r), Recording
    PROVE  HandlersInv'
  <1>1. /\ VaultTypeOK /\ ~At(r, "idle") /\ req[r].stage = "dropFolders"
        /\ WithoutFolders({f \in folder : FolderOwner[f] = req[r].user}) /\ Noting({})
        /\ UNCHANGED <<account, member, grant, collection, placed, cron, drawn, excused>>
    BY DEF DropFolders, HandlersInv, At
  <1>2. TablesOK'
    BY <1>1, FoldersOK
  <1>3. \E stage \in Plain : Proceed(r, stage)
    BY DEF Plain, DropFolders
  <1> QED
    BY <1>1, <1>2, <1>3, PlainStep

LEMMA DropUserGrantsStep ==
    ASSUME HandlersInv, NEW r \in Req, DropUserGrants(r), Recording
    PROVE  HandlersInv'
  <1>1. /\ VaultTypeOK /\ ~At(r, "idle") /\ req[r].stage \notin {"vetBulk", "vetManage"} /\ Noting({})
        /\ UNCHANGED <<account, member, collection, folder, cipher, placed, cron, drawn, excused>>
    BY DEF DropUserGrants, HandlersInv, At
  <1>2. grant' \subseteq grant
    BY DEF DropUserGrants, WithoutGrants
  <1>3. TablesOK'
    BY <1>1, <1>2, NotingTypes DEF VaultTypeOK, TablesOK
  <1>4. \E stage \in Plain : Wrote(r, stage)
    BY DEF Plain, DropUserGrants
  <1> QED
    BY <1>1, <1>3, <1>4, PlainStep

LEMMA DropMemberStep ==
    ASSUME HandlersInv, NEW r \in Req, DropMember(r), Recording
    PROVE  HandlersInv'
  <1>1. /\ VaultTypeOK /\ ~At(r, "idle") /\ req[r].stage \notin {"vetBulk", "vetManage"} /\ Noting({})
        /\ UNCHANGED <<account, grant, collection, folder, cipher, placed, cron, drawn, excused>>
    BY DEF DropMember, HandlersInv, At
  <1>2. member' \in [User -> Member \cup {None}]
    BY <1>1 DEF DropMember, VaultTypeOK
  <1>3. TablesOK'
    BY <1>1, <1>2, NotingTypes DEF VaultTypeOK, TablesOK
  <1>4. \E stage \in Plain : Proceed(r, stage)
    BY DEF Plain, DropMember
  <1> QED
    BY <1>1, <1>3, <1>4, PlainStep

LEMMA DeleteUserStep ==
    ASSUME HandlersInv, NEW r \in Req, DeleteUser(r), Recording
    PROVE  HandlersInv'
  <1> DEFINE u == req[r].user
             made == {c \in Cipher : cipher[c] # None /\ cipher[c].creator = u}
             own == {f \in folder : FolderOwner[f] = u}
  <1>1. /\ VaultTypeOK /\ Goto(r, Idle) /\ Noting({})
        /\ account' = account \ {u} /\ member' = [member EXCEPT ![u] = None]
        /\ grant' \subseteq grant /\ folder' \subseteq folder
        /\ cipher' = [c \in Cipher |-> IF c \in made THEN None ELSE Unfiled(c, own)]
        /\ placed' = {p \in placed : p[1] \notin made}
        /\ UNCHANGED <<collection, cron, drawn>>
        /\ excused' \subseteq excused \cup {"cascade"}
    BY DEF DeleteUser, HandlersInv, WithoutGrants, Goto
  <1> HIDE DEF made, own
  <1>2. cipher' \in [Cipher -> Row \cup {None}] /\ \A c \in Cipher \ made : cipher'[c] = None <=> cipher[c] = None
    BY <1>1, UnfiledTypes DEF VaultTypeOK
  <1>3. placed' \subseteq {c \in Cipher : cipher'[c] # None} \X collection
    BY <1>1, <1>2 DEF VaultTypeOK
  <1>4. TablesOK'
    <2>1. member' \in [User -> Member \cup {None}] /\ untold' \subseteq User
      BY <1>1, NotingTypes DEF VaultTypeOK
    <2> QED
      BY <1>1, <1>2, <1>3, <2>1 DEF VaultTypeOK, TablesOK
  <1> QED
    BY <1>1, <1>4, IdleStep

LEMMA DeleteCollectionStep ==
    ASSUME HandlersInv, NEW r \in Req, DeleteCollection(r), Recording
    PROVE  HandlersInv'
  <1>1. /\ VaultTypeOK /\ ~At(r, "idle") /\ req[r].stage \notin {"vetBulk", "vetManage"} /\ Noting({})
        /\ UNCHANGED <<account, member, folder, cipher, cron, drawn, excused>>
    BY DEF DeleteCollection, HandlersInv, At
  <1>2. /\ grant' \subseteq grant /\ collection' \subseteq collection
        /\ placed' \subseteq placed /\ \A p \in placed' : p[2] \in collection'
    BY <1>1 DEF DeleteCollection, VaultTypeOK
  <1>3. TablesOK'
    <2>1. placed' \subseteq {c \in Cipher : cipher'[c] # None} \X collection'
      BY <1>1, <1>2 DEF VaultTypeOK
    <2> QED
      BY <1>1, <1>2, <2>1, NotingTypes DEF VaultTypeOK, TablesOK
  <1>4. \E stage \in Plain : Wrote(r, stage)
    BY DEF Plain, DeleteCollection
  <1> QED
    BY <1>1, <1>3, <1>4, PlainStep

LEMMA TouchStep ==
    ASSUME HandlersInv, NEW r \in Req, Touch(r), Recording
    PROVE  HandlersInv'
  <1>1. /\ VaultTypeOK /\ At(r, "touch") /\ ~At(r, "idle") /\ UNCHANGED <<tables, cron, drawn, excused>>
        /\ untold' \subseteq untold
    BY TouchDoes DEF HandlersInv, At
  <1>2. TablesOK'
    BY <1>1 DEF VaultTypeOK, TablesOK, tables
  <1>3. CASE Goto(r, Idle)
    BY <1>2, <1>3, IdleStep
  <1>4. CASE ~Goto(r, Idle)
    <2>1. PICK g \in Handler :
                    /\ Goto(r, g) /\ Holds(g, req[r]) /\ g.todo = req[r].todo /\ g.c = req[r].c /\ g.org = req[r].org
                    /\ g.cols = req[r].cols
                    /\ g.stage = "touch" \/ (g.stage = "access" /\ g.route = "share")
      BY <1>4, TouchDoes
    <2>2. PICK h \in Handler : h = req[r] /\ Busy(h) /\ Watched(h, seen[r].edit, seen[r].admin) /\ h.stage = "touch"
      BY <1>1, BusyHandler DEF At
    <2>3. /\ Follows(g) /\ ~Reached(g) /\ ~Through(g) /\ (FolderVetted(g) => FolderVetted(h))
          /\ Administers(g) => Administers(h)
      BY <2>1, <2>2 DEF Holds, Follows, Reached, Through, FolderVetted, Administers, Changing, InTurn
    <2>4. Busy(g)
      BY <2>1, <2>2, <2>3 DEF Busy, Holds
    <2>5. Watched(g, LatelySeen(r, g).edit, LatelySeen(r, g).admin)
      BY <2>1, <2>2, <2>3, SeenLately DEF Watched, Holds
    <2> QED
      BY <1>2, <2>1, <2>4, <2>5, HandlerStep DEF Sound
  <1> QED
    BY <1>3, <1>4

LEMMA CrashStep ==
    ASSUME HandlersInv, NEW r \in Req, Crash(r), Recording
    PROVE  HandlersInv'
  <1>1. VaultTypeOK /\ Query /\ Leave(r, "crash")
    BY DEF Crash, HandlersInv
  <1> QED
    BY <1>1, Ends, QueryOK, IdleStep

LEMMA FolderRequestOK ==
    ASSUME HandlersInv, NEW r \in Req, NEW u \in User, FolderRequest(r, u)
    PROVE  TablesOK'
  <1>1. VaultTypeOK
    BY DEF HandlersInv
  <1>2. PICK f \in Folder : StartCreateFolder(r, u, f) \/ StartDeleteFolder(r, u, f)
    BY <1>1, VaultWorkloadAssumption DEF FolderRequest, Asked, VaultTypeOK
  <1>3. CASE StartCreateFolder(r, u, f)
    BY <1>1, <1>3 DEF StartCreateFolder, VaultTypeOK, TablesOK
  <1>4. CASE StartDeleteFolder(r, u, f)
    BY <1>1, <1>4, FoldersOK DEF StartDeleteFolder
  <1> QED
    BY <1>2, <1>3, <1>4

LEMMA BeginStep ==
    ASSUME HandlersInv, NEW r \in Req, NEW u \in User, Begin(r, u), Recording
    PROVE  HandlersInv'
  <1>1. TablesOK'
    BY BeginDoes, FolderRequestOK, QueryOK DEF HandlersInv, VaultTypeOK
  <1> QED
    BY <1>1, BeginDoes, BegunStep

LEMMA AgeOK ==
    ASSUME HandlersInv, NEW c \in Cipher, Age(c), UNCHANGED cron
    PROVE  TablesOK' /\ UNCHANGED req
  <1>1. /\ VaultTypeOK /\ cipher[c] # None /\ cipher' = [cipher EXCEPT ![c].trash = "old"]
        /\ UNCHANGED <<account, member, grant, collection, folder, placed, req, drawn, untold, excused>>
    BY DEF HandlersInv, Age
  <1>2. PICK row \in Row : row = cipher[c]
    BY <1>1 DEF VaultTypeOK
  <1>3. [row EXCEPT !.trash = "old"] \in Row
    BY DEF Row
  <1>4. cipher' \in [Cipher -> Row \cup {None}] /\ \A d \in Cipher : cipher'[d] = None => cipher[d] = None
    BY <1>1, <1>2, <1>3, VaultNoneAssumption DEF VaultTypeOK
  <1>5. placed' \subseteq {d \in Cipher : cipher'[d] # None} \X collection
    BY <1>1, <1>4 DEF VaultTypeOK
  <1> QED
    BY <1>1, <1>4, <1>5 DEF VaultTypeOK, TablesOK

LEMMA CronDeleteOK ==
    ASSUME HandlersInv, CronDelete
    PROVE  TablesOK' /\ UNCHANGED req
  <1>1. /\ VaultTypeOK /\ WithoutCiphers({c \in cron.ids : Old(c)}) /\ Noting({})
        /\ cron' = [cron EXCEPT !.stage = "touch", !.ids = {}]
        /\ UNCHANGED <<account, member, grant, collection, folder, req, drawn>>
        /\ excused' \subseteq excused \cup {"purge"}
    BY DEF HandlersInv, CronDelete, TellCreators
  <1>2. cron' \in [stage : {"idle", "count", "delete", "touch"}, ids : SUBSET Cipher, users : SUBSET User]
    BY <1>1 DEF VaultTypeOK
  <1>3. cipher' \in [Cipher -> Row \cup {None}] /\ placed' \subseteq {c \in Cipher : cipher'[c] # None} \X collection
    BY <1>1, WithoutCiphersOK
  <1> QED
    BY <1>1, <1>2, <1>3, NotingTypes DEF VaultTypeOK, TablesOK

LEMMA CronOK ==
    ASSUME HandlersInv, Cron
    PROVE  TablesOK' /\ UNCHANGED req
  <1>1. VaultTypeOK
    BY DEF HandlersInv
  <1>2. CronIdle \in [stage : {"idle", "count", "delete", "touch"}, ids : SUBSET Cipher, users : SUBSET User]
    BY DEF CronIdle
  <1>3. CASE CronFind
    <2>1. PICK old \in SUBSET Cipher : old = {c \in Cipher : Old(c)}
      OBVIOUS
    <2>2. PICK users \in SUBSET User : users = {cipher[c].creator : c \in old}
      <3>1. \A c \in old : cipher[c] \in Row
        BY <1>1, <2>1 DEF Old, VaultTypeOK
      <3>2. \A c \in old : cipher[c].creator \in User
        BY <3>1 DEF Row
      <3> QED
        BY <3>2
    <2>3. cron' = [stage |-> "count", ids |-> old, users |-> users] /\ UNCHANGED <<tables, req, drawn, untold, excused>>
      BY <1>3, <2>1, <2>2 DEF CronFind
    <2> QED
      BY <1>1, <2>3 DEF VaultTypeOK, TablesOK, tables
  <1>4. CASE CronCount
    <2>1. /\ cron' \in {CronIdle, [cron EXCEPT !.stage = "delete"]}
          /\ UNCHANGED <<tables, req, drawn, untold, excused>>
      BY <1>4 DEF CronCount
    <2>2. [cron EXCEPT !.stage = "delete"]
             \in [stage : {"idle", "count", "delete", "touch"}, ids : SUBSET Cipher, users : SUBSET User]
      BY <1>1 DEF VaultTypeOK
    <2> QED
      BY <1>1, <1>2, <2>1, <2>2 DEF VaultTypeOK, TablesOK, tables
  <1>5. CASE CronDelete
    BY <1>5, CronDeleteOK
  <1>6. ASSUME NEW u \in User, CronTouch(u) PROVE TablesOK' /\ UNCHANGED req
    <2>1. /\ cron' \in {CronIdle, [cron EXCEPT !.users = @ \ {u}]} /\ untold' = untold \ {u}
          /\ UNCHANGED <<tables, req, drawn, excused>>
      BY <1>6 DEF CronTouch
    <2>2. [cron EXCEPT !.users = @ \ {u}]
             \in [stage : {"idle", "count", "delete", "touch"}, ids : SUBSET Cipher, users : SUBSET User]
      BY <1>1 DEF VaultTypeOK
    <2> QED
      BY <1>1, <1>2, <2>1, <2>2 DEF VaultTypeOK, TablesOK, tables
  <1>7. ASSUME NEW c \in Cipher, Age(c), UNCHANGED cron PROVE TablesOK' /\ UNCHANGED req
    BY <1>7, AgeOK
  <1> QED
    BY <1>3, <1>4, <1>5, <1>6, <1>7 DEF Cron

-----------------------------------------------------------------------------
\* What is promised

LEMMA HandlersInit == VaultInit => HandlersInv
  <1> SUFFICES ASSUME VaultInit PROVE HandlersInv
    OBVIOUS
  <1>1. Unseen \in [edit : SUBSET Cipher, admin : BOOLEAN]
    BY DEF Unseen
  <1>2. CronIdle \in [stage : {"idle", "count", "delete", "touch"}, ids : SUBSET Cipher, users : SUBSET User]
    BY DEF CronIdle
  <1>3. VaultTypeOK
    BY <1>1, <1>2, IdleSound, VaultWorkloadAssumption, FirstAssumption DEF VaultInit, VaultTypeOK
  <1>4. AllSound
    BY IdleSound DEF VaultInit, AllSound
  <1>5. AllWatched
    BY IdleSound DEF VaultInit, AllWatched, Watched
  <1> QED
    BY <1>3, <1>4, <1>5 DEF HandlersInv

LEMMA ContinueStep ==
    ASSUME HandlersInv, NEW r \in Req, Continue(r), Recording
    PROVE  HandlersInv'
  BY AccessStep, FetchStep, VetBulkStep, VetAssignmentStep, VetManageStep, VetFolderStep, InsertFolderStep,
     InsertStep, PlaceStep, WriteRowStep, WriteStep, BumpStep, RefetchStep, DropPlacedStep, DeleteRowsStep,
     DeletePersonalStep, DropFoldersStep, DropUserGrantsStep, DropMemberStep, DeleteUserStep,
     DeleteCollectionStep, TouchStep, CrashStep
  DEF Continue

LEMMA HandlersNext ==
    ASSUME HandlersInv, [VaultNext]_vaultVars
    PROVE  HandlersInv'
  <1>1. CASE UNCHANGED vaultVars
    BY <1>1
    DEF vaultVars, HandlersInv, VaultTypeOK, AllSound, AllWatched
  <1>2. CASE VaultNext
    <2>1. Recording
      BY <1>2 DEF VaultNext, Recording
    <2>2. ASSUME NEW r \in Req, NEW u \in User, Begin(r, u) PROVE HandlersInv'
      BY <2>1, <2>2, BeginStep
    <2>3. ASSUME NEW r \in Req, Continue(r) PROVE HandlersInv'
      BY <2>1, <2>3, ContinueStep
    <2>4. ASSUME Cron PROVE HandlersInv'
      BY <2>1, <2>4, CronOK, CronStep
    <2> QED
      BY <1>2, <2>2, <2>3, <2>4 DEF VaultNext
  <1> QED
    BY <1>1, <1>2

LEMMA HandlersHold == VaultSpec => []HandlersInv
  BY HandlersInit, HandlersNext, PTL DEF VaultSpec

\* The tables and the handlers are always of their types: a placement is of a cipher
\* there is, in a collection there is, whatever is deleted between two queries.
THEOREM VaultTypeCorrect == VaultSpec => []VaultTypeOK
  <1>1. HandlersInv => VaultTypeOK
    BY DEF HandlersInv
  <1> QED
    BY <1>1, HandlersHold, PTL

\* A handler moves alone, and leaves the purge as it is.
Moves(r) == UNCHANGED cron /\ \A s \in Req \ {r} : req'[s] = req[s]

LEMMA MovesAlone ==
    ASSUME VaultTypeOK, NEW r \in Req
    PROVE  /\ \A h : Goto(r, h) => \A s \in Req \ {r} : req'[s] = req[s]
           /\ \A stage : Go(r, stage) \/ Proceed(r, stage) \/ Wrote(r, stage) => \A s \in Req \ {r} : req'[s] = req[s]
           /\ \A how : Leave(r, how) => \A s \in Req \ {r} : req'[s] = req[s]
           /\ GiveUp(r) \/ Finish(r) => \A s \in Req \ {r} : req'[s] = req[s]
  BY DEF VaultTypeOK, Goto, Go, Proceed, Wrote, Leave, GiveUp, Finish

LEMMA ContinueMoves ==
    ASSUME HandlersInv, NEW r \in Req, Continue(r)
    PROVE  Moves(r)
  <1>1. VaultTypeOK
    BY DEF HandlersInv
  <1>2. Access(r) \/ Fetch(r) => Moves(r)
    BY <1>1, AccessDoes, FetchDoes, MovesAlone DEF Moves, Query
  <1>3. VetBulk(r) \/ VetAssignment(r) \/ VetManage(r) \/ VetFolder(r) => Moves(r)
    BY <1>1, VetAssignmentDoes, VetManageDoes, VetFolderDoes, MovesAlone DEF Moves, Query, VetBulk
  <1>4. InsertFolder(r) => Moves(r)
    BY <1>1, MovesAlone DEF InsertFolder, Moves
  <1>5. Insert(r) => Moves(r)
    BY <1>1, InsertDoes, MovesAlone DEF Moves, OnlyCiphers
  <1>6. Place(r) \/ WriteRow(r) => Moves(r)
    BY <1>1, PlaceDoes, WriteRowDoes, MovesAlone DEF Moves, OnlyCiphers
  <1>7. Write(r) => Moves(r)
    BY <1>1, MovesAlone DEF Write, Moves, OnlyCiphers
  <1>8. Bump(r) \/ Refetch(r) => Moves(r)
    BY <1>1, MovesAlone DEF Bump, Refetch, Moves, OnlyCiphers, Query
  <1>9. DropPlaced(r) \/ DeleteRows(r) \/ DeletePersonal(r) => Moves(r)
    BY <1>1, MovesAlone DEF DropPlaced, DeleteRows, DeletePersonal, Moves, OnlyCiphers
  <1>10. DropFolders(r) \/ DropUserGrants(r) \/ DropMember(r) => Moves(r)
    BY <1>1, MovesAlone DEF DropFolders, DropUserGrants, DropMember, Moves
  <1>11. DeleteUser(r) => Moves(r)
    BY <1>1 DEF DeleteUser, Moves, VaultTypeOK
  <1>12. DeleteCollection(r) => Moves(r)
    BY <1>1, MovesAlone DEF DeleteCollection, Moves
  <1>13. Touch(r) => Moves(r)
    BY <1>1, TouchDoes, MovesAlone DEF Moves
  <1>14. Crash(r) => Moves(r)
    BY <1>1, MovesAlone DEF Crash, Moves, Query
  <1> QED
    BY <1>2, <1>3, <1>4, <1>5, <1>6, <1>7, <1>8, <1>9, <1>10, <1>11, <1>12, <1>13, <1>14 DEF Continue

LEMMA BeginMoves ==
    ASSUME HandlersInv, NEW r \in Req, NEW u \in User, Begin(r, u)
    PROVE  Moves(r) /\ At(r, "idle")
  <1>1. VaultTypeOK
    BY DEF HandlersInv
  <1>2. UNCHANGED cron
    <2>1. FolderRequest(r, u) => UNCHANGED cron
      BY DEF FolderRequest, StartCreateFolder, StartDeleteFolder
    <2> QED
      BY <2>1, BeginDoes DEF Query
  <1> QED
    BY <1>1, <1>2, BeginDoes, MovesAlone DEF Moves

\* Who moves, when the slot of r changes.
LEMMA WhoMoves ==
    ASSUME HandlersInv, VaultNext, NEW r \in Req, req'[r] # req[r], ~At(r, "idle")
    PROVE  Continue(r)
  <1>1. ASSUME NEW s \in Req, NEW u \in User, Begin(s, u) PROVE FALSE
    BY <1>1, BeginMoves DEF Moves
  <1>2. ASSUME NEW s \in Req, Continue(s) PROVE s = r
    BY <1>2, ContinueMoves DEF Moves
  <1>3. ~Cron
    BY CronOK
  <1> QED
    BY <1>1, <1>2, <1>3 DEF VaultNext

\* The action of a handler that is at one of these stages.
LEMMA WriterSteps ==
    ASSUME NEW r \in Req, Continue(r), req[r].stage \in {"writeRow", "write", "dropPlaced", "deleteRows"}
    PROVE  \/ WriteRow(r) \/ Write(r) \/ DropPlaced(r) \/ DeleteRows(r) \/ (Crash(r) /\ UNCHANGED <<cipher, placed>>)
  <1>1. ~(Access(r) \/ Fetch(r) \/ VetBulk(r) \/ VetAssignment(r) \/ VetManage(r) \/ VetFolder(r))
    BY DEF Access, Fetch, VetBulk, VetAssignment, VetManage, VetFolder, At
  <1>2. ~(InsertFolder(r) \/ Insert(r) \/ Place(r) \/ Bump(r) \/ Refetch(r) \/ DeletePersonal(r))
    BY DEF InsertFolder, Insert, Place, Bump, Refetch, DeletePersonal, At
  <1>3. ~(DropFolders(r) \/ DropUserGrants(r) \/ DropMember(r) \/ DeleteUser(r) \/ DeleteCollection(r) \/ Touch(r))
    BY DEF DropFolders, DropUserGrants, DropMember, DeleteUser, DeleteCollection, Touch, At
  <1>4. Crash(r) => UNCHANGED <<cipher, placed>>
    BY DEF Crash, Query, tables
  <1> QED
    BY <1>1, <1>2, <1>3, <1>4 DEF Continue

\* The ciphers a handler writes are those it has found its caller to be able to edit.
LEMMA WritesItsOwn ==
    ASSUME HandlersInv, NEW r \in Req, WriteRow(r) \/ Write(r) \/ DropPlaced(r) \/ DeleteRows(r),
           NEW c \in Cipher, cipher'[c] # cipher[c] \/ ColsOf(c)' # ColsOf(c)
    PROVE  c \in seen[r].edit
  <1> DEFINE h == req[r]
  <1>1. ~At(r, "idle") /\ cipher \in [Cipher -> Row \cup {None}]
    BY DEF WriteRow, Write, DropPlaced, DeleteRows, At, HandlersInv, VaultTypeOK
  <1>2. h \in Handler /\ Busy(h) /\ Watched(h, seen[r].edit, seen[r].admin) /\ h.stage # "idle"
    BY <1>1, BusyHandler
  <1>3. CASE WriteRow(r)
    <2>1. h.stage = "writeRow" /\ h.route \in Changing /\ h.c \in h.ids \ h.todo
      BY <1>2, <1>3 DEF WriteRow, At, Busy, Follows, Reached, Changing, InTurn
    <2>2. UNCHANGED placed /\ \A d \in Cipher \ {h.c} : cipher'[d] = cipher[d]
      BY <1>1, <1>3 DEF WriteRow
    <2>3. c = h.c
      BY <2>2 DEF ColsOf
    <2> QED
      BY <1>2, <2>1, <2>3 DEF Watched
  <1>4. CASE Write(r)
    <2>1. h.stage = "write" /\ h.route \in Changing /\ h.todo = {}
      BY <1>2, <1>4 DEF Write, At, Busy, Follows, Through, Changing, Marking
    <2>2. UNCHANGED placed /\ \A d \in Cipher \ h.ids : cipher'[d] = cipher[d]
      BY <1>1, <1>4 DEF Write
    <2>3. c \in h.ids
      BY <2>2 DEF ColsOf
    <2> QED
      BY <1>2, <2>1, <2>3 DEF Watched
  <1>5. CASE DropPlaced(r) \/ DeleteRows(r)
    <2>1. h.stage \in {"dropPlaced", "deleteRows"} /\ h.route \in Changing /\ h.todo = {}
      BY <1>2, <1>5 DEF DropPlaced, DeleteRows, At, Busy, Follows, Through, Changing
    <2>2. placed' = {p \in placed : p[1] \notin h.ids} /\ \A d \in Cipher \ h.ids : cipher'[d] = cipher[d]
      BY <1>1, <1>5 DEF DropPlaced, DeleteRows, WithoutCiphers
    <2>3. c \in h.ids
      BY <2>2 DEF ColsOf
    <2> QED
      BY <1>2, <2>1, <2>3 DEF Watched
  <1> QED
    BY <1>3, <1>4, <1>5

\* A handler writes no cipher that its caller could not edit at some moment of the
\* request, whatever happens between its reads and its writes.
THEOREM WritersHold == VaultSpec => WrittenByWriters
  <1>1. ASSUME HandlersInv, [VaultNext]_vaultVars
        PROVE  \A r \in Req, c \in Cipher :
                 req[r].stage \in {"writeRow", "write", "dropPlaced", "deleteRows"} /\ req'[r] # req[r]
                     /\ cipher[c] # None /\ (cipher'[c] # cipher[c] \/ ColsOf(c)' # ColsOf(c))
                 => c \in seen[r].edit
    <2> SUFFICES ASSUME NEW r \in Req, NEW c \in Cipher,
                        req[r].stage \in {"writeRow", "write", "dropPlaced", "deleteRows"}, req'[r] # req[r],
                        cipher'[c] # cipher[c] \/ ColsOf(c)' # ColsOf(c)
                 PROVE  c \in seen[r].edit
      OBVIOUS
    <2>1. VaultNext /\ ~At(r, "idle")
      BY <1>1 DEF vaultVars, At
    <2>2. Continue(r)
      BY <1>1, <2>1, WhoMoves
    <2>3. ~(UNCHANGED <<cipher, placed>>)
      BY DEF ColsOf
    <2> QED
      BY <1>1, <2>2, <2>3, WriterSteps, WritesItsOwn
  <1> QED
    BY <1>1, HandlersHold, PTL DEF VaultSpec, WrittenByWriters

\* A cipher that is the organization's, as the handler read it, is moved between
\* collections by those only who were administrators at some moment of the request.
THEOREM AdminsPlace == VaultSpec => PlacedByAdmins
  <1>1. ASSUME HandlersInv, [VaultNext]_vaultVars
        PROVE  \A r \in Req, c \in Cipher :
                 req[r].stage = "place" /\ req[r].route \notin {"create", "import"} /\ req[r].org
                     /\ req'[r] # req[r] /\ ColsOf(c)' # ColsOf(c)
                 => seen[r].admin
    <2> SUFFICES ASSUME NEW r \in Req, req[r].stage = "place", req[r].route \notin {"create", "import"}, req[r].org
                 PROVE  seen[r].admin
      OBVIOUS
    <2>1. Busy(req[r]) /\ Watched(req[r], seen[r].edit, seen[r].admin)
      BY <1>1, BusyHandler DEF At
    <2>2. Administers(req[r])
      BY <2>1 DEF Busy, Follows, Administers, Making, InTurn
    <2> QED
      BY <2>1, <2>2 DEF Watched
  <1> QED
    BY <1>1, HandlersHold, PTL DEF VaultSpec, PlacedByAdmins

\* The purge looks again: what was taken out of the trash since it was found stays.
THEOREM PurgeHolds == VaultSpec => PurgesTrash
  <1>1. ASSUME HandlersInv, [VaultNext]_vaultVars
        PROVE  cron.stage = "delete" /\ cron' # cron =>
                 \A c \in Cipher : cipher[c] # None /\ cipher[c].trash # "old" => cipher'[c] # None
    <2> SUFFICES ASSUME cron.stage = "delete", cron' # cron,
                        NEW c \in Cipher, cipher[c] # None, cipher[c].trash # "old"
                 PROVE  cipher'[c] # None
      OBVIOUS
    <2>1. VaultNext
      BY <1>1 DEF vaultVars
    <2>2. Cron
      BY <1>1, <2>1, BeginMoves, ContinueMoves DEF VaultNext, Moves
    <2>3. CronDelete
      BY <2>2 DEF Cron, CronFind, CronCount, CronTouch
    <2> QED
      BY <2>3 DEF CronDelete, WithoutCiphers, Old
  <1> QED
    BY <1>1, HandlersHold, PTL DEF VaultSpec, PurgesTrash

-----------------------------------------------------------------------------
\* In whose folders ciphers lie

\* The ciphers a handler is still to insert; those it has found its caller to be
\* able to edit; those it makes.
ToInsert == {"vetAssignment", "vetFolder", "insertFolder", "insert"}
Pending(h) == IF h.route \in Making /\ h.stage \in ToInsert THEN h.todo ELSE {}
Found(h) == IF h.route \in Changing THEN h.ids \ h.todo ELSE {}
Makes(h) == IF h.route \in Making THEN h.ids ELSE {}

\* No id is of two ciphers, or of one that was deleted.
Fresh ==
    /\ \A c \in Cipher : cipher[c] # None => c \in drawn
    /\ \A r \in Req : Found(req[r]) \subseteq drawn
    /\ \A r \in Req, c \in Cipher : c \in Pending(req[r]) =>
          cipher[c] = None /\ \A s \in Req : c \notin Found(req[s])
    /\ \A r, s \in Req : r # s => Makes(req[r]) \cap Makes(req[s]) = {}

\* The cipher is the caller's own, unless it was written back as personal.
Own(u, c) == cipher[c] = None \/ cipher[c].creator = u \/ c \in reverted

\* An update has fetched the row it is to write.
Fetched(h) == h.route = "update" /\ h.stage \in {"vetAssignment", "vetManage", "vetFolder", "writeRow"}

\* Where a handler files a cipher, the cipher is of the account that files it.
Vouched(h) ==
    \A c \in Found(h) :
        /\ h.route = "update" => Own(h.user, c) \/ cipher[c].org
        /\ h.route = "partial" /\ h.folder # None => Own(h.user, c)
        /\ Fetched(h) /\ h.folder # None /\ c = h.c => Own(h.user, c)

AllVouched == \A r \in Req : Vouched(req[r])

OwnersInv == HandlersInv /\ Fresh /\ AllVouched /\ FolderOfCreator

\* A write that makes no cipher, but those of cs, and leaves each its creator.
Keeps(cs) ==
    \A c \in Cipher \ cs : cipher'[c] # None => cipher[c] # None /\ cipher'[c].creator = cipher[c].creator

\* One that files no cipher besides, and takes them out of the folders that go.
Shrinks ==
    \A c \in Cipher : cipher'[c] # None =>
        /\ cipher[c] # None /\ cipher'[c].creator = cipher[c].creator
        /\ cipher'[c].folder # None => cipher'[c].folder = cipher[c].folder /\ cipher'[c].folder \in folder'

LEMMA ShrinksKeeps ==
    ASSUME FolderOfCreator, Shrinks, Reverting
    PROVE  Keeps({}) /\ FolderOfCreator'
  BY DEF FolderOfCreator, Shrinks, Keeps, Reverting

LEMMA ReadsShrink ==
    ASSUME FolderOfCreator, UNCHANGED cipher, folder \subseteq folder'
    PROVE  Shrinks
  BY DEF FolderOfCreator, Shrinks

LEMMA VouchedKept ==
    ASSUME VaultTypeOK, Reverting, NEW h \in Handler, Vouched(h), NEW cs, Keeps(cs), Found(h) \cap cs = {}
    PROVE  Vouched(h)'
  <1> SUFFICES ASSUME NEW c \in Found(h)
               PROVE  /\ Own(h.user, c) => Own(h.user, c)'
                      /\ Own(h.user, c) \/ cipher[c].org => Own(h.user, c)' \/ cipher'[c].org
    BY DEF Vouched
  <1>1. c \in Cipher \ cs
    BY DEF Found, Handler
  <1>2. cipher'[c] # None => cipher[c] # None /\ cipher'[c].creator = cipher[c].creator
    BY <1>1 DEF Keeps
  <1>3. c \in reverted => c \in reverted'
    BY DEF Reverting
  <1>4. cipher[c] # None /\ cipher[c].org /\ cipher'[c] # None /\ ~cipher'[c].org => c \in reverted'
    BY <1>1 DEF Reverting
  <1> QED
    BY <1>2, <1>3, <1>4 DEF Own

LEMMA PendingMakes ==
    ASSUME OwnersInv, NEW s \in Req
    PROVE  Pending(req[s]) \subseteq Makes(req[s]) /\ Pending(req[s]) \subseteq Cipher
  <1>1. req[s] \in Handler /\ Sound(req[s])
    BY DEF OwnersInv, HandlersInv, VaultTypeOK, AllSound
  <1>2. req[s].todo \subseteq req[s].ids
    BY <1>1 DEF Sound, Busy, Idle
  <1> QED
    BY <1>1, <1>2 DEF Pending, Makes, Handler

\* A step of a handler that goes on with g, having inserted the ciphers of cs.
LEMMA OwnersStep ==
    ASSUME OwnersInv, HandlersInv', Reverting, NEW r \in Req, NEW g \in Handler, Goto(r, g), FolderOfCreator',
           NEW cs, Keeps(cs), cs \subseteq Pending(req[r]), drawn \cup cs \subseteq drawn',
           \A c \in Pending(g) : c \in Cipher \ cs /\ cipher[c] = None /\ \A s \in Req : c \notin Found(req[s]),
           \A s \in Req \ {r} : Makes(g) \cap Makes(req[s]) = {},
           \A c \in Found(g) : c \in Found(req[r]) \/ (c \in Cipher /\ cipher[c] # None),
           Vouched(g)
    PROVE  OwnersInv'
  <1>1. req' \in [Req -> Handler] /\ \A s \in Req : req'[s] = IF s = r THEN g ELSE req[s]
    BY DEF OwnersInv, HandlersInv, VaultTypeOK, Goto
  <1>2. \A s \in Req : Found(req'[s]) \cap cs = {}
    BY <1>1, PendingMakes DEF OwnersInv, Fresh
  <1>3. Fresh'
    <2>1. ASSUME NEW c \in Cipher, cipher'[c] # None PROVE c \in drawn'
      BY <2>1 DEF Keeps, OwnersInv, Fresh
    <2>2. ASSUME NEW s \in Req PROVE Found(req'[s]) \subseteq drawn'
      BY <1>1 DEF OwnersInv, Fresh
    <2>3. ASSUME NEW s \in Req, NEW c \in Cipher, c \in Pending(req'[s])
          PROVE  cipher'[c] = None /\ \A t \in Req : c \notin Found(req'[t])
      <3>1. c \notin cs /\ cipher[c] = None /\ \A t \in Req : c \notin Found(req[t])
        <4>1. CASE s = r
          BY <1>1, <2>3, <4>1
        <4>2. CASE s # r
          <5>1. Makes(req[s]) \cap Makes(req[r]) = {} /\ c \in Pending(req[s])
            BY <1>1, <2>3, <4>2 DEF OwnersInv, Fresh
          <5> QED
            BY <5>1, PendingMakes DEF OwnersInv, Fresh
        <4> QED
          BY <4>1, <4>2
      <3>3. cipher'[c] = None
        BY <3>1 DEF Keeps
      <3>4. \A t \in Req : c \notin Found(req'[t])
        BY <1>1, <3>1
      <3> QED
        BY <3>3, <3>4
    <2>4. ASSUME NEW s \in Req, NEW t \in Req, s # t PROVE Makes(req'[s]) \cap Makes(req'[t]) = {}
      BY <1>1, <2>4 DEF OwnersInv, Fresh
    <2> QED
      BY <2>1, <2>2, <2>3, <2>4 DEF Fresh
  <1>4. AllVouched'
    <2>1. ASSUME NEW s \in Req PROVE Vouched(req[s])'
      <3>1. PICK h \in Handler : h = req'[s]
        BY <1>1
      <3>2. Vouched(h)
        BY <1>1, <3>1 DEF OwnersInv, AllVouched
      <3>3. Vouched(h)'
        BY <1>2, <3>1, <3>2, VouchedKept DEF OwnersInv, HandlersInv
      <3> QED
        BY <3>1, <3>3 DEF Vouched, Found, Fetched, Own
    <2> QED
      BY <2>1 DEF AllVouched
  <1> QED
    BY <1>3, <1>4 DEF OwnersInv

\* A step that files nothing, after which the handler holds g.
LEMMA OwnersShrinks ==
    ASSUME OwnersInv, HandlersInv', Reverting, NEW r \in Req, NEW g \in Handler, Goto(r, g), Shrinks,
           drawn \subseteq drawn', Pending(g) \subseteq Pending(req[r]), Makes(g) \subseteq Makes(req[r]),
           \A c \in Found(g) : c \in Found(req[r]) \/ (c \in Cipher /\ cipher[c] # None),
           Vouched(g)
    PROVE  OwnersInv'
  <1>1. FolderOfCreator' /\ Keeps({})
    BY ShrinksKeeps DEF OwnersInv
  <1>2. \A c \in Pending(g) : c \in Cipher \ {} /\ cipher[c] = None /\ \A s \in Req : c \notin Found(req[s])
    BY PendingMakes DEF OwnersInv, Fresh
  <1>3. \A s \in Req \ {r} : Makes(g) \cap Makes(req[s]) = {}
    BY DEF OwnersInv, Fresh
  <1>4. {} \subseteq Pending(req[r]) /\ drawn \cup {} \subseteq drawn'
    OBVIOUS
  <1> QED
    BY <1>1, <1>2, <1>3, <1>4, OwnersStep

LEMMA OwnersIdle ==
    ASSUME OwnersInv, HandlersInv', Reverting, NEW r \in Req, Goto(r, Idle), Shrinks, drawn \subseteq drawn'
    PROVE  OwnersInv'
  <1>1. Pending(Idle) = {} /\ Makes(Idle) = {} /\ Found(Idle) = {}
    BY DEF Idle, Pending, Makes, Found
  <1>2. Vouched(Idle)
    BY <1>1 DEF Vouched
  <1> QED
    BY <1>1, <1>2, IdleSound, OwnersShrinks

\* The handler holds no more than before.
LEMMA OwnersLess ==
    ASSUME OwnersInv, HandlersInv', Reverting, NEW r \in Req, NEW g \in Handler, Goto(r, g), Shrinks,
           drawn \subseteq drawn', Holds(g, req[r]), g.c = req[r].c,
           Pending(g) \subseteq Pending(req[r]), Found(g) \subseteq Found(req[r]), Fetched(g) => Fetched(req[r])
    PROVE  OwnersInv'
  <1>1. Vouched(g)
    BY DEF OwnersInv, AllVouched, Vouched, Holds
  <1>2. Makes(g) \subseteq Makes(req[r])
    BY DEF Makes, Holds
  <1> QED
    BY <1>1, <1>2, OwnersShrinks

LEMMA OwnersTurn ==
    ASSUME OwnersInv, HandlersInv', Reverting, NEW r \in Req, NEW stage \in Stage, Proceed(r, stage) \/ Wrote(r, stage),
           Shrinks, drawn \subseteq drawn',
           req[r].route \in Making /\ stage \in ToInsert => req[r].stage \in ToInsert,
           req[r].route = "update" /\ stage \in {"vetAssignment", "vetManage", "vetFolder", "writeRow"}
             => req[r].stage \in {"vetAssignment", "vetManage", "vetFolder", "writeRow"}
    PROVE  OwnersInv'
  <1>1. VaultTypeOK
    BY DEF OwnersInv, HandlersInv
  <1>2. PICK g \in Handler : Goto(r, g) /\ g.stage = stage /\ Same(g, req[r])
    BY <1>1, Goes, Writes
  <1>3. /\ Pending(g) \subseteq Pending(req[r]) /\ Found(g) \subseteq Found(req[r])
        /\ Fetched(g) => Fetched(req[r])
    BY <1>2 DEF Pending, Found, Fetched, Same, Holds
  <1> QED
    BY <1>2, <1>3, OwnersLess DEF Same

LEMMA OwnersBegun ==
    ASSUME OwnersInv, HandlersInv', Reverting, NEW r \in Req, NEW g \in Handler, Goto(r, g), Begun(g), Shrinks,
           drawn \subseteq drawn'
    PROVE  OwnersInv'
  <1>1. FolderOfCreator' /\ Keeps({})
    BY ShrinksKeeps DEF OwnersInv
  <1>2. Found(g) = {}
    BY DEF Begun, Found
  <1>3. Vouched(g)
    BY <1>2 DEF Vouched
  <1>4. Pending(g) \subseteq Makes(g) /\ Makes(g) \subseteq Cipher
    BY DEF Begun, Pending, Makes, Handler
  <1>5. Makes(g) \cap drawn = {} /\ \A s \in Req : Makes(g) \cap Makes(req[s]) = {}
    BY DEF Begun, Makes, BeingMade, Making
  <1>6. \A c \in Pending(g) : c \in Cipher \ {} /\ cipher[c] = None /\ \A s \in Req : c \notin Found(req[s])
    BY <1>4, <1>5 DEF OwnersInv, Fresh
  <1>7. {} \subseteq Pending(req[r]) /\ drawn \cup {} \subseteq drawn'
    OBVIOUS
  <1> QED
    BY <1>1, <1>2, <1>3, <1>5, <1>6, <1>7, OwnersStep

\* A step of no handler.
LEMMA OwnersCron ==
    ASSUME OwnersInv, HandlersInv', Reverting, UNCHANGED req, Shrinks, drawn \subseteq drawn'
    PROVE  OwnersInv'
  <1>1. FolderOfCreator' /\ Keeps({}) /\ VaultTypeOK
    BY ShrinksKeeps DEF OwnersInv, HandlersInv
  <1>2. Fresh'
    BY <1>1 DEF OwnersInv, Fresh, Keeps
  <1>3. ASSUME NEW s \in Req PROVE Vouched(req[s])'
    <2>1. PICK h \in Handler : h = req[s]
      BY <1>1 DEF VaultTypeOK
    <2>2. Vouched(h)'
      BY <1>1, <2>1, VouchedKept DEF OwnersInv, AllVouched
    <2> QED
      BY <2>1, <2>2 DEF Vouched, Found, Fetched, Own
  <1> QED
    BY <1>1, <1>2, <1>3 DEF OwnersInv, AllVouched

LEMMA OwnersAccess ==
    ASSUME OwnersInv, HandlersInv', Reverting, NEW r \in Req, Access(r)
    PROVE  OwnersInv'
  <1> DEFINE h == req[r]
  <1>1. /\ HandlersInv /\ Query /\ ~At(r, "idle") /\ Shrinks /\ drawn \subseteq drawn'
        /\ cipher \in [Cipher -> Row \cup {None}] /\ At(r, "access")
    BY AccessDoes, ReadsShrink DEF OwnersInv, HandlersInv, VaultTypeOK, At, Query, tables
  <1>2. h \in Handler /\ Busy(h) /\ h.stage = "access" /\ h.route \in Changing /\ Vouched(h)
    BY <1>1, BusyHandler DEF At, Busy, Follows, OwnersInv, AllVouched
  <1>3. CASE GiveUp(r)
    BY <1>1, <1>3, Ends, OwnersIdle DEF HandlersInv
  <1>4. CASE ~GiveUp(r)
    <2>1. PICK g \in Handler, c \in req[r].todo :
                    /\ Goto(r, g) /\ Holds(g, req[r]) /\ g.todo = req[r].todo \ {c} /\ g.c = c
                    /\ CanEdit(g.user, c)
                    /\ g.route = "partial" /\ g.folder # None => ~cipher[c].org
                    /\ g.route \in {"update", "share"} => g.stage = "fetch"
      BY <1>1, <1>4, AccessDoes
    <2>2. c \in Cipher /\ cipher[c] # None /\ (~cipher[c].org => cipher[c].creator = g.user)
      BY <1>2, <2>1 DEF Handler, CanEdit, Reads
    <2>3. Found(g) \subseteq Found(h) \cup {c} /\ Pending(g) = {} /\ Makes(g) \subseteq Makes(h)
      BY <1>2, <2>1 DEF Found, Pending, Makes, Holds, Changing, InTurn, Marking, Making
    <2>4. Vouched(g)
      <3>1. ~Fetched(g)
        BY <2>1 DEF Fetched
      <3>2. ASSUME NEW d \in Found(h)
            PROVE  /\ g.route = "update" => Own(g.user, d) \/ cipher[d].org
                   /\ g.route = "partial" /\ g.folder # None => Own(g.user, d)
        BY <1>2, <2>1 DEF Vouched, Holds
      <3>3. /\ g.route = "update" => Own(g.user, c) \/ cipher[c].org
            /\ g.route = "partial" /\ g.folder # None => Own(g.user, c)
        BY <2>1, <2>2 DEF Own
      <3> QED
        BY <2>3, <3>1, <3>2, <3>3 DEF Vouched
    <2> QED
      BY <1>1, <2>1, <2>2, <2>3, <2>4, OwnersShrinks
  <1> QED
    BY <1>3, <1>4

LEMMA OwnersFetch ==
    ASSUME OwnersInv, HandlersInv', Reverting, NEW r \in Req, Fetch(r)
    PROVE  OwnersInv'
  <1> DEFINE h == req[r]
  <1>1. /\ HandlersInv /\ Query /\ ~At(r, "idle") /\ Shrinks /\ drawn \subseteq drawn' /\ At(r, "fetch")
    BY FetchDoes, ReadsShrink DEF OwnersInv, At, Query, tables
  <1>2. h \in Handler /\ Busy(h) /\ h.stage = "fetch" /\ h.route \in {"update", "share"} /\ Vouched(h)
    BY <1>1, BusyHandler DEF At, Busy, Follows, OwnersInv, AllVouched
  <1>3. CASE GiveUp(r)
    BY <1>1, <1>3, Ends, OwnersIdle DEF HandlersInv
  <1>4. CASE ~GiveUp(r)
    <2>1. PICK g \in Handler :
                    /\ Goto(r, g) /\ Holds(g, req[r]) /\ g.todo = req[r].todo /\ g.c = req[r].c
                    /\ g.route = "update" /\ cipher[g.c].org => g.folder = None
      BY <1>1, <1>4, FetchDoes
    <2>2. Found(g) = Found(h) /\ Pending(g) = {} /\ Makes(g) \subseteq Makes(h)
      BY <1>2, <2>1 DEF Found, Pending, Makes, Holds, Making
    <2>3. Vouched(g)
      BY <1>2, <2>1, <2>2 DEF Vouched, Fetched, Holds
    <2> QED
      BY <1>1, <2>1, <2>2, <2>3, OwnersShrinks
  <1> QED
    BY <1>3, <1>4

LEMMA OwnersVet ==
    ASSUME OwnersInv, HandlersInv', Reverting, NEW r \in Req,
           VetBulk(r) \/ VetAssignment(r) \/ VetManage(r) \/ VetFolder(r)
    PROVE  OwnersInv'
  <1>1. HandlersInv /\ Query /\ Shrinks /\ drawn \subseteq drawn' /\ ~At(r, "idle")
    BY ReadsShrink DEF OwnersInv, VetBulk, VetAssignment, VetManage, VetFolder, Query, tables, At
  <1>2. CASE GiveUp(r)
    BY <1>1, <1>2, Ends, OwnersIdle DEF HandlersInv
  <1>3. CASE ~GiveUp(r)
    <2>1. CASE VetBulk(r)
      <3>1. req[r].route = "bulkCollections" /\ Proceed(r, "vetManage") /\ "vetManage" \in Stage
        BY <1>1, <1>3, <2>1, BusyHandler DEF VetBulk, Go, At, Busy, Follows, Stage
      <3> QED
        BY <1>1, <3>1, OwnersTurn DEF Making
    <2>2. CASE VetAssignment(r)
      <3>1. PICK stage \in Stage : Go(r, stage) /\ req[r].stage = "vetAssignment"
        BY <1>1, <1>3, <2>2, VetAssignmentDoes DEF At
      <3> QED
        BY <1>1, <3>1, OwnersTurn DEF Go, ToInsert
    <2>3. CASE VetManage(r)
      <3>1. PICK stage \in Stage : Go(r, stage) /\ req[r].stage = "vetManage" /\ req[r].route \in InTurn
        BY <1>1, <1>3, <2>3, VetManageDoes DEF At
      <3> QED
        BY <1>1, <3>1, OwnersTurn DEF Go, InTurn, Making
    <2>4. CASE VetFolder(r)
      <3>1. PICK stage \in Stage : Go(r, stage) /\ req[r].stage = "vetFolder"
        BY <1>1, <1>3, <2>4, VetFolderDoes DEF At
      <3> QED
        BY <1>1, <3>1, OwnersTurn DEF Go, ToInsert
    <2> QED
      BY <2>1, <2>2, <2>3, <2>4
  <1> QED
    BY <1>2, <1>3

LEMMA OwnersInsertFolder ==
    ASSUME OwnersInv, HandlersInv', Reverting, NEW r \in Req, InsertFolder(r)
    PROVE  OwnersInv'
  <1>1. /\ HandlersInv /\ UNCHANGED cipher /\ folder \subseteq folder' /\ drawn \subseteq drawn'
        /\ req[r].stage = "insertFolder" /\ (GiveUp(r) \/ Wrote(r, "vetAssignment"))
    BY DEF OwnersInv, InsertFolder, At
  <1>2. Shrinks
    BY <1>1, ReadsShrink DEF OwnersInv
  <1>3. req[r].route = "import"
    BY <1>1, BusyHandler DEF Busy, Follows, At
  <1>4. CASE GiveUp(r)
    BY <1>1, <1>2, <1>4, Ends, OwnersIdle DEF HandlersInv
  <1>5. CASE Wrote(r, "vetAssignment")
    <2>1. "vetAssignment" \in Stage
      BY DEF Stage
    <2> QED
      BY <1>1, <1>2, <1>3, <1>5, <2>1, OwnersTurn DEF ToInsert
  <1> QED
    BY <1>1, <1>4, <1>5

LEMMA OwnersInsert ==
    ASSUME OwnersInv, HandlersInv', Reverting, NEW r \in Req, Insert(r)
    PROVE  OwnersInv'
  <1> DEFINE h == req[r]
  <1>1. /\ HandlersInv /\ ~At(r, "idle") /\ drawn' = drawn \cup h.ids /\ At(r, "insert")
        /\ cipher \in [Cipher -> Row \cup {None}]
    BY InsertDoes DEF OwnersInv, HandlersInv, VaultTypeOK, At
  <1>2. h \in Handler /\ Busy(h) /\ h.stage = "insert" /\ h.route \in Making
    BY <1>1, BusyHandler DEF At, Busy, Follows
  <1>3. PICK cs \in SUBSET h.todo :
                 /\ cs # {} /\ OnlyCiphers(cs) /\ UNCHANGED placed
                 /\ \/ GiveUp(r) /\ UNCHANGED cipher
                    \/ /\ req[r].user \in account /\ (req[r].folder = None \/ req[r].folder \in folder)
                       /\ cipher' = [c \in Cipher |-> IF c \in cs
                             THEN [creator |-> h.user, org |-> h.org, folder |-> h.folder,
                                   trash |-> "no"] ELSE cipher[c]]
                       /\ UNCHANGED excused
                       /\ \E g \in Handler :
                             /\ Goto(r, g) /\ Holds(g, h) /\ g.c = h.c /\ g.org = h.org
                             /\ g.cols = h.cols /\ g.scopes = h.scopes /\ g.wrote = TRUE
                             /\ \/ g.todo = h.todo \ cs /\ g.stage = "insert"
                                \/ cs = h.todo /\ g.todo = h.ids /\ g.stage = "place"
    BY <1>1, InsertDoes
  <1>4. UNCHANGED folder
    BY <1>3 DEF OnlyCiphers
  <1>5. CASE GiveUp(r) /\ UNCHANGED cipher
    BY <1>1, <1>4, <1>5, Ends, ReadsShrink, OwnersIdle DEF OwnersInv, HandlersInv
  <1>6. CASE ~(GiveUp(r) /\ UNCHANGED cipher)
    <2>1. /\ h.folder = None \/ h.folder \in folder
          /\ cipher' = [c \in Cipher |-> IF c \in cs
                 THEN [creator |-> h.user, org |-> h.org, folder |-> h.folder, trash |-> "no"] ELSE cipher[c]]
      BY <1>3, <1>6
    <2>2. PICK g \in Handler :
                             /\ Goto(r, g) /\ Holds(g, h)
                             /\ \/ g.todo = h.todo \ cs /\ g.stage = "insert"
                                \/ cs = h.todo /\ g.todo = h.ids /\ g.stage = "place"
      BY <1>3, <1>6
    <2>3. FolderOfCreator'
      <3>1. h.folder # None => FolderOwner[h.folder] = h.user
        BY <1>2 DEF Busy, FolderVetted
      <3>2. \A c \in reverted : c \in reverted'
        BY DEF Reverting
      <3>3. ASSUME NEW c \in cs
            PROVE  cipher'[c].folder # None => cipher'[c].folder \in folder' /\ FolderOwner[cipher'[c].folder] = cipher'[c].creator
        <4>1. cipher'[c].folder = h.folder /\ cipher'[c].creator = h.user
          BY <1>2, <2>1 DEF Handler
        <4> QED
          BY <1>4, <2>1, <3>1, <4>1
      <3>4. \A c \in Cipher \ cs : cipher'[c] = cipher[c]
        BY <2>1
      <3> QED
        BY <1>4, <3>2, <3>3, <3>4 DEF OwnersInv, FolderOfCreator
    <2>4. Keeps(cs)
      BY <2>1 DEF Keeps
    <2>5. Pending(h) = h.todo /\ cs \subseteq Pending(h) /\ h.todo \subseteq h.ids
      BY <1>2 DEF Pending, ToInsert, Busy
    <2>6. Pending(g) \subseteq Pending(h) \ cs /\ Makes(g) = Makes(h) /\ Found(g) = {}
      BY <1>2, <2>2, <2>5 DEF Pending, ToInsert, Makes, Found, Holds, Making, Changing, InTurn, Marking
    <2>7. \A c \in Pending(g) : c \in Cipher \ cs /\ cipher[c] = None /\ \A s \in Req : c \notin Found(req[s])
      BY <2>6, PendingMakes DEF OwnersInv, Fresh
    <2>8. \A s \in Req \ {r} : Makes(g) \cap Makes(req[s]) = {}
      BY <2>6 DEF OwnersInv, Fresh
    <2>9. Vouched(g)
      BY <2>6 DEF Vouched
    <2>10. drawn \cup cs \subseteq drawn'
      BY <1>1, <2>5
    <2> QED
      BY <2>2, <2>3, <2>4, <2>5, <2>6, <2>7, <2>8, <2>9, <2>10, OwnersStep
  <1> QED
    BY <1>5, <1>6

LEMMA OwnersPlace ==
    ASSUME OwnersInv, HandlersInv', Reverting, NEW r \in Req, Place(r)
    PROVE  OwnersInv'
  <1> DEFINE h == req[r]
  <1>1. /\ HandlersInv /\ ~At(r, "idle") /\ UNCHANGED <<cipher, drawn, folder>> /\ At(r, "place")
    BY PlaceDoes DEF OwnersInv, At, OnlyCiphers
  <1>2. h \in Handler /\ Busy(h) /\ h.stage = "place" /\ h.route \in Making \cup InTurn /\ Shrinks
    BY <1>1, BusyHandler, ReadsShrink DEF At, Busy, Follows, OwnersInv
  <1>3. CASE GiveUp(r)
    BY <1>1, <1>2, <1>3, Ends, OwnersIdle DEF HandlersInv
  <1>4. CASE ~GiveUp(r)
    <2>1. PICK g \in Handler, c \in Cipher :
                    /\ c \in IF g.route \in Making THEN req[r].todo ELSE {g.c}
                    /\ Goto(r, g) /\ Holds(g, req[r]) /\ g.todo = req[r].todo \ {c} /\ g.c = req[r].c
                    /\ g.stage \in {"place", "touch", "bump"}
      BY <1>1, <1>4, PlaceDoes
    <2>2. Pending(g) = {} /\ ~Fetched(g)
      BY <2>1 DEF Pending, Fetched, ToInsert
    <2>3. Found(g) \subseteq Found(h)
      <3>1. h.route \in InTurn => h.c \notin h.todo /\ h.route \notin Making
        BY <1>2 DEF Busy, Reached, InTurn, Making
      <3>2. h.route \in Making => h.route \notin Changing
        BY DEF Making, Changing, InTurn, Marking
      <3> QED
        BY <1>2, <2>1, <3>1, <3>2 DEF Found, Holds
    <2> QED
      BY <1>1, <1>2, <2>1, <2>2, <2>3, OwnersLess
  <1> QED
    BY <1>3, <1>4

LEMMA OwnersWriteRow ==
    ASSUME OwnersInv, HandlersInv', Reverting, NEW r \in Req, WriteRow(r)
    PROVE  OwnersInv'
  <1> DEFINE h == req[r]
  <1>1. /\ HandlersInv /\ ~At(r, "idle") /\ UNCHANGED <<drawn, folder>> /\ At(r, "writeRow")
        /\ cipher \in [Cipher -> Row \cup {None}]
    BY WriteRowDoes DEF OwnersInv, HandlersInv, VaultTypeOK, At, OnlyCiphers
  <1>2. /\ h \in Handler /\ Busy(h) /\ h.stage = "writeRow" /\ h.route \in {"update", "share"} /\ Vouched(h)
        /\ h.c \in Found(h)
    BY <1>1, BusyHandler DEF At, Busy, Follows, OwnersInv, AllVouched, Reached, InTurn, Found, Changing
  <1>3. CASE GiveUp(r) /\ UNCHANGED cipher
    BY <1>1, <1>3, Ends, ReadsShrink, OwnersIdle DEF OwnersInv, HandlersInv
  <1>4. CASE ~(GiveUp(r) /\ UNCHANGED cipher)
    <2>1. PICK g \in Handler :
                    /\ g.c \in Cipher
                    /\ cipher[g.c] = None \/ g.folder = None \/ g.folder \in folder
                    /\ cipher' = [cipher EXCEPT ![g.c] = IF cipher[g.c] = None THEN None
                                     ELSE [cipher[g.c] EXCEPT !.org = g.org, !.folder = g.folder]]
                    /\ Goto(r, g) /\ Holds(g, req[r]) /\ g.todo = req[r].todo /\ g.c = req[r].c
                    /\ g.stage = IF g.ask = None THEN "touch" ELSE "place"
      BY <1>1, <1>4, WriteRowDoes
    <2>2. \A d \in Cipher \ {g.c} : cipher'[d] = cipher[d]
      BY <1>1, <2>1
    <2>3. /\ cipher'[g.c] # None => cipher[g.c] # None
          /\ cipher[g.c] # None => cipher'[g.c].creator = cipher[g.c].creator /\ cipher'[g.c].folder = g.folder
      <3>1. CASE cipher[g.c] = None
        BY <1>1, <2>1, <3>1
      <3>2. CASE cipher[g.c] # None
        <4>1. PICK row \in Row : row = cipher[g.c]
          BY <1>1, <2>1, <3>2
        <4>2. cipher'[g.c] = [row EXCEPT !.org = g.org, !.folder = g.folder]
          BY <1>1, <2>1, <3>2, <4>1
        <4>3. /\ [row EXCEPT !.org = g.org, !.folder = g.folder].creator = row.creator
              /\ [row EXCEPT !.org = g.org, !.folder = g.folder].folder = g.folder
          BY DEF Row
        <4> QED
          BY <3>2, <4>1, <4>2, <4>3
      <3> QED
        BY <3>1, <3>2
    <2>4. Keeps({})
      BY <2>2, <2>3 DEF Keeps
    <2>5. g.folder # None => FolderOwner[g.folder] = g.user /\ Own(g.user, g.c)
      BY <1>2, <2>1 DEF Busy, FolderVetted, Vouched, Fetched, Holds
    <2>6. FolderOfCreator'
      <3>1. \A c \in reverted : c \in reverted'
        BY DEF Reverting
      <3>2. cipher'[g.c] # None /\ cipher'[g.c].folder # None =>
              /\ cipher'[g.c].folder \in folder'
              /\ g.c \in reverted' \/ FolderOwner[cipher'[g.c].folder] = cipher'[g.c].creator
        BY <1>1, <2>1, <2>3, <2>5, <3>1 DEF Own
      <3> QED
        BY <1>1, <2>2, <3>1, <3>2 DEF OwnersInv, FolderOfCreator
    <2>7. Pending(g) = {} /\ Makes(g) = Makes(h) /\ Found(g) = Found(h) /\ ~Fetched(g)
      BY <2>1 DEF Pending, ToInsert, Makes, Found, Fetched, Holds
    <2>8. Vouched(g)
      BY <1>2, <2>1, <2>7 DEF Vouched, Holds
    <2>9. \A s \in Req \ {r} : Makes(g) \cap Makes(req[s]) = {}
      BY <2>7 DEF OwnersInv, Fresh
    <2>10. {} \subseteq Pending(req[r]) /\ drawn \cup {} \subseteq drawn'
      BY <1>1
    <2> QED
      BY <2>1, <2>4, <2>6, <2>7, <2>8, <2>9, <2>10, OwnersStep
  <1> QED
    BY <1>3, <1>4

LEMMA MarkedFields ==
    ASSUME NEW row \in Row, NEW h \in Handler
    PROVE  /\ Marked(row, h).creator = row.creator
           /\ Marked(row, h).folder = IF h.route \in {"softDelete", "restore", "archive", "unarchive"} THEN row.folder ELSE h.folder
  <1>1. /\ [row EXCEPT !.trash = "trash"].creator = row.creator /\ [row EXCEPT !.trash = "trash"].folder = row.folder
        /\ [row EXCEPT !.trash = "no"].creator = row.creator /\ [row EXCEPT !.trash = "no"].folder = row.folder
        /\ [row EXCEPT !.folder = h.folder].creator = row.creator /\ [row EXCEPT !.folder = h.folder].folder = h.folder
    BY DEF Row
  <1> QED
    BY <1>1 DEF Marked

LEMMA OwnersWrite ==
    ASSUME OwnersInv, HandlersInv', Reverting, NEW r \in Req, Write(r)
    PROVE  OwnersInv'
  <1> DEFINE h == req[r]
             cs == {c \in h.ids : cipher[c] # None /\ (h.route = "move" => cipher[c].creator = h.user)}
  <1>1. /\ HandlersInv /\ ~At(r, "idle") /\ UNCHANGED <<drawn, folder>> /\ At(r, "write")
        /\ cipher \in [Cipher -> Row \cup {None}]
    BY DEF OwnersInv, HandlersInv, VaultTypeOK, At, Write, OnlyCiphers
  <1>2. /\ h \in Handler /\ Busy(h) /\ h.stage = "write" /\ h.route \in Marking /\ Vouched(h)
        /\ h.ids \subseteq Found(h)
    BY <1>1, BusyHandler DEF At, Busy, Follows, OwnersInv, AllVouched, Through, Marking, Found, Changing
  <1>3. CASE GiveUp(r) /\ UNCHANGED cipher
    BY <1>1, <1>3, Ends, ReadsShrink, OwnersIdle DEF OwnersInv, HandlersInv
  <1>4. CASE ~(GiveUp(r) /\ UNCHANGED cipher)
    <2>1. /\ ~(cs # {} /\ h.folder # None /\ h.folder \notin folder)
          /\ cipher' = [c \in Cipher |-> IF c \in cs THEN Marked(cipher[c], h) ELSE cipher[c]]
          /\ \E next \in {"touch", "refetch"} : Wrote(r, next)
      BY <1>4 DEF Write
    <2>2. PICK g \in Handler : Goto(r, g) /\ g.stage \in {"touch", "refetch"} /\ Same(g, req[r])
      <3>1. PICK next \in {"touch", "refetch"} : Wrote(r, next)
        BY <2>1
      <3>2. next \in Stage /\ VaultTypeOK
        BY <1>1 DEF Stage, HandlersInv
      <3> QED
        BY <3>1, <3>2, Writes
    <2>3. ASSUME NEW c \in cs
          PROVE  /\ c \in h.ids /\ cipher[c] # None /\ (h.route = "move" => cipher[c].creator = h.user)
                 /\ cipher'[c] = Marked(cipher[c], h) /\ cipher'[c].creator = cipher[c].creator
                 /\ cipher'[c].folder = IF h.route \in {"softDelete", "restore", "archive", "unarchive"}
                                        THEN cipher[c].folder ELSE h.folder
      <3>1. c \in Cipher /\ cipher[c] \in Row
        BY <1>1, <1>2 DEF Handler
      <3>2. cipher'[c] = Marked(cipher[c], h)
        BY <2>1, <3>1
      <3> QED
        BY <1>2, <3>1, <3>2, MarkedFields
    <2>4. h.folder # None => FolderOwner[h.folder] = h.user /\ (h.route = "partial" => \A c \in h.ids : Own(h.user, c))
      BY <1>2 DEF Busy, FolderVetted, Vouched
    <2>5. /\ cs # {} => h.folder = None \/ h.folder \in folder
          /\ \A c \in Cipher \ cs : cipher'[c] = cipher[c]
      BY <2>1
    <2> HIDE DEF cs
    <2>6. Keeps({})
      BY <2>3, <2>5 DEF Keeps
    <2>7. FolderOfCreator'
      <3>1. \A c \in reverted : c \in reverted'
        BY DEF Reverting
      <3>2. ASSUME NEW c \in cs, cipher'[c].folder # None
            PROVE  cipher'[c].folder \in folder /\ (c \in reverted \/ FolderOwner[cipher'[c].folder] = cipher[c].creator)
        <4>1. CASE h.route \in {"softDelete", "restore", "archive", "unarchive"}
          <5>1. c \in Cipher
            BY <1>2, <2>3 DEF Handler
          <5> QED
            BY <2>3, <3>2, <4>1, <5>1 DEF OwnersInv, FolderOfCreator
        <4>2. CASE h.route \in {"partial", "move"}
          BY <2>3, <2>4, <2>5, <3>2, <4>2 DEF Own
        <4> QED
          BY <1>2, <4>1, <4>2 DEF Marking
      <3> QED
        BY <1>1, <2>3, <2>5, <3>1, <3>2 DEF OwnersInv, FolderOfCreator
    <2>8. Pending(g) = {} /\ Makes(g) = Makes(h) /\ Found(g) = Found(h) /\ ~Fetched(g)
      BY <2>2 DEF Pending, ToInsert, Makes, Found, Fetched, Same, Holds
    <2>9. Vouched(g)
      BY <1>2, <2>2, <2>8 DEF Vouched, Same, Holds
    <2>10. \A s \in Req \ {r} : Makes(g) \cap Makes(req[s]) = {}
      BY <2>8 DEF OwnersInv, Fresh
    <2>11. {} \subseteq Pending(req[r]) /\ drawn \cup {} \subseteq drawn'
      BY <1>1
    <2> QED
      BY <2>2, <2>6, <2>7, <2>8, <2>9, <2>10, <2>11, OwnersStep
  <1> QED
    BY <1>3, <1>4

\* The writes that delete.
LEMMA DeletesShrink ==
    ASSUME OwnersInv, NEW cs, WithoutCiphers(cs), UNCHANGED folder
    PROVE  Shrinks
  BY DEF OwnersInv, FolderOfCreator, WithoutCiphers, Shrinks

LEMMA UnfiledShrinks ==
    ASSUME OwnersInv, NEW fs, folder' = folder \ fs,
           \A c \in Cipher : cipher'[c] = None \/ cipher'[c] = Unfiled(c, fs)
    PROVE  Shrinks
  <1> SUFFICES ASSUME NEW c \in Cipher, cipher'[c] # None
               PROVE  /\ cipher[c] # None /\ cipher'[c].creator = cipher[c].creator
                      /\ cipher'[c].folder # None => cipher'[c].folder = cipher[c].folder /\ cipher'[c].folder \in folder'
    BY DEF Shrinks
  <1>1. cipher'[c] = Unfiled(c, fs)
    OBVIOUS
  <1>2. CASE cipher[c] # None /\ cipher[c].folder \in fs
    <2>1. PICK row \in Row : row = cipher[c]
      BY <1>2 DEF OwnersInv, HandlersInv, VaultTypeOK
    <2>2. [row EXCEPT !.folder = None].creator = row.creator /\ [row EXCEPT !.folder = None].folder = None
      BY DEF Row
    <2> QED
      BY <1>1, <1>2, <2>1, <2>2 DEF Unfiled
  <1>3. CASE ~(cipher[c] # None /\ cipher[c].folder \in fs)
    BY <1>1, <1>3 DEF Unfiled, OwnersInv, FolderOfCreator
  <1> QED
    BY <1>2, <1>3

\* The steps on to a stage at which nothing more is inserted or filed.
LEMMA OwnersOn ==
    ASSUME OwnersInv, HandlersInv', Reverting, NEW r \in Req, NEW stage \in Stage, Proceed(r, stage) \/ Wrote(r, stage),
           stage \notin ToInsert, stage \notin {"vetManage", "writeRow"}, Shrinks, drawn \subseteq drawn'
    PROVE  OwnersInv'
  BY OwnersTurn DEF ToInsert

LEMMA OwnersBump ==
    ASSUME OwnersInv, HandlersInv', Reverting, NEW r \in Req, Bump(r) \/ Refetch(r) \/ DropPlaced(r)
    PROVE  OwnersInv'
  <1>1. /\ HandlersInv /\ UNCHANGED <<cipher, folder, drawn>>
        /\ GiveUp(r) \/ \E stage \in {"refetch", "access", "touch", "deleteRows"} : Proceed(r, stage) \/ Wrote(r, stage)
    BY DEF OwnersInv, Bump, Refetch, DropPlaced, Go, OnlyCiphers, Query, tables
  <1>2. Shrinks
    BY <1>1, ReadsShrink DEF OwnersInv
  <1>3. ASSUME NEW stage \in {"refetch", "access", "touch", "deleteRows"}, Proceed(r, stage) \/ Wrote(r, stage)
        PROVE  OwnersInv'
    <2>1. stage \in Stage /\ stage \notin ToInsert /\ stage \notin {"vetManage", "writeRow"}
      BY DEF Stage, ToInsert
    <2> QED
      BY <1>1, <1>2, <1>3, <2>1, OwnersOn
  <1> QED
    BY <1>1, <1>2, <1>3, Ends, OwnersIdle DEF HandlersInv

LEMMA OwnersDelete ==
    ASSUME OwnersInv, HandlersInv', Reverting, NEW r \in Req, DeleteRows(r) \/ DeletePersonal(r)
    PROVE  OwnersInv'
  <1>1. UNCHANGED <<folder, drawn>> /\ \E cs : WithoutCiphers(cs)
    BY DEF DeleteRows, DeletePersonal, OnlyCiphers
  <1>2. Shrinks
    BY <1>1, DeletesShrink
  <1>3. PICK stage \in {"touch", "dropFolders", "accountGrants"} : Proceed(r, stage) \/ Wrote(r, stage)
    BY DEF DeleteRows, DeletePersonal
  <1>4. stage \in Stage /\ stage \notin ToInsert /\ stage \notin {"vetManage", "writeRow"}
    BY DEF Stage, ToInsert
  <1> QED
    BY <1>1, <1>2, <1>3, <1>4, OwnersOn

LEMMA FoldersShrink ==
    ASSUME OwnersInv, NEW fs, WithoutFolders(fs)
    PROVE  Shrinks
  <1>1. folder' = folder \ fs /\ \A c \in Cipher : cipher'[c] = None \/ cipher'[c] = Unfiled(c, fs)
    BY DEF WithoutFolders
  <1> QED
    BY <1>1, UnfiledShrinks

LEMMA OwnersDropFolders ==
    ASSUME OwnersInv, HandlersInv', Reverting, NEW r \in Req, DropFolders(r)
    PROVE  OwnersInv'
  <1>1. Shrinks /\ UNCHANGED drawn
    BY FoldersShrink DEF DropFolders
  <1>2. PICK stage \in {"touch", "account"} : Proceed(r, stage)
    BY DEF DropFolders
  <1>3. stage \in Stage /\ stage \notin ToInsert /\ stage \notin {"vetManage", "writeRow"}
    BY DEF Stage, ToInsert
  <1> QED
    BY <1>1, <1>2, <1>3, OwnersOn

LEMMA OwnersDrop ==
    ASSUME OwnersInv, HandlersInv', Reverting, NEW r \in Req, DropUserGrants(r) \/ DropMember(r) \/ DeleteCollection(r)
    PROVE  OwnersInv'
  <1>1. UNCHANGED <<cipher, folder, drawn>>
    BY DEF DropUserGrants, DropMember, DeleteCollection
  <1>2. Shrinks
    BY <1>1, ReadsShrink DEF OwnersInv
  <1>3. PICK stage \in {"accountMember", "memberRow", "dropFolders", "touch", "colGrants", "colRow"} :
           Proceed(r, stage) \/ Wrote(r, stage)
    BY DEF DropUserGrants, DropMember, DeleteCollection
  <1>4. stage \in Stage /\ stage \notin ToInsert /\ stage \notin {"vetManage", "writeRow"}
    BY DEF Stage, ToInsert
  <1> QED
    BY <1>1, <1>2, <1>3, <1>4, OwnersOn

LEMMA OwnersDeleteUser ==
    ASSUME OwnersInv, HandlersInv', Reverting, NEW r \in Req, DeleteUser(r)
    PROVE  OwnersInv'
  <1>1. Goto(r, Idle) /\ UNCHANGED drawn
    BY DEF DeleteUser, Goto
  <1>2. \E fs : folder' = folder \ fs /\ \A c \in Cipher : cipher'[c] = None \/ cipher'[c] = Unfiled(c, fs)
    BY DEF DeleteUser
  <1>3. Shrinks
    BY <1>2, UnfiledShrinks
  <1> QED
    BY <1>1, <1>3, OwnersIdle

LEMMA OwnersTouch ==
    ASSUME OwnersInv, HandlersInv', Reverting, NEW r \in Req, Touch(r)
    PROVE  OwnersInv'
  <1>1. HandlersInv /\ UNCHANGED <<cipher, folder, drawn>>
    BY DEF OwnersInv, Touch, tables
  <1>2. Shrinks
    BY <1>1, ReadsShrink DEF OwnersInv
  <1>3. CASE Goto(r, Idle)
    BY <1>1, <1>2, <1>3, OwnersIdle
  <1>4. CASE ~Goto(r, Idle)
    <2>1. PICK g \in Handler :
                    /\ Goto(r, g) /\ Holds(g, req[r]) /\ g.todo = req[r].todo /\ g.c = req[r].c
                    /\ g.stage \in {"touch", "access"}
      BY <1>1, <1>4, TouchDoes
    <2>2. Pending(g) = {} /\ ~Fetched(g) /\ Found(g) = Found(req[r])
      BY <2>1 DEF Pending, Fetched, Found, ToInsert, Holds
    <2> QED
      BY <1>1, <1>2, <2>1, <2>2, OwnersLess
  <1> QED
    BY <1>3, <1>4

LEMMA OwnersCrash ==
    ASSUME OwnersInv, HandlersInv', Reverting, NEW r \in Req, Crash(r)
    PROVE  OwnersInv'
  <1>1. Leave(r, "crash") /\ UNCHANGED <<cipher, folder, drawn>> /\ VaultTypeOK
    BY DEF OwnersInv, HandlersInv, Crash, Query, tables
  <1>2. Shrinks
    BY <1>1, ReadsShrink DEF OwnersInv
  <1> QED
    BY <1>1, <1>2, Ends, OwnersIdle

LEMMA OwnersBegin ==
    ASSUME OwnersInv, HandlersInv', Reverting, NEW r \in Req, NEW u \in User, Begin(r, u)
    PROVE  OwnersInv'
  <1>1. HandlersInv
    BY DEF OwnersInv
  <1>2. Shrinks /\ drawn \subseteq drawn'
    <2>1. CASE Query
      BY <2>1, ReadsShrink DEF Query, tables, OwnersInv
    <2>2. CASE FolderRequest(r, u)
      <3>1. PICK f : StartCreateFolder(r, u, f) \/ StartDeleteFolder(r, u, f)
        BY <2>2 DEF FolderRequest
      <3>2. CASE StartCreateFolder(r, u, f)
        BY <3>2, ReadsShrink DEF StartCreateFolder, OwnersInv
      <3>3. CASE StartDeleteFolder(r, u, f)
        BY <3>3, FoldersShrink DEF StartDeleteFolder
      <3> QED
        BY <3>1, <3>2, <3>3
    <2> QED
      BY <1>1, <2>1, <2>2, BeginDoes
  <1> QED
    BY <1>1, <1>2, BeginDoes, OwnersBegun

LEMMA OwnersPurge ==
    ASSUME OwnersInv, HandlersInv', Reverting, Cron
    PROVE  OwnersInv'
  <1>1. UNCHANGED <<req, drawn, folder>>
    BY DEF Cron, CronFind, CronCount, CronDelete, CronTouch, TellCreators, Age, tables
  <1>2. CASE CronDelete
    <2>1. Shrinks
      BY <1>1, <1>2, DeletesShrink DEF CronDelete
    <2> QED
      BY <1>1, <2>1, OwnersCron
  <1>3. ASSUME NEW c \in Cipher, Age(c) PROVE OwnersInv'
    <2>1. cipher[c] # None /\ cipher' = [cipher EXCEPT ![c].trash = "old"] /\ cipher \in [Cipher -> Row \cup {None}]
      BY <1>3 DEF Age, OwnersInv, HandlersInv, VaultTypeOK
    <2>2. PICK row \in Row : row = cipher[c]
      BY <2>1
    <2>3. cipher'[c].creator = cipher[c].creator /\ cipher'[c].folder = cipher[c].folder
      <3>1. [row EXCEPT !.trash = "old"].creator = row.creator /\ [row EXCEPT !.trash = "old"].folder = row.folder
        BY DEF Row
      <3> QED
        BY <2>1, <2>2, <3>1
    <2>4. Shrinks
      BY <1>1, <2>1, <2>3 DEF Shrinks, OwnersInv, FolderOfCreator
    <2> QED
      BY <1>1, <2>4, OwnersCron
  <1>4. CASE UNCHANGED cipher
    BY <1>1, <1>4, ReadsShrink, OwnersCron DEF OwnersInv
  <1>5. CronDelete \/ (\E c \in Cipher : Age(c)) \/ UNCHANGED cipher
    BY DEF Cron, CronFind, CronCount, CronTouch, tables
  <1> QED
    BY <1>2, <1>3, <1>4, <1>5

LEMMA OwnersInit == VaultInit => OwnersInv
  <1> SUFFICES ASSUME VaultInit PROVE OwnersInv
    OBVIOUS
  <1>1. \A r \in Req : req[r] = Idle
    BY DEF VaultInit
  <1>2. Pending(Idle) = {} /\ Makes(Idle) = {} /\ Found(Idle) = {}
    BY DEF Idle, Pending, Makes, Found
  <1>3. Fresh
    BY <1>1, <1>2 DEF Fresh, VaultInit
  <1>4. AllVouched
    BY <1>1, <1>2 DEF AllVouched, Vouched
  <1>5. FolderOfCreator
    BY DEF VaultInit, FolderOfCreator
  <1> QED
    BY <1>3, <1>4, <1>5, HandlersInit DEF OwnersInv

LEMMA OwnersNext ==
    ASSUME OwnersInv, [VaultNext]_vaultVars
    PROVE  OwnersInv'
  <1>1. HandlersInv'
    BY HandlersNext DEF OwnersInv
  <1>2. CASE UNCHANGED vaultVars
    BY <1>1, <1>2
    DEF vaultVars, OwnersInv, Fresh, AllVouched, Vouched, Own, FolderOfCreator
  <1>3. CASE VaultNext
    <2>1. Reverting
      BY <1>3 DEF VaultNext
    <2>2. ASSUME NEW r \in Req, NEW u \in User, Begin(r, u) PROVE OwnersInv'
      BY <1>1, <2>1, <2>2, OwnersBegin
    <2>3. ASSUME NEW r \in Req, Continue(r) PROVE OwnersInv'
      BY <1>1, <2>1, <2>3, OwnersAccess, OwnersFetch, OwnersVet, OwnersInsertFolder, OwnersInsert, OwnersPlace,
         OwnersWriteRow, OwnersWrite, OwnersBump, OwnersDelete, OwnersDropFolders, OwnersDrop, OwnersDeleteUser,
         OwnersTouch, OwnersCrash
      DEF Continue
    <2>4. Cron => OwnersInv'
      BY <1>1, <2>1, OwnersPurge
    <2> QED
      BY <1>3, <2>2, <2>3, <2>4 DEF VaultNext
  <1> QED
    BY <1>2, <1>3

\* A cipher lies in a folder there is, and of the account that made it, unless an update
\* has made it personal again: with any number of handlers, whatever is deleted meanwhile.
THEOREM FoldersHold == VaultSpec => []FolderOfCreator
  <1>1. VaultSpec => []OwnersInv
    BY OwnersInit, OwnersNext, PTL DEF VaultSpec
  <1>2. OwnersInv => FolderOfCreator
    BY DEF OwnersInv
  <1> QED
    BY <1>1, <1>2, PTL

-----------------------------------------------------------------------------
\* Handlers one at a time

AtMostOne == \A r, s \in Req : ~At(r, "idle") /\ ~At(s, "idle") => r = s

\* The cipher is still whose the handler took it to be.
Has(c, org) == cipher[c] = None \/ (cipher[c].org <=> org)

\* What a handler has learned of the ciphers it writes holds until it has done.
Steady(h) ==
    /\ h.route \in Making => \A c \in h.ids : Has(c, h.org)
    /\ Fetched(h) => Has(h.c, h.org) /\ (h.org => h.folder = None)
    /\ h.route \in {"update", "share"} =>
          /\ h.stage = "place" => Has(h.c, h.org)
          /\ h.stage \in {"vetManage", "vetFolder", "writeRow", "place"} => h.org \/ h.cols = {}
    /\ h.route \in {"collections", "bulkCollections"} /\ Reached(h) => Has(h.c, TRUE)
    /\ h.route = "move" \/ (h.route = "partial" /\ h.folder # None) => \A c \in h.ids \ h.todo : Has(c, FALSE)

AllSteady == \A r \in Req : Steady(req[r])

AloneInv == OneAtATime => AtMostOne /\ AllSteady /\ OneOwner

\* A write that changes the owner of no cipher, files none and places none.
Tidy ==
    \A c \in Cipher : cipher'[c] # None =>
        /\ cipher[c] # None /\ cipher'[c].org = cipher[c].org
        /\ cipher'[c].folder # None => cipher[c].folder # None
        /\ ColsOf(c)' \subseteq ColsOf(c)

LEMMA TidyOwner == ASSUME OneAtATime, OneOwner, Tidy PROVE OneOwner'
  <1> SUFFICES ASSUME NEW c \in Cipher, cipher'[c] # None
               PROVE  IF cipher'[c].org THEN cipher'[c].folder = None ELSE ColsOf(c)' = {}
    BY DEF OneOwner
  <1>1. /\ cipher[c] # None /\ cipher'[c].org = cipher[c].org
        /\ cipher'[c].folder # None => cipher[c].folder # None
        /\ ColsOf(c)' \subseteq ColsOf(c)
    BY DEF Tidy
  <1>2. IF cipher[c].org THEN cipher[c].folder = None ELSE ColsOf(c) = {}
    BY <1>1 DEF OneOwner
  <1> QED
    BY <1>1, <1>2

LEMMA ReadsTidy == ASSUME UNCHANGED <<cipher, placed>> PROVE Tidy
  BY DEF Tidy, ColsOf

LEMMA SteadyIdle == Steady(Idle)
  BY DEF Steady, Idle, Fetched, Reached

\* What a handler has learned lasts when no row changes hands.
LEMMA SteadyKept ==
    ASSUME NEW h \in Handler, Sound(h), Steady(h),
           \A c \in Cipher : cipher'[c] # None => cipher[c] # None /\ cipher'[c].org = cipher[c].org
    PROVE  Steady(h)'
  <1>1. \A c \in Cipher, org \in BOOLEAN : Has(c, org) => Has(c, org)'
    BY DEF Has
  <1>2. h.ids \subseteq Cipher /\ h.org \in BOOLEAN
    BY DEF Handler
  <1>3. Fetched(h) \/ Reached(h) => h.c \in Cipher
    <2>1. Fetched(h) => Reached(h) /\ h.stage # "idle"
      BY DEF Fetched, Reached, InTurn
    <2>2. Reached(h) => h.stage # "idle"
      BY DEF Reached
    <2> QED
      BY <1>2, <2>1, <2>2 DEF Sound, Busy
  <1>4. h.route \in {"update", "share"} /\ h.stage = "place" => Reached(h)
    BY DEF Reached, InTurn
  <1> QED
    BY <1>1, <1>2, <1>3, <1>4 DEF Steady

\* A step of a handler with nothing else in flight.
LEMMA AloneStep ==
    ASSUME VaultTypeOK, load' = load, AllSound, AloneInv, NEW r \in Req, NEW g \in Handler, Goto(r, g),
           OneAtATime => (\A s \in Req \ {r} : At(s, "idle")) /\ Steady(g)' /\ OneOwner'
    PROVE  AloneInv'
  <1> SUFFICES ASSUME OneAtATime PROVE (AtMostOne /\ AllSteady /\ OneOwner)'
    BY DEF AloneInv, OneAtATime, Asked
  <1>1. req' \in [Req -> Handler] /\ \A s \in Req : req'[s] = IF s = r THEN g ELSE Idle
    BY DEF VaultTypeOK, Goto, AllSound, Sound, At
  <1>2. AtMostOne'
    BY <1>1, IdleSound DEF AtMostOne, At
  <1>3. Steady(Idle)'
    BY IdleSound, SteadyIdle, SteadyKept DEF Steady, Idle, Fetched, Reached
  <1>4. ASSUME NEW s \in Req PROVE Steady(req[s])'
    <2>1. PICK h \in Handler : h = req'[s] /\ (h = g \/ h = Idle)
      BY <1>1
    <2>2. Steady(h)'
      BY <1>3, <2>1
    <2> QED
      BY <2>1, <2>2 DEF Steady, Fetched, Reached, Has
  <1> QED
    BY <1>2, <1>4 DEF AllSteady

\* What the lemmas below are about: a step of r, and what is known of it already.
Stepping(r) == OwnersInv /\ OwnersInv' /\ AloneInv /\ load' = load /\ (OneAtATime => \A s \in Req \ {r} : At(s, "idle"))

LEMMA GoneOn ==
    ASSUME NEW r \in Req, Stepping(r), NEW g \in Handler, Goto(r, g)
    PROVE  Sound(g) /\ VaultTypeOK /\ AllSound /\ HandlersInv
  <1>1. req \in [Req -> Handler] /\ req'[r] = g
    BY DEF Stepping, OwnersInv, HandlersInv, VaultTypeOK, Goto
  <1> QED
    BY <1>1 DEF Stepping, OwnersInv, HandlersInv, AllSound

LEMMA AloneTidy ==
    ASSUME NEW r \in Req, Stepping(r), NEW g \in Handler, Goto(r, g), Tidy, OneAtATime => Steady(g)
    PROVE  AloneInv'
  <1>1. Sound(g) /\ VaultTypeOK /\ AllSound
    BY GoneOn
  <1>2. OneAtATime => Steady(g)'
    BY <1>1, SteadyKept DEF Tidy
  <1>3. OneAtATime => OneOwner'
    BY TidyOwner DEF Stepping, AloneInv
  <1> QED
    BY <1>1, <1>2, <1>3, AloneStep DEF Stepping

LEMMA AloneIdle ==
    ASSUME NEW r \in Req, Stepping(r), Goto(r, Idle), Tidy
    PROVE  AloneInv'
  BY IdleSound, SteadyIdle, AloneTidy

\* The stages at which a handler counts on what it has learned of one cipher.
Counting == {"fetch", "vetAssignment", "vetManage", "vetFolder", "writeRow", "place", "bump"}

LEMMA AloneOn ==
    ASSUME NEW r \in Req, Stepping(r), NEW g \in Handler, Goto(r, g), Holds(g, req[r]), g.todo = req[r].todo,
           g.org = req[r].org, g.stage \notin Counting, Tidy
    PROVE  AloneInv'
  <1>1. OneAtATime => Steady(req[r])
    BY DEF Stepping, AloneInv, AllSteady
  <1>2. ~Fetched(g) /\ ~Reached(g) /\ g.stage \notin {"vetManage", "vetFolder", "writeRow", "place"}
    BY DEF Fetched, Reached, Counting
  <1>3. OneAtATime => Steady(g)
    BY <1>1, <1>2 DEF Steady, Holds
  <1> QED
    BY <1>3, AloneTidy

LEMMA AloneTurn ==
    ASSUME NEW r \in Req, Stepping(r), NEW stage \in Stage, Proceed(r, stage) \/ Wrote(r, stage),
           stage \notin Counting, Tidy
    PROVE  AloneInv'
  <1>1. VaultTypeOK
    BY DEF Stepping, OwnersInv, HandlersInv
  <1>2. PICK g \in Handler : Goto(r, g) /\ g.stage = stage /\ Same(g, req[r])
    BY <1>1, Goes, Writes
  <1> QED
    BY <1>2, AloneOn DEF Same

LEMMA AloneAccess ==
    ASSUME NEW r \in Req, Stepping(r), Access(r)
    PROVE  AloneInv'
  <1> DEFINE h == req[r]
  <1>1. /\ HandlersInv /\ ~At(r, "idle") /\ Tidy /\ At(r, "access")
        /\ cipher \in [Cipher -> Row \cup {None}]
    BY AccessDoes, ReadsTidy DEF Stepping, OwnersInv, HandlersInv, VaultTypeOK, At, Query, tables
  <1>2. h \in Handler /\ Busy(h) /\ h.stage = "access" /\ h.route \in Changing /\ (OneAtATime => Steady(h))
    BY <1>1, BusyHandler DEF At, Busy, Follows, Stepping, AloneInv, AllSteady
  <1>3. CASE GiveUp(r)
    BY <1>1, <1>3, Ends, AloneIdle DEF HandlersInv
  <1>4. CASE ~GiveUp(r)
    <2>1. PICK g \in Handler, c \in req[r].todo :
                    /\ Goto(r, g) /\ Holds(g, req[r]) /\ g.org = req[r].org
                    /\ g.todo = req[r].todo \ {c} /\ g.c = c
                    /\ CanEdit(g.user, c)
                    /\ g.route = "move" => ~cipher[c].org
                    /\ g.route = "partial" /\ g.folder # None => ~cipher[c].org
                    /\ g.route \in {"collections", "bulkCollections"} => cipher[c].org
                    /\ g.route \in {"update", "share"} => g.stage = "fetch"
      BY <1>1, <1>4, AccessDoes
    <2>2. ASSUME OneAtATime PROVE Steady(g)
      <3>1. g.route \notin Making /\ ~Fetched(g)
            /\ (g.route \in {"update", "share"} => g.stage \notin {"vetManage", "vetFolder", "writeRow", "place"})
        BY <1>2, <2>1 DEF Holds, Changing, InTurn, Marking, Making, Fetched
      <3>2. g.route \in {"collections", "bulkCollections"} => Has(g.c, TRUE)
        BY <2>1 DEF Has
      <3>3. g.route = "move" \/ (g.route = "partial" /\ g.folder # None) => \A d \in g.ids \ g.todo : Has(d, FALSE)
        <4>1. g.route = "move" \/ (g.route = "partial" /\ g.folder # None) => Has(c, FALSE)
          BY <2>1 DEF Has
        <4> QED
          BY <1>2, <2>1, <2>2, <4>1 DEF Steady, Holds
      <3> QED
        BY <3>1, <3>2, <3>3 DEF Steady
    <2> QED
      BY <1>1, <2>1, <2>2, AloneTidy
  <1> QED
    BY <1>3, <1>4

LEMMA AloneFetch ==
    ASSUME NEW r \in Req, Stepping(r), Fetch(r)
    PROVE  AloneInv'
  <1> DEFINE h == req[r]
  <1>1. /\ HandlersInv /\ ~At(r, "idle") /\ Tidy /\ At(r, "fetch")
        /\ cipher \in [Cipher -> Row \cup {None}]
    BY FetchDoes, ReadsTidy DEF Stepping, OwnersInv, HandlersInv, VaultTypeOK, At, Query, tables
  <1>2. h \in Handler /\ Busy(h) /\ h.stage = "fetch" /\ h.route \in {"update", "share"}
    BY <1>1, BusyHandler DEF At, Busy, Follows
  <1>3. CASE GiveUp(r)
    BY <1>1, <1>3, Ends, AloneIdle DEF HandlersInv
  <1>4. CASE ~GiveUp(r)
    <2>1. PICK g \in Handler :
                    /\ Goto(r, g) /\ Holds(g, req[r]) /\ g.todo = req[r].todo /\ g.c = req[r].c
                    /\ g.c \in Cipher /\ cipher[g.c] # None
                    /\ g.org = (g.route = "share" \/ cipher[g.c].org)
                    /\ g.route = "update" /\ cipher[g.c].org => g.folder = None
                    /\ g.cols = IF g.ask = None THEN {} ELSE g.ask
                    /\ g.stage = IF g.ask # None THEN "vetAssignment"
                                 ELSE IF g.folder # None THEN "vetFolder" ELSE "writeRow"
      BY <1>1, <1>4, FetchDoes
    <2>2. g.route \in {"update", "share"} /\ g.route \notin Making
      BY <1>2, <2>1 DEF Holds, Making
    <2>3. Fetched(g) => Has(g.c, g.org) /\ (g.org => g.folder = None)
      BY <2>1 DEF Fetched, Has
    <2>4. /\ g.stage # "place"
          /\ g.stage \in {"vetManage", "vetFolder", "writeRow", "place"} => g.org \/ g.cols = {}
      BY <2>1
    <2>5. Steady(g)
      BY <2>2, <2>3, <2>4 DEF Steady
    <2> QED
      BY <1>1, <2>1, <2>5, AloneTidy
  <1> QED
    BY <1>3, <1>4

\* Vetting reads no cipher; who names collections has been found to write to the organization's.
LEMMA AloneVet ==
    ASSUME NEW r \in Req, Stepping(r), VetBulk(r) \/ VetAssignment(r) \/ VetManage(r) \/ VetFolder(r)
    PROVE  AloneInv'
  <1> DEFINE h == req[r]
  <1>1. HandlersInv /\ VaultTypeOK /\ Tidy /\ ~At(r, "idle")
    BY ReadsTidy DEF Stepping, OwnersInv, HandlersInv, VetBulk, VetAssignment, VetManage, VetFolder, Query, tables, At
  <1>2. h \in Handler /\ Busy(h) /\ (OneAtATime => Steady(h))
    BY <1>1, BusyHandler DEF Stepping, AloneInv, AllSteady
  <1>3. CASE GiveUp(r)
    BY <1>1, <1>3, Ends, AloneIdle
  <1>4. CASE ~GiveUp(r)
    <2>1. PICK stage \in Stage :
            /\ Proceed(r, stage)
            /\ \/ h.stage = "vetBulk" /\ h.route = "bulkCollections" /\ stage = "vetManage"
               \/ /\ h.stage = "vetAssignment" /\ (h.org \/ h.cols = {})
                  /\ h.route \in Making \cup InTurn
                  /\ h.route = "bulkCollections" => stage = "place"
                  /\ h.route = "collections" => stage = "vetManage"
                  /\ h.route \in {"update", "share"} => stage # "place"
               \/ /\ h.stage = "vetManage" /\ h.route \in InTurn
                  /\ h.route = "bulkCollections" => stage = "access"
                  /\ h.route \in {"update", "share"} => stage # "place"
               \/ h.stage = "vetFolder" /\ h.route \notin {"collections", "bulkCollections"} /\ stage # "place"
      <3>1. CASE VetBulk(r)
        BY <1>2, <1>4, <3>1 DEF VetBulk, Go, At, Busy, Follows, Stage
      <3>2. CASE VetAssignment(r)
        <4>1. /\ h.stage = "vetAssignment" /\ (h.org \/ h.cols = {}) /\ h.route \in Making \cup InTurn
              /\ h.route \in {"share", "collections", "bulkCollections"} => h.org
          BY <1>1, <1>2, <1>4, <3>2, VetAssignmentDoes DEF At, Busy
        <4>2. PICK stage \in Stage : Go(r, stage) /\
                      \/ req[r].org /\ req[r].route \in {"update", "share", "collections"} /\ stage = "vetManage"
                      \/ req[r].route \in {"create", "import"} /\ req[r].folder = None /\ stage = "insert"
                      \/ req[r].route = "import" /\ stage = "insert"
                      \/ /\ req[r].route \in {"create", "update"} /\ (req[r].route = "update" => ~req[r].org)
                         /\ req[r].folder # None /\ stage = "vetFolder"
                      \/ ~req[r].org /\ req[r].route = "update" /\ req[r].folder = None /\ stage = "writeRow"
                      \/ req[r].route = "bulkCollections" /\ stage = "place"
          BY <1>1, <1>4, <3>2, VetAssignmentDoes
        <4>3. /\ h.route = "bulkCollections" => stage = "place"
              /\ h.route = "collections" => stage = "vetManage"
              /\ h.route \in {"update", "share"} => stage # "place"
          BY <4>2
        <4> QED
          BY <4>1, <4>2, <4>3 DEF Go
      <3>3. CASE VetManage(r)
        <4>1. PICK stage \in Stage : Go(r, stage) /\
                      \/ req[r].route = "bulkCollections" /\ stage = "access"
                      \/ req[r].route = "collections" /\ stage = "place"
                      \/ req[r].route = "update" /\ req[r].folder # None /\ stage = "vetFolder"
                      \/ req[r].route \in {"update", "share"} /\ req[r].folder = None /\ stage = "writeRow"
          BY <1>1, <1>4, <3>3, VetManageDoes
        <4> QED
          BY <1>1, <3>3, <4>1, VetManageDoes DEF Go, At
      <3>4. CASE VetFolder(r)
        <4>1. PICK stage \in Stage : Go(r, stage) /\
                      \/ req[r].route = "create" /\ stage = "insert"
                      \/ req[r].route = "update" /\ stage = "writeRow"
                      \/ req[r].route \in {"partial", "move"} /\ stage = "write"
          BY <1>1, <1>4, <3>4, VetFolderDoes
        <4> QED
          BY <1>1, <3>4, <4>1, VetFolderDoes DEF Go, At
      <3> QED
        BY <3>1, <3>2, <3>3, <3>4
    <2>2. PICK g \in Handler : Goto(r, g) /\ g.stage = stage /\ Same(g, req[r])
      BY <1>1, <2>1, Goes
    <2>3. ASSUME OneAtATime PROVE Steady(g)
      <3>1. Fetched(g) => Fetched(h)
        BY <2>1, <2>2 DEF Fetched, Same, Holds
      <3>2. g.route \in {"collections", "bulkCollections"} /\ Reached(g) => Reached(h)
        BY <2>1, <2>2 DEF Reached, Same, Holds, InTurn
      <3>3. g.route \in {"update", "share"} => g.stage # "place" /\ (h.stage = "vetAssignment" => h.org \/ h.cols = {})
                                              /\ h.stage \in {"vetAssignment", "vetManage", "vetFolder"}
        BY <2>1, <2>2 DEF Same, Holds
      <3> QED
        BY <1>2, <2>2, <2>3, <3>1, <3>2, <3>3 DEF Steady, Same, Holds
    <2> QED
      BY <1>1, <2>2, <2>3, AloneTidy
  <1> QED
    BY <1>3, <1>4

\* The writes that delete.
LEMMA FewerPlaced == ASSUME placed' \subseteq placed PROVE \A c \in Cipher : ColsOf(c)' \subseteq ColsOf(c)
  BY DEF ColsOf

LEMMA DeletesTidy ==
    ASSUME NEW cs, WithoutCiphers(cs)
    PROVE  Tidy
  <1>1. placed' \subseteq placed /\ \A c \in Cipher : cipher'[c] = IF c \in cs THEN None ELSE cipher[c]
    BY DEF WithoutCiphers
  <1> QED
    BY <1>1, FewerPlaced DEF Tidy

LEMMA UnfiledTidy ==
    ASSUME VaultTypeOK, NEW fs, placed' \subseteq placed,
           \A c \in Cipher : cipher'[c] = None \/ cipher'[c] = Unfiled(c, fs)
    PROVE  Tidy
  <1> SUFFICES ASSUME NEW c \in Cipher, cipher'[c] # None
               PROVE  /\ cipher[c] # None /\ cipher'[c].org = cipher[c].org
                      /\ cipher'[c].folder # None => cipher[c].folder # None
    BY FewerPlaced DEF Tidy
  <1>1. cipher'[c] = Unfiled(c, fs)
    OBVIOUS
  <1>2. CASE cipher[c] # None /\ cipher[c].folder \in fs
    <2>1. PICK row \in Row : row = cipher[c]
      BY <1>2 DEF VaultTypeOK
    <2>2. [row EXCEPT !.folder = None].org = row.org /\ [row EXCEPT !.folder = None].folder = None
      BY DEF Row
    <2> QED
      BY <1>1, <1>2, <2>1, <2>2 DEF Unfiled
  <1>3. CASE ~(cipher[c] # None /\ cipher[c].folder \in fs)
    BY <1>1, <1>3 DEF Unfiled
  <1> QED
    BY <1>2, <1>3

LEMMA AloneBump ==
    ASSUME NEW r \in Req, Stepping(r), Bump(r) \/ Refetch(r) \/ DropPlaced(r)
    PROVE  AloneInv'
  <1>1. /\ VaultTypeOK /\ UNCHANGED cipher /\ placed' \subseteq placed
        /\ GiveUp(r) \/ \E stage \in {"refetch", "access", "touch", "deleteRows"} : Proceed(r, stage) \/ Wrote(r, stage)
    BY DEF Stepping, OwnersInv, HandlersInv, Bump, Refetch, DropPlaced, Go, Query, tables
  <1>2. Tidy
    BY <1>1, FewerPlaced DEF Tidy
  <1>3. ASSUME NEW stage \in {"refetch", "access", "touch", "deleteRows"}, Proceed(r, stage) \/ Wrote(r, stage)
        PROVE  AloneInv'
    <2>1. stage \in Stage /\ stage \notin Counting
      BY DEF Stage, Counting
    <2> QED
      BY <1>2, <1>3, <2>1, AloneTurn
  <1> QED
    BY <1>1, <1>2, <1>3, Ends, AloneIdle

LEMMA AloneDelete ==
    ASSUME NEW r \in Req, Stepping(r), DeleteRows(r) \/ DeletePersonal(r)
    PROVE  AloneInv'
  <1>1. \E cs : WithoutCiphers(cs)
    BY DEF DeleteRows, DeletePersonal
  <1>2. Tidy
    BY <1>1, DeletesTidy
  <1>3. PICK stage \in {"touch", "dropFolders", "accountGrants"} : Proceed(r, stage) \/ Wrote(r, stage)
    BY DEF DeleteRows, DeletePersonal
  <1>4. stage \in Stage /\ stage \notin Counting
    BY DEF Stage, Counting
  <1> QED
    BY <1>2, <1>3, <1>4, AloneTurn

LEMMA FoldersTidy ==
    ASSUME VaultTypeOK, NEW fs, WithoutFolders(fs), UNCHANGED placed
    PROVE  Tidy
  BY UnfiledTidy DEF WithoutFolders

LEMMA AloneDrop ==
    ASSUME NEW r \in Req, Stepping(r), DropFolders(r) \/ DropUserGrants(r) \/ DropMember(r) \/ DeleteCollection(r)
    PROVE  AloneInv'
  <1>1. VaultTypeOK
    BY DEF Stepping, OwnersInv, HandlersInv
  <1>2. CASE DropFolders(r)
    <2>1. Tidy
      BY <1>1, <1>2, FoldersTidy DEF DropFolders
    <2>2. PICK stage \in {"touch", "account"} : Proceed(r, stage)
      BY <1>2 DEF DropFolders
    <2>3. stage \in Stage /\ stage \notin Counting
      BY DEF Stage, Counting
    <2> QED
      BY <2>1, <2>2, <2>3, AloneTurn
  <1>3. CASE DropUserGrants(r) \/ DropMember(r) \/ DeleteCollection(r)
    <2>1. UNCHANGED cipher /\ placed' \subseteq placed
      BY <1>3 DEF DropUserGrants, DropMember, DeleteCollection
    <2>2. Tidy
      BY <2>1, FewerPlaced DEF Tidy
    <2>3. PICK stage \in {"accountMember", "memberRow", "dropFolders", "touch", "colGrants", "colRow"} :
                 Proceed(r, stage) \/ Wrote(r, stage)
      BY <1>3 DEF DropUserGrants, DropMember, DeleteCollection
    <2>4. stage \in Stage /\ stage \notin Counting
      BY DEF Stage, Counting
    <2> QED
      BY <2>2, <2>3, <2>4, AloneTurn
  <1> QED
    BY <1>2, <1>3

LEMMA AloneDeleteUser ==
    ASSUME NEW r \in Req, Stepping(r), DeleteUser(r)
    PROVE  AloneInv'
  <1>1. VaultTypeOK /\ Goto(r, Idle) /\ placed' \subseteq placed
    BY DEF Stepping, OwnersInv, HandlersInv, DeleteUser, Goto
  <1>2. \A c \in Cipher : cipher'[c] = None \/ cipher'[c] = Unfiled(c, {f \in folder : FolderOwner[f] = req[r].user})
    BY DEF DeleteUser
  <1>3. Tidy
    BY <1>1, <1>2, UnfiledTidy
  <1> QED
    BY <1>1, <1>3, AloneIdle

LEMMA AloneTouch ==
    ASSUME NEW r \in Req, Stepping(r), Touch(r)
    PROVE  AloneInv'
  <1>1. HandlersInv /\ Tidy
    BY ReadsTidy DEF Stepping, OwnersInv, Touch, tables
  <1>2. CASE Goto(r, Idle)
    BY <1>1, <1>2, AloneIdle
  <1>3. CASE ~Goto(r, Idle)
    <2>1. PICK g \in Handler :
                    /\ Goto(r, g) /\ Holds(g, req[r]) /\ g.todo = req[r].todo /\ g.org = req[r].org
                    /\ g.stage \in {"touch", "access"}
      BY <1>1, <1>3, TouchDoes
    <2>2. g.stage \notin Counting
      BY <2>1 DEF Counting
    <2> QED
      BY <1>1, <2>1, <2>2, AloneOn
  <1> QED
    BY <1>2, <1>3

LEMMA AloneCrash ==
    ASSUME NEW r \in Req, Stepping(r), Crash(r)
    PROVE  AloneInv'
  <1>1. VaultTypeOK /\ Leave(r, "crash") /\ Tidy
    BY ReadsTidy DEF Stepping, OwnersInv, HandlersInv, Crash, Query, tables
  <1> QED
    BY <1>1, Ends, AloneIdle

\* A handler that places or writes: what it holds has been found of what it writes.
LEMMA AloneInsertFolder ==
    ASSUME NEW r \in Req, Stepping(r), InsertFolder(r)
    PROVE  AloneInv'
  <1> DEFINE h == req[r]
  <1>1. HandlersInv /\ VaultTypeOK /\ Tidy /\ ~At(r, "idle") /\ (GiveUp(r) \/ Wrote(r, "vetAssignment"))
    BY ReadsTidy DEF Stepping, OwnersInv, HandlersInv, InsertFolder, At
  <1>2. h.route = "import" /\ (OneAtATime => Steady(h))
    BY <1>1, BusyHandler DEF InsertFolder, At, Busy, Follows, Stepping, AloneInv, AllSteady
  <1>3. CASE GiveUp(r)
    BY <1>1, <1>3, Ends, AloneIdle
  <1>4. CASE Wrote(r, "vetAssignment")
    <2>1. PICK g \in Handler : Goto(r, g) /\ g.stage = "vetAssignment" /\ Same(g, req[r])
      BY <1>1, <1>4, Writes DEF Stage
    <2>2. OneAtATime => Steady(g)
      BY <1>2, <2>1 DEF Steady, Fetched, Same, Holds
    <2> QED
      BY <1>1, <2>1, <2>2, AloneTidy
  <1> QED
    BY <1>1, <1>3, <1>4

LEMMA AloneInsert ==
    ASSUME NEW r \in Req, Stepping(r), Insert(r)
    PROVE  AloneInv'
  <1> DEFINE h == req[r]
  <1>1. /\ HandlersInv /\ VaultTypeOK /\ AllSound /\ ~At(r, "idle") /\ At(r, "insert")
        /\ cipher \in [Cipher -> Row \cup {None}]
    BY InsertDoes DEF Stepping, OwnersInv, HandlersInv, VaultTypeOK, At
  <1>2. h \in Handler /\ Busy(h) /\ h.stage = "insert" /\ h.route \in Making /\ (OneAtATime => Steady(h))
    BY <1>1, BusyHandler DEF At, Busy, Follows, Stepping, AloneInv, AllSteady
  <1>3. PICK cs \in SUBSET h.todo :
                 /\ UNCHANGED placed
                 /\ \/ GiveUp(r) /\ UNCHANGED cipher
                    \/ /\ cipher' = [c \in Cipher |-> IF c \in cs
                             THEN [creator |-> h.user, org |-> h.org, folder |-> h.folder,
                                   trash |-> "no"] ELSE cipher[c]]
                       /\ \E g \in Handler :
                             /\ Goto(r, g) /\ Holds(g, h) /\ g.org = h.org
                             /\ g.stage \in {"insert", "place"}
    BY <1>1, InsertDoes
  <1>4. CASE GiveUp(r) /\ UNCHANGED cipher
    BY <1>1, <1>3, <1>4, Ends, ReadsTidy, AloneIdle
  <1>5. CASE ~(GiveUp(r) /\ UNCHANGED cipher)
    <2>1. PICK g \in Handler : Goto(r, g) /\ Holds(g, h) /\ g.org = h.org
      BY <1>3, <1>5
    <2>2. cipher' = [c \in Cipher |-> IF c \in cs
             THEN [creator |-> h.user, org |-> h.org, folder |-> h.folder, trash |-> "no"] ELSE cipher[c]]
      BY <1>3, <1>5
    <2>3. cs \subseteq h.ids /\ h.ids \subseteq Cipher /\ cs \subseteq Pending(h)
      BY <1>2 DEF Busy, Handler, Pending, ToInsert
    <2>4. /\ \A c \in cs : cipher'[c].org = h.org /\ cipher'[c].folder = h.folder
          /\ \A c \in Cipher \ cs : cipher'[c] = cipher[c]
      BY <2>2, <2>3
    <2> HIDE DEF h
    <2>5. ASSUME OneAtATime PROVE Steady(g)'
      <3>1. ASSUME NEW c \in g.ids PROVE Has(c, g.org)'
        <4>1. c \in Cipher /\ Has(c, g.org)
          BY <1>2, <2>1, <2>3, <2>5, <3>1 DEF Steady, Holds
        <4> QED
          BY <2>1, <2>4, <4>1 DEF Has
      <3> QED
        BY <1>2, <2>1, <3>1 DEF Steady, Fetched, Holds, Making
    <2>6. ASSUME OneAtATime PROVE OneOwner'
      <3>1. OneOwner
        BY <2>6 DEF Stepping, AloneInv
      <3>2. ASSUME NEW c \in cs PROVE ColsOf(c)' = {}
        <4>1. cipher[c] = None
          BY <2>3 DEF h, Stepping, OwnersInv, Fresh
        <4>2. \A p \in placed : p[1] # c
          BY <1>1, <4>1 DEF VaultTypeOK
        <4> QED
          BY <1>3, <4>2 DEF ColsOf
      <3>3. ASSUME NEW c \in cs PROVE IF cipher'[c].org THEN cipher'[c].folder = None ELSE ColsOf(c)' = {}
        BY <1>2, <2>4, <3>2 DEF Busy
      <3>4. ASSUME NEW c \in Cipher \ cs, cipher'[c] # None
            PROVE  IF cipher'[c].org THEN cipher'[c].folder = None ELSE ColsOf(c)' = {}
        <4>1. ColsOf(c)' = ColsOf(c)
          BY <1>3 DEF ColsOf
        <4> QED
          BY <2>4, <2>6, <3>1, <3>4, <4>1 DEF OneOwner
      <3> QED
        BY <3>3, <3>4 DEF OneOwner
    <2> QED
      BY <1>1, <2>1, <2>5, <2>6, AloneStep DEF Stepping
  <1> QED
    BY <1>4, <1>5

LEMMA AlonePlace ==
    ASSUME NEW r \in Req, Stepping(r), Place(r)
    PROVE  AloneInv'
  <1> DEFINE h == req[r]
  <1>1. /\ HandlersInv /\ VaultTypeOK /\ AllSound /\ ~At(r, "idle") /\ At(r, "place") /\ UNCHANGED cipher
    BY PlaceDoes DEF Stepping, OwnersInv, HandlersInv, At
  <1>2. h \in Handler /\ Busy(h) /\ h.stage = "place" /\ h.route \in Making \cup InTurn /\ (OneAtATime => Steady(h))
    BY <1>1, BusyHandler DEF At, Busy, Follows, Stepping, AloneInv, AllSteady
  <1>3. CASE GiveUp(r) /\ UNCHANGED placed
    BY <1>1, <1>3, Ends, ReadsTidy, AloneIdle
  <1>4. CASE ~(GiveUp(r) /\ UNCHANGED placed)
    <2>1. PICK g \in Handler, c \in Cipher :
                    /\ c \in IF g.route \in Making THEN req[r].todo ELSE {g.c}
                    /\ placed' = {p \in placed : p[1] # c} \cup ({c} \X g.cols)
                    /\ Goto(r, g) /\ Holds(g, req[r]) /\ g.c = req[r].c /\ g.org = req[r].org /\ g.cols = req[r].cols
                    /\ g.stage = IF g.route \in Making THEN IF req[r].todo = {c} THEN "touch" ELSE "place"
                                 ELSE IF g.route \in {"update", "share"} THEN "touch" ELSE "bump"
      BY <1>1, <1>4, PlaceDoes
    <2>2. Sound(g)
      BY <2>1, GoneOn
    <2>3. h.route \in {"collections", "bulkCollections"} => Reached(h)
      BY <1>2 DEF Reached, InTurn
    <2>4. ASSUME OneAtATime PROVE Steady(g)
      <3>1. g.route \in InTurn \cup Making
        BY <1>2, <2>1 DEF Holds
      <3>2. ~Fetched(g) /\ (g.route \in {"update", "share"} => g.stage = "touch")
        BY <2>1 DEF Fetched, Making
      <3> QED
        BY <1>2, <2>1, <2>3, <2>4, <3>1, <3>2 DEF Steady, Holds, InTurn, Making
    <2>5. OneAtATime => Steady(g)'
      BY <1>1, <2>2, <2>4, SteadyKept
    <2>6. ASSUME OneAtATime PROVE OneOwner'
      <3>1. OneOwner
        BY <2>6 DEF Stepping, AloneInv
      <3>2. \A d \in Cipher \ {c} : ColsOf(d)' = ColsOf(d)
        BY <2>1 DEF ColsOf
      <3>3. g.cols = {} => ColsOf(c)' = {}
        BY <2>1 DEF ColsOf
      <3>4. ASSUME g.cols # {} PROVE Has(c, TRUE)
        <4>1. CASE g.route \in Making
          BY <1>2, <2>1, <2>6, <3>4, <4>1 DEF Steady, Busy, Holds, Has
        <4>2. CASE g.route \in {"update", "share"}
          BY <1>2, <2>1, <2>6, <3>4, <4>2 DEF Steady, Holds, Has, Making
        <4>3. CASE g.route \in {"collections", "bulkCollections"}
          BY <1>2, <2>1, <2>3, <2>6, <4>3 DEF Steady, Holds, Making
        <4> QED
          BY <1>2, <2>1, <4>1, <4>2, <4>3 DEF Holds, InTurn
      <3>5. ASSUME NEW d \in Cipher, cipher[d] # None
            PROVE  IF cipher[d].org THEN cipher[d].folder = None ELSE ColsOf(d)' = {}
        <4>1. IF cipher[d].org THEN cipher[d].folder = None ELSE ColsOf(d) = {}
          BY <2>6, <3>1, <3>5 DEF OneOwner
        <4> QED
          BY <3>2, <3>3, <3>4, <3>5, <4>1 DEF Has
      <3> QED
        BY <1>1, <3>5 DEF OneOwner
    <2> QED
      BY <1>1, <2>1, <2>5, <2>6, AloneStep DEF Stepping
  <1> QED
    BY <1>3, <1>4

LEMMA AloneWriteRow ==
    ASSUME NEW r \in Req, Stepping(r), WriteRow(r)
    PROVE  AloneInv'
  <1> DEFINE h == req[r]
  <1>1. /\ HandlersInv /\ VaultTypeOK /\ AllSound /\ ~At(r, "idle") /\ At(r, "writeRow") /\ UNCHANGED placed
        /\ cipher \in [Cipher -> Row \cup {None}]
    BY WriteRowDoes DEF Stepping, OwnersInv, HandlersInv, VaultTypeOK, At
  <1>2. h \in Handler /\ Busy(h) /\ h.stage = "writeRow" /\ h.route \in {"update", "share"} /\ (OneAtATime => Steady(h))
    BY <1>1, BusyHandler DEF At, Busy, Follows, Stepping, AloneInv, AllSteady
  <1>3. CASE GiveUp(r) /\ UNCHANGED cipher
    BY <1>1, <1>3, Ends, ReadsTidy, AloneIdle
  <1>4. CASE ~(GiveUp(r) /\ UNCHANGED cipher)
    <2>1. PICK g \in Handler :
                    /\ g.c \in Cipher
                    /\ cipher' = [cipher EXCEPT ![g.c] = IF cipher[g.c] = None THEN None
                                     ELSE [cipher[g.c] EXCEPT !.org = g.org, !.folder = g.folder]]
                    /\ Goto(r, g) /\ Holds(g, req[r]) /\ g.c = req[r].c /\ g.org = req[r].org /\ g.cols = req[r].cols
                    /\ g.stage = IF g.ask = None THEN "touch" ELSE "place"
      BY <1>1, <1>4, WriteRowDoes
    <2>2. \A d \in Cipher \ {g.c} : cipher'[d] = cipher[d]
      BY <1>1, <2>1
    <2>3. /\ cipher[g.c] = None => cipher'[g.c] = None
          /\ cipher[g.c] # None => cipher'[g.c].org = g.org /\ cipher'[g.c].folder = g.folder
      <3>1. CASE cipher[g.c] = None
        BY <1>1, <2>1, <3>1
      <3>2. CASE cipher[g.c] # None
        <4>1. PICK row \in Row : row = cipher[g.c]
          BY <1>1, <2>1, <3>2
        <4>2. cipher'[g.c] = [row EXCEPT !.org = g.org, !.folder = g.folder]
          BY <1>1, <2>1, <3>2, <4>1
        <4>3. /\ [row EXCEPT !.org = g.org, !.folder = g.folder].org = g.org
              /\ [row EXCEPT !.org = g.org, !.folder = g.folder].folder = g.folder
          BY DEF Row
        <4> QED
          BY <3>2, <4>1, <4>2, <4>3
      <3> QED
        BY <3>1, <3>2
    <2>4. ASSUME OneAtATime PROVE Steady(g)'
      <3>1. Has(g.c, g.org)'
        BY <2>1, <2>3 DEF Has
      <3>2. ~Fetched(g) /\ g.route \in {"update", "share"} /\ (g.org \/ g.cols = {})
        BY <1>2, <2>1, <2>4 DEF Fetched, Steady, Holds
      <3> QED
        BY <3>1, <3>2 DEF Steady, Fetched, Making
    <2>5. ASSUME OneAtATime, cipher[g.c] # None
          PROVE  IF g.org THEN g.folder = None ELSE ColsOf(g.c)' = {}
      <3>1. CASE g.route = "share"
        BY <1>2, <2>1, <3>1 DEF Busy, Holds
      <3>2. CASE g.route = "update"
        <4>1. Has(g.c, g.org) /\ (g.org => g.folder = None)
          BY <1>2, <2>1, <2>5, <3>2 DEF Steady, Fetched, Holds
        <4>2. ~g.org => ColsOf(g.c) = {}
          BY <2>1, <2>5, <4>1 DEF Has, OneOwner, Stepping, AloneInv
        <4>3. ColsOf(g.c)' = ColsOf(g.c)
          BY <1>1 DEF ColsOf
        <4> QED
          BY <4>1, <4>2, <4>3
      <3> QED
        BY <1>2, <2>1, <3>1, <3>2 DEF Holds
    <2>6. ASSUME OneAtATime PROVE OneOwner'
      <3>1. ASSUME NEW d \in Cipher \ {g.c}, cipher'[d] # None
            PROVE  IF cipher'[d].org THEN cipher'[d].folder = None ELSE ColsOf(d)' = {}
        <4>1. ColsOf(d)' = ColsOf(d)
          BY <1>1 DEF ColsOf
        <4> QED
          BY <2>2, <2>6, <3>1, <4>1 DEF OneOwner, Stepping, AloneInv
      <3>2. cipher'[g.c] # None => IF cipher'[g.c].org THEN cipher'[g.c].folder = None ELSE ColsOf(g.c)' = {}
        BY <2>3, <2>5, <2>6
      <3> QED
        BY <3>1, <3>2 DEF OneOwner
    <2> QED
      BY <1>1, <2>1, <2>4, <2>6, AloneStep DEF Stepping
  <1> QED
    BY <1>3, <1>4

LEMMA MarkedOrg == ASSUME NEW row \in Row, NEW h \in Handler PROVE Marked(row, h).org = row.org
  <1>1. /\ [row EXCEPT !.trash = "trash"].org = row.org /\ [row EXCEPT !.trash = "no"].org = row.org
        /\ [row EXCEPT !.folder = h.folder].org = row.org
    BY DEF Row
  <1> QED
    BY <1>1 DEF Marked

LEMMA AloneWrite ==
    ASSUME NEW r \in Req, Stepping(r), Write(r)
    PROVE  AloneInv'
  <1> DEFINE h == req[r]
             cs == {c \in h.ids : cipher[c] # None /\ (h.route = "move" => cipher[c].creator = h.user)}
  <1>1. /\ HandlersInv /\ VaultTypeOK /\ AllSound /\ ~At(r, "idle") /\ At(r, "write") /\ UNCHANGED placed
        /\ cipher \in [Cipher -> Row \cup {None}]
    BY DEF Stepping, OwnersInv, HandlersInv, VaultTypeOK, At, Write
  <1>2. /\ h \in Handler /\ Busy(h) /\ h.stage = "write" /\ h.route \in Marking /\ h.todo = {}
        /\ OneAtATime => Steady(h)
    BY <1>1, BusyHandler DEF At, Busy, Follows, Through, Stepping, AloneInv, AllSteady
  <1>3. CASE GiveUp(r) /\ UNCHANGED cipher
    BY <1>1, <1>3, Ends, ReadsTidy, AloneIdle
  <1>4. CASE ~(GiveUp(r) /\ UNCHANGED cipher)
    <2>1. /\ cipher' = [c \in Cipher |-> IF c \in cs THEN Marked(cipher[c], h) ELSE cipher[c]]
          /\ \E next \in {"touch", "refetch"} : Wrote(r, next)
      BY <1>4 DEF Write
    <2>2. PICK g \in Handler : Goto(r, g) /\ g.stage \in {"touch", "refetch"} /\ Same(g, req[r])
      <3>1. PICK next \in {"touch", "refetch"} : Wrote(r, next)
        BY <2>1
      <3>2. next \in Stage
        BY DEF Stage
      <3> QED
        BY <1>1, <3>1, <3>2, Writes
    <2>3. ASSUME NEW c \in cs
          PROVE  /\ c \in h.ids /\ c \in Cipher /\ cipher[c] # None /\ cipher'[c].org = cipher[c].org
                 /\ cipher'[c].folder = IF h.route \in {"softDelete", "restore", "archive", "unarchive"}
                                        THEN cipher[c].folder ELSE h.folder
      <3>1. c \in Cipher /\ cipher[c] \in Row
        BY <1>1, <1>2 DEF Handler
      <3>2. cipher'[c] = Marked(cipher[c], h)
        BY <2>1, <3>1
      <3> QED
        BY <1>2, <3>1, <3>2, MarkedFields, MarkedOrg
    <2>4. \A c \in Cipher \ cs : cipher'[c] = cipher[c]
      BY <2>1
    <2> HIDE DEF cs
    <2>5. \A c \in Cipher : cipher'[c] # None => cipher[c] # None /\ cipher'[c].org = cipher[c].org
      BY <2>3, <2>4
    <2>6. ASSUME OneAtATime PROVE Steady(g)'
      <3>1. Steady(g)
        BY <1>2, <2>2, <2>6 DEF Steady, Same, Holds, Fetched, Reached
      <3> QED
        BY <2>2, <2>5, <3>1, GoneOn, SteadyKept
    <2>7. ASSUME OneAtATime PROVE OneOwner'
      <3>1. ASSUME NEW c \in Cipher, cipher'[c] # None, cipher[c].org PROVE cipher'[c].folder = None
        <4>1. cipher[c].folder = None
          BY <2>5, <2>7, <3>1 DEF OneOwner, Stepping, AloneInv
        <4>2. CASE c \in cs
          <5>1. h.route \in {"partial", "move"} /\ h.folder # None => Has(c, FALSE)
            BY <1>2, <2>3, <2>7, <4>2 DEF Steady
          <5> QED
            BY <1>2, <2>3, <3>1, <4>1, <4>2, <5>1 DEF Has, Marking
        <4> QED
          BY <2>4, <4>1, <4>2
      <3>2. ASSUME NEW c \in Cipher, cipher'[c] # None, ~cipher[c].org PROVE ColsOf(c)' = {}
        <4>1. ColsOf(c) = {}
          BY <2>5, <2>7, <3>2 DEF OneOwner, Stepping, AloneInv
        <4> QED
          BY <1>1, <4>1 DEF ColsOf
      <3> QED
        BY <2>5, <3>1, <3>2 DEF OneOwner
    <2> QED
      BY <1>1, <2>2, <2>6, <2>7, AloneStep DEF Stepping
  <1> QED
    BY <1>3, <1>4

\* A request begins when nothing else is in flight.
LEMMA BeginAlone ==
    ASSUME HandlersInv, NEW r \in Req, NEW u \in User, Begin(r, u), OneAtATime
    PROVE  \A s \in Req : At(s, "idle")
  <1> SUFFICES ASSUME NEW s \in Req, ~At(s, "idle") PROVE FALSE
    OBVIOUS
  <1>1. s \in InFlight /\ InFlight \in SUBSET Req
    BY DEF InFlight
  <1>2. IsFiniteSet(InFlight)
    BY <1>1, VaultFinite, FS_Subset
  <1>3. Cardinality(InFlight) \in Nat /\ Cardinality(InFlight) < 1
    BY <1>2, FS_CardinalityType, BeginDoes DEF OneAtATime
  <1>4. InFlight = {}
    BY <1>2, <1>3, FS_EmptySet
  <1> QED
    BY <1>1, <1>4

LEMMA AloneBegin ==
    ASSUME NEW r \in Req, Stepping(r), NEW u \in User, Begin(r, u)
    PROVE  AloneInv'
  <1>1. HandlersInv /\ VaultTypeOK
    BY DEF Stepping, OwnersInv, HandlersInv
  <1>2. Tidy
    <2>1. CASE Query
      BY <2>1, ReadsTidy DEF Query, tables
    <2>2. CASE FolderRequest(r, u)
      <3>1. PICK f : StartCreateFolder(r, u, f) \/ StartDeleteFolder(r, u, f)
        BY <2>2 DEF FolderRequest
      <3>2. CASE StartCreateFolder(r, u, f)
        BY <3>2, ReadsTidy DEF StartCreateFolder
      <3>3. CASE StartDeleteFolder(r, u, f)
        BY <1>1, <3>3, FoldersTidy DEF StartDeleteFolder
      <3> QED
        BY <3>1, <3>2, <3>3
    <2> QED
      BY <1>1, <2>1, <2>2, BeginDoes
  <1>3. PICK g \in Handler : Goto(r, g) /\ Begun(g)
    BY <1>1, BeginDoes
  <1>4. Steady(g)
    <2>1. ASSUME g.route \in Making, NEW c \in g.ids PROVE Has(c, g.org)
      <3>1. c \in Cipher /\ c \notin drawn
        BY <1>3, <2>1 DEF Begun, Handler
      <3>2. cipher[c] = None
        BY <3>1 DEF Stepping, OwnersInv, Fresh
      <3> QED
        BY <3>2 DEF Has
    <2>2. g.route \in Changing => g.stage \in {"access", "vetBulk"} /\ g.todo = g.ids
      BY <1>3 DEF Begun
    <2>3. g.stage \in {"access", "vetBulk"} => ~Fetched(g) /\ ~Reached(g)
      BY DEF Fetched, Reached
    <2>4. g.route \notin Changing => g.route \notin {"update", "share", "collections", "bulkCollections", "move", "partial"}
      BY DEF Changing, InTurn, Marking
    <2> QED
      BY <2>1, <2>2, <2>3, <2>4 DEF Steady, Fetched
  <1> QED
    BY <1>2, <1>3, <1>4, AloneTidy

\* The purge and time take no cipher from its owner, its creator or its place.
LEMMA PurgeRows ==
    ASSUME VaultTypeOK, Cron
    PROVE  Tidy /\ \A c \in Cipher : cipher'[c] # None => cipher'[c].creator = cipher[c].creator
  <1>1. CASE CronDelete
    <2>1. \A c \in Cipher : cipher'[c] # None => cipher'[c] = cipher[c]
      BY <1>1 DEF CronDelete, WithoutCiphers
    <2> QED
      BY <1>1, <2>1, DeletesTidy DEF CronDelete
  <1>2. ASSUME NEW c \in Cipher, Age(c)
        PROVE  Tidy /\ \A d \in Cipher : cipher'[d] # None => cipher'[d].creator = cipher[d].creator
    <2>1. /\ cipher[c] # None /\ cipher' = [cipher EXCEPT ![c].trash = "old"] /\ UNCHANGED placed
          /\ cipher \in [Cipher -> Row \cup {None}]
      BY <1>2 DEF Age, VaultTypeOK
    <2>2. PICK row \in Row : row = cipher[c]
      BY <2>1
    <2>3. cipher'[c].org = cipher[c].org /\ cipher'[c].folder = cipher[c].folder /\ cipher'[c].creator = cipher[c].creator
      <3>1. /\ [row EXCEPT !.trash = "old"].org = row.org /\ [row EXCEPT !.trash = "old"].folder = row.folder
            /\ [row EXCEPT !.trash = "old"].creator = row.creator
        BY DEF Row
      <3> QED
        BY <2>1, <2>2, <3>1
    <2> QED
      BY <2>1, <2>3, FewerPlaced DEF Tidy
  <1>3. CronDelete \/ (\E c \in Cipher : Age(c)) \/ UNCHANGED <<cipher, placed>>
    BY DEF Cron, CronFind, CronCount, CronTouch, tables
  <1> QED
    BY <1>1, <1>2, <1>3, ReadsTidy

LEMMA AlonePurge ==
    ASSUME OwnersInv, AloneInv, load' = load, Cron
    PROVE  AloneInv'
  <1>1. UNCHANGED req /\ VaultTypeOK /\ AllSound
    BY DEF OwnersInv, HandlersInv, Cron, CronFind, CronCount, CronDelete, CronTouch, TellCreators, Age, tables
  <1>2. Tidy
    BY <1>1, PurgeRows
  <1> SUFFICES ASSUME OneAtATime PROVE (AtMostOne /\ AllSteady /\ OneOwner)'
    BY DEF AloneInv, OneAtATime, Asked
  <1>3. AtMostOne'
    BY <1>1 DEF AloneInv, AtMostOne, At
  <1>4. ASSUME NEW s \in Req PROVE Steady(req[s])'
    <2>1. PICK h \in Handler : h = req[s] /\ h = req'[s] /\ Sound(h) /\ Steady(h)
      BY <1>1 DEF VaultTypeOK, AllSound, AloneInv, AllSteady
    <2>2. Steady(h)'
      BY <1>2, <2>1, SteadyKept DEF Tidy
    <2> QED
      BY <2>1, <2>2 DEF Steady, Fetched, Reached, Has
  <1>5. OneOwner'
    BY <1>2, TidyOwner DEF AloneInv
  <1> QED
    BY <1>3, <1>4, <1>5 DEF AllSteady

LEMMA AloneInit == VaultInit => AloneInv
  <1> SUFFICES ASSUME VaultInit PROVE AtMostOne /\ AllSteady /\ OneOwner
    BY DEF AloneInv
  <1>1. \A r \in Req : req[r] = Idle /\ At(r, "idle")
    BY IdleSound DEF VaultInit, At
  <1> QED
    BY <1>1, SteadyIdle DEF VaultInit, AtMostOne, AllSteady, OneOwner

LEMMA ContinueBusy == ASSUME NEW r \in Req, Continue(r) PROVE ~At(r, "idle")
  <1>1. Access(r) \/ Fetch(r) \/ VetBulk(r) \/ VetAssignment(r) \/ VetManage(r) \/ VetFolder(r) => ~At(r, "idle")
    BY DEF Access, Fetch, VetBulk, VetAssignment, VetManage, VetFolder, At
  <1>2. InsertFolder(r) \/ Insert(r) \/ Place(r) \/ WriteRow(r) \/ Write(r) => ~At(r, "idle")
    BY DEF InsertFolder, Insert, Place, WriteRow, Write, At
  <1>3. Bump(r) \/ Refetch(r) \/ DropPlaced(r) \/ DeleteRows(r) \/ DeletePersonal(r) \/ DropFolders(r) => ~At(r, "idle")
    BY DEF Bump, Refetch, DropPlaced, DeleteRows, DeletePersonal, DropFolders, At
  <1>4. DropUserGrants(r) \/ DropMember(r) \/ DeleteUser(r) \/ DeleteCollection(r) => ~At(r, "idle")
    BY DEF DropUserGrants, DropMember, DeleteUser, DeleteCollection, At
  <1>5. Touch(r) \/ Crash(r) => ~At(r, "idle")
    BY DEF Touch, Crash, At
  <1> QED
    BY <1>1, <1>2, <1>3, <1>4, <1>5 DEF Continue

LEMMA AloneNext ==
    ASSUME OwnersInv, AloneInv, [VaultNext]_vaultVars
    PROVE  AloneInv'
  <1>1. OwnersInv'
    BY OwnersNext
  <1>2. CASE UNCHANGED vaultVars
    <2>1. AtMostOne => AtMostOne'
      BY <1>2 DEF vaultVars, AtMostOne, At
    <2>2. AllSteady => AllSteady'
      BY <1>2 DEF vaultVars, AllSteady, Steady, Fetched, Reached, Has
    <2>3. OneOwner => OneOwner'
      BY <1>2 DEF vaultVars, OneOwner, OneAtATime, Asked, ColsOf
    <2>4. OneAtATime' => OneAtATime
      BY <1>2 DEF vaultVars, OneAtATime, Asked
    <2> QED
      BY <2>1, <2>2, <2>3, <2>4 DEF AloneInv
  <1>3. CASE VaultNext
    <2>1. load' = load /\ HandlersInv
      BY <1>3 DEF VaultNext, OwnersInv
    <2>2. ASSUME NEW r \in Req, NEW u \in User, Begin(r, u) PROVE AloneInv'
      <3>1. Stepping(r)
        BY <1>1, <2>1, <2>2, BeginAlone DEF Stepping
      <3> QED
        BY <2>2, <3>1, AloneBegin
    <2>3. ASSUME NEW r \in Req, Continue(r) PROVE AloneInv'
      <3>1. ~At(r, "idle")
        BY <2>3, ContinueBusy
      <3>2. Stepping(r)
        BY <1>1, <2>1, <3>1 DEF Stepping, AloneInv, AtMostOne
      <3> QED
        BY <2>3, <3>2, AloneAccess, AloneFetch, AloneVet, AloneInsertFolder, AloneInsert, AlonePlace, AloneWriteRow,
           AloneWrite, AloneBump, AloneDelete, AloneDrop, AloneDeleteUser, AloneTouch, AloneCrash
        DEF Continue
    <2>4. Cron => AloneInv'
      BY <2>1, AlonePurge
    <2> QED
      BY <1>3, <2>2, <2>3, <2>4 DEF VaultNext
  <1> QED
    BY <1>2, <1>3

\* One handler at a time, wherever it may end: a cipher of the organization lies in no folder,
\* and one of an account in no collection.
THEOREM OneOwnerHolds == VaultSpec => []OneOwner
  <1>1. VaultInit => OwnersInv /\ AloneInv
    BY OwnersInit, AloneInit
  <1>2. OwnersInv /\ AloneInv /\ [VaultNext]_vaultVars => (OwnersInv /\ AloneInv)'
    BY OwnersNext, AloneNext
  <1>3. AloneInv => OneOwner
    BY DEF AloneInv, OneOwner
  <1> QED
    BY <1>1, <1>2, <1>3, PTL DEF VaultSpec

-----------------------------------------------------------------------------
\* Who is told, handlers one at a time

\* Those the bumps still to come of a handler reach.
Audience(h) ==
    {u \in User : \/ "personal" \in h.scopes /\ u = h.user
                  \/ "org" \in h.scopes /\ (member[u] # None \/ u = h.other)}

\* Whoever is shown c is among them.
Covers(h, c) ==
    cipher[c] # None =>
        IF cipher[c].org THEN "org" \in h.scopes ELSE "personal" \in h.scopes /\ cipher[c].creator = h.user

\* The ciphers a handler makes, and those it has found that it may write.
Aimed(h) ==
    {c \in h.ids : /\ h.stage # "touch"
                   /\ \/ h.route \in Making \/ (Reached(h) /\ c = h.c)
                      \/ h.route \notin InTurn /\ c \notin h.todo}

\* The stages after a write that do not write for the first time.
Half == {"bump", "deleteRows", "dropFolders", "accountGrants", "accountMember", "account", "memberRow",
         "colGrants", "colRow"}

\* Whom the routes that name no cipher tell.
Bound(h) ==
    /\ h.stage \in {"deletePersonal", "dropFolders"} => h.route \in {"purgeVault", "deleteAccount"}
    /\ h.stage \in {"accountGrants", "accountMember", "account"} => h.route = "deleteAccount"
    /\ h.stage \in {"memberGrants", "memberRow"} => h.route = "deleteMember"
    /\ h.stage \in {"colPlaced", "colGrants", "colRow"} => h.route = "deleteCollection"
    /\ h.stage \in Half => h.wrote
    /\ h.stage # "idle" =>
          /\ h.route \in Personally => h.scopes = {"personal"} /\ h.other = None
          /\ h.route \in {"deleteMember", "deleteCollection"} => h.scopes = {"org"}
          /\ h.route = "deleteMember" => h.other \in User

\* What a handler is about to write it will tell; who shares is a member by then,
\* and the folder it has vetted is there.
Addressed(h) ==
    /\ Bound(h)
    /\ h.route \in Making /\ h.stage \notin {"idle", "touch"} =>
          IF h.org THEN "org" \in h.scopes ELSE "personal" \in h.scopes
    /\ h.route = "share" /\ h.stage = "writeRow" => member[h.user] # None
    /\ h.stage \in {"writeRow", "write"} /\ h.folder # None => h.folder \in folder
    /\ \A c \in Aimed(h) : Covers(h, c)

\* It has written, and not told all yet.  An update or a share learns whom to tell as
\* it writes; a share that goes on with the next cipher has told of the last.
Owing(h) == h.wrote /\ (h.route \in {"update", "share"} => h.stage \in {"place", "touch"})

\* u is still to be told, by the purge or by a handler.
Promised(u) ==
    \/ cron.stage = "touch" /\ u \in cron.users
    \/ \E r \in Req : Owing(req[r]) /\ u \in Audience(req[r])

ToldInv ==
    OneAtATime =>
        /\ reverted = {}
        /\ \A r \in Req : Addressed(req[r])
        /\ excused = {} => \A u \in untold \cap account : Promised(u)

\* A step of r with nothing else in flight, and what is known of it.
Alone(r) == Stepping(r) /\ OneAtATime /\ Reverting /\ ToldInv

LEMMA CoversHide ==
    ASSUME VaultTypeOK, NEW h, NEW u \in User, u \notin Audience(h), NEW c \in Cipher, Covers(h, c)
    PROVE  ~Reads(u, c)
  BY DEF Covers, Audience, Reads, Strong

\* Both before and after u is not shown c, or it is shown the same.
Alike(u, c) ==
    \/ ~Reads(u, c) /\ ~Reads(u, c)'
    \/ /\ Reads(u, c) /\ Reads(u, c)' /\ cipher'[c] = cipher[c] /\ ColsOf(c)' = ColsOf(c)
       /\ CanEdit(u, c) <=> CanEdit(u, c)'

LEMMA ViewStays ==
    ASSUME NEW u \in User, \A c \in Cipher : Alike(u, c)
    PROVE  View(u)' = View(u)
  <1>1. {c \in Cipher : Reads(u, c)'} = {c \in Cipher : Reads(u, c)}
    BY DEF Alike
  <1>2. ASSUME NEW c \in Cipher, Reads(u, c)
        PROVE  <<cipher'[c], ColsOf(c)', CanEdit(u, c)'>> = <<cipher[c], ColsOf(c), CanEdit(u, c)>>
    <2>1. cipher'[c] = cipher[c] /\ ColsOf(c)' = ColsOf(c) /\ (CanEdit(u, c) <=> CanEdit(u, c)')
      BY <1>2 DEF Alike
    <2>2. CanEdit(u, c)' = CanEdit(u, c)
      BY <2>1 DEF CanEdit
    <2> QED
      BY <2>1, <2>2
  <1> QED
    BY <1>1, <1>2 DEF View

\* What u is shown does not depend on the rights of others.
LEMMA SameRights ==
    ASSUME NEW u \in User, NEW c \in Cipher, cipher'[c] = cipher[c], ColsOf(c)' = ColsOf(c),
           cipher[c] # None /\ cipher[c].org =>
              member'[u] = member[u] /\ \A col \in Collection, g \in {"readOnly", "write"} : <<u, col, g>> \in grant' <=> <<u, col, g>> \in grant
    PROVE  Alike(u, c)
  <1>1. CASE cipher[c] = None
    BY <1>1 DEF Alike, Reads
  <1>2. CASE cipher[c] # None /\ ~cipher[c].org
    BY <1>2 DEF Alike, Reads, CanEdit
  <1>3. CASE cipher[c] # None /\ cipher[c].org
    <2>1. member'[u] = member[u]
      BY <1>3
    <2>2. Granted(u, c)' = Granted(u, c)
      BY <1>3 DEF Granted, ColsOf
    <2>3. Strong(u)' <=> Strong(u)
      BY <2>1 DEF Strong
    <2>4. (Reads(u, c)' <=> Reads(u, c)) /\ (ReadOnly(u, c)' <=> ReadOnly(u, c))
      BY <2>1, <2>2, <2>3 DEF Reads, ReadOnly
    <2>5. CanEdit(u, c)' <=> CanEdit(u, c)
      BY <2>4 DEF CanEdit
    <2> QED
      BY <2>4, <2>5 DEF Alike
  <1> QED
    BY <1>1, <1>2, <1>3

\* A write of ciphers of cs only, of which u is shown none.
LEMMA SameElsewhere ==
    ASSUME NEW u \in User, UNCHANGED <<member, grant>>, NEW cs,
           \A c \in Cipher : c \notin cs => cipher'[c] = cipher[c] /\ ColsOf(c)' = ColsOf(c),
           \A c \in Cipher : c \in cs => ~Reads(u, c) /\ ~Reads(u, c)'
    PROVE  View(u)' = View(u)
  <1>1. ASSUME NEW c \in Cipher PROVE Alike(u, c)
    <2>1. CASE c \in cs
      BY <2>1 DEF Alike
    <2>2. CASE c \notin cs
      BY <2>2, SameRights
    <2> QED
      BY <2>1, <2>2
  <1> QED
    BY <1>1, ViewStays

LEMMA IdleAddressed == Addressed(Idle) /\ Addressed(Idle)' /\ ~Owing(Idle)
  <1>1. Idle.stage = "idle" /\ Idle.route = None /\ Idle.ids = {} /\ Idle.wrote = FALSE
    BY DEF Idle
  <1>3. Bound(Idle)
    BY <1>1 DEF Bound, Half
  <1>4. Aimed(Idle) = {} /\ Aimed(Idle)' = {}
    BY <1>1 DEF Aimed
  <1> QED
    BY <1>1, <1>3, <1>4 DEF Addressed, Bound, Owing

\* The slot of a step, and what becomes of who is to be told.
LEMMA ToldStep ==
    ASSUME NEW r \in Req, Alone(r), NEW g \in Handler, Goto(r, g), UNCHANGED cron, reverted' = {}, Addressed(g)',
           excused' = {} => excused = {} /\ \A u \in untold' \cap account' :
               \/ u \in untold \cap account /\ (Owing(req[r]) => u \notin Audience(req[r]))
               \/ Owing(g) /\ u \in Audience(g)'
    PROVE  ToldInv'
  <1>1. VaultTypeOK /\ AllSound /\ \A s \in Req \ {r} : At(s, "idle")
    BY DEF Alone, Stepping, OwnersInv, HandlersInv
  <1>2. \A s \in Req : /\ req'[s] = IF s = r THEN g ELSE Idle
                       /\ s # r => req[s] = Idle
    BY <1>1 DEF VaultTypeOK, Goto, AllSound, Sound, At
  <1>3. ASSUME NEW s \in Req PROVE Addressed(req[s])'
    <2>1. PICK h \in Handler : h = req'[s] /\ (h = g \/ h = Idle)
      BY <1>2, IdleSound
    <2>2. Addressed(h)'
      BY <2>1, IdleAddressed
    <2> QED
      BY <2>1, <2>2 DEF Addressed, Bound, Aimed, Covers, Reached
  <1>4. ASSUME excused' = {}, NEW u \in untold' \cap account' PROVE Promised(u)'
    <2>1. CASE u \in untold \cap account /\ (Owing(req[r]) => u \notin Audience(req[r]))
      <3>1. Promised(u)
        BY <1>4, <2>1 DEF Alone, ToldInv
      <3>2. ASSUME NEW s \in Req, Owing(req[s]), u \in Audience(req[s]) PROVE FALSE
        BY <1>2, <2>1, <3>2, IdleAddressed
      <3>3. cron.stage = "touch" /\ u \in cron.users
        BY <3>1, <3>2 DEF Promised
      <3> QED
        BY <3>3 DEF Promised
    <2>2. CASE Owing(g) /\ u \in Audience(g)'
      <3>1. Owing(req'[r]) /\ req'[r] = g
        BY <1>2, <2>2
      <3>2. u \in Audience(req[r])'
        BY <2>2, <3>1 DEF Audience
      <3>3. Owing(req[r])'
        BY <3>1 DEF Owing
      <3> QED
        BY <3>2, <3>3 DEF Promised
    <2> QED
      BY <1>4, <2>1, <2>2
  <1> QED
    BY <1>3, <1>4 DEF ToldInv

\* What is known of the slot of r.
LEMMA AloneHas ==
    ASSUME NEW r \in Req, Alone(r), ~At(r, "idle")
    PROVE  /\ HandlersInv /\ VaultTypeOK /\ reverted = {} /\ OneOwner /\ FolderOfCreator
           /\ req[r] \in Handler /\ Busy(req[r]) /\ req[r].stage # "idle" /\ Addressed(req[r]) /\ Steady(req[r])
           /\ Fresh /\ Vouched(req[r])
  <1>1. HandlersInv
    BY DEF Alone, Stepping, OwnersInv
  <1> QED
    BY <1>1, BusyHandler
    DEF Alone, Stepping, OwnersInv, HandlersInv, ToldInv, AloneInv, AllSteady, AllVouched

\* No cipher is taken from the organization.
LEMMA TidyReverted ==
    ASSUME NEW r \in Req, Alone(r), Tidy
    PROVE  reverted' = {}
  BY DEF Alone, ToldInv, Tidy, Reverting

\* A handler that ends where it has not written, or after which someone is excused.
LEMMA ToldEnds ==
    ASSUME NEW r \in Req, Alone(r), ~At(r, "idle"), UNCHANGED <<cron, account, untold>>, Tidy,
           GiveUp(r) \/ Leave(r, "crash")
    PROVE  ToldInv'
  <1>1. Goto(r, Idle) /\ reverted' = {}
    BY AloneHas, TidyReverted, Ends
  <1>2. excused' = {} => excused = {} /\ ~req[r].wrote
    BY DEF GiveUp, Leave
  <1> QED
    BY <1>1, <1>2, IdleSound, IdleAddressed, ToldStep DEF Owing

\* A read: who was to be told still is.
LEMMA ToldRead ==
    ASSUME NEW r \in Req, Alone(r), Query, UNCHANGED excused, NEW g \in Handler, Goto(r, g), Addressed(g)',
           Holds(g, req[r]), g.wrote = req[r].wrote, req[r].scopes \subseteq g.scopes,
           g.route \in {"update", "share"} => req[r].stage \notin {"place", "touch"}
    PROVE  ToldInv'
  <1>1. reverted' = {}
    BY TidyReverted, ReadsTidy DEF Query, tables
  <1>2. UNCHANGED <<cron, account, untold, member>>
    BY DEF Query, tables
  <1>3. Owing(req[r]) => Owing(g)
    BY DEF Owing, Holds
  <1>4. Audience(req[r]) \subseteq Audience(g)'
    BY <1>2 DEF Audience, Holds
  <1> QED
    BY <1>1, <1>2, <1>3, <1>4, ToldStep

\* A write after which the handler is to tell all who see it.
LEMMA ToldWrite ==
    ASSUME NEW r \in Req, Alone(r), UNCHANGED <<cron, account, excused>>, NEW g \in Handler, Goto(r, g), Addressed(g)',
           NEW cs, Noting(cs), reverted' = {}, Owing(g), Owing(req[r]) => Audience(req[r]) \subseteq Audience(g)',
           \A u \in User : u \notin Audience(g)' => View(u)' = View(u) /\ \A c \in cs : ~Reads(u, c)'
    PROVE  ToldInv'
  <1>1. ASSUME NEW u \in untold', u \notin Audience(g)' PROVE u \in untold
    <2>1. untold \subseteq User
      BY DEF Alone, Stepping, OwnersInv, HandlersInv, VaultTypeOK
    <2> QED
      BY <1>1, <2>1 DEF Noting
  <1> QED
    BY <1>1, ToldStep

LEMMA CoversKept ==
    ASSUME NEW h, NEW g, NEW c \in Cipher, Covers(h, c), g.user = h.user, h.scopes \subseteq g.scopes,
           cipher'[c] # None => cipher[c] # None /\ cipher'[c].org = cipher[c].org /\ cipher'[c].creator = cipher[c].creator
    PROVE  Covers(g, c)'
  BY DEF Covers

\* The stages of the routes that name no cipher.
Whole == {"deletePersonal", "dropFolders", "accountGrants", "accountMember", "account", "memberGrants",
          "memberRow", "colPlaced", "colGrants", "colRow"}

LEMMA BoundOn ==
    ASSUME NEW h, NEW g, Bound(h), h.stage # "idle", g.route = h.route, g.other = h.other,
           g.scopes = h.scopes \/ h.route \in Making \cup Changing,
           g.stage \notin Whole, g.stage \in {"bump", "deleteRows"} => g.wrote
    PROVE  Bound(g)
  <1>1. h.route \in Making \cup Changing => h.route \notin Wholly
    BY DEF Making, Changing, InTurn, Marking, Wholly, Personally
  <1> QED
    BY <1>1 DEF Bound, Whole, Half, Wholly

LEMMA AimedOn ==
    ASSUME NEW h, NEW g, Same(g, h), h.stage # "touch", Reached(g) => Reached(h)
    PROVE  Aimed(g) \subseteq Aimed(h)
  BY DEF Aimed, Same, Holds

\* Rows that go, or stay whose they are.
Staying == \A c \in Cipher : cipher'[c] # None =>
    cipher[c] # None /\ cipher'[c].org = cipher[c].org /\ cipher'[c].creator = cipher[c].creator

LEMMA AimedCovered ==
    ASSUME NEW h \in Handler, NEW g, Addressed(h), Staying, Aimed(g) \subseteq Aimed(h), g.user = h.user,
           h.scopes \subseteq g.scopes
    PROVE  \A c \in Aimed(g) : Covers(g, c)'
  <1> SUFFICES ASSUME NEW c \in Aimed(g) PROVE Covers(g, c)'
    OBVIOUS
  <1>1. c \in Aimed(h) /\ c \in Cipher
    BY DEF Aimed, Handler
  <1>2. Covers(h, c)
    BY <1>1 DEF Addressed
  <1> QED
    BY <1>1, <1>2, CoversKept DEF Staying

LEMMA ReadsStaying == ASSUME UNCHANGED cipher PROVE Staying
  BY DEF Staying

\* A read, and on to the next stage.
LEMMA ToldGo ==
    ASSUME NEW r \in Req, Alone(r), ~At(r, "idle"), Query, NEW stage \in Stage, Go(r, stage),
           req[r].stage # "touch", req[r].route \in {"update", "share"} => req[r].stage # "place",
           stage \notin Whole \cup {"bump", "deleteRows"},
           \A g \in Handler : g.stage = stage /\ Same(g, req[r]) => (Reached(g) => Reached(req[r])),
           stage = "writeRow" /\ req[r].route = "share" => member[req[r].user] # None,
           stage \in {"writeRow", "write"} /\ req[r].folder # None => req[r].folder \in folder
    PROVE  ToldInv'
  <1>1. req[r] \in Handler /\ Addressed(req[r]) /\ VaultTypeOK /\ req[r].stage # "idle"
    BY AloneHas
  <1>2. PICK g \in Handler : Goto(r, g) /\ g.stage = stage /\ Same(g, req[r]) /\ g.wrote = req[r].wrote
    BY <1>1, Goes DEF Go
  <1>3. Holds(g, req[r]) /\ g.scopes = req[r].scopes
    BY <1>2 DEF Same
  <1>4. Bound(g)
    BY <1>1, <1>2, <1>3, BoundOn DEF Addressed, Holds
  <1>5. Aimed(g) \subseteq Aimed(req[r])
    BY <1>2, AimedOn
  <1>6. Staying /\ UNCHANGED <<member, folder>>
    BY ReadsStaying DEF Query, tables
  <1>7. \A c \in Aimed(g) : Covers(g, c)'
    BY <1>1, <1>3, <1>5, <1>6, AimedCovered DEF Holds
  <1>8. Addressed(g)'
    BY <1>1, <1>2, <1>3, <1>4, <1>6, <1>7 DEF Addressed, Bound, Same, Holds
  <1> QED
    BY <1>2, <1>3, <1>8, ToldRead DEF Go, Holds

LEMMA ToldAccess ==
    ASSUME NEW r \in Req, Alone(r), Access(r)
    PROVE  ToldInv'
  <1>1. HandlersInv
    BY DEF Alone, Stepping, OwnersInv
  <1>2. /\ Query /\ At(r, "access") /\ ~At(r, "idle") /\ Tidy /\ Staying
        /\ UNCHANGED <<cron, account, untold, member, folder>>
    BY <1>1, AccessDoes, ReadsTidy, ReadsStaying DEF Query, tables, At
  <1>3. req[r] \in Handler /\ Addressed(req[r]) /\ Busy(req[r]) /\ VaultTypeOK
    BY <1>2, AloneHas
  <1>4. CASE GiveUp(r)
    BY <1>2, <1>4, ToldEnds
  <1>5. CASE ~GiveUp(r)
    <2>1. PICK g \in Handler, c \in req[r].todo :
                    /\ Goto(r, g) /\ UNCHANGED excused /\ Holds(g, req[r]) /\ g.org = req[r].org /\ g.wrote = req[r].wrote
                    /\ g.todo = req[r].todo \ {c} /\ g.c = c
                    /\ g.scopes = req[r].scopes \cup {IF cipher[c].org THEN "org" ELSE "personal"}
                    /\ CanEdit(g.user, c)
                    /\ g.route = "move" => ~cipher[c].org
                    /\ g.route = "partial" /\ g.folder # None => ~cipher[c].org
                    /\ g.route \in {"collections", "bulkCollections"} => cipher[c].org
                    /\ g.route \in {"update", "share"} => g.stage = "fetch"
                    /\ g.route \in {"collections", "bulkCollections"} => g.stage = "vetAssignment"
                    /\ g.route \notin InTurn /\ g.todo # {} => g.stage = "access"
                    /\ g.route \notin InTurn /\ g.todo = {} =>
                          g.stage = IF g.route = "hardDelete" THEN "dropPlaced"
                                    ELSE IF g.folder # None THEN "vetFolder" ELSE "write"
      BY <1>1, <1>5, AccessDoes
    <2>2. req[r].route \in Changing /\ req[r].stage = "access" /\ g.route = req[r].route
      BY <1>2, <1>3, <2>1 DEF Busy, Follows, At, Holds
    <2>3. g.stage \in {"fetch", "vetAssignment", "access", "dropPlaced", "vetFolder", "write"}
      BY <2>1, <2>2 DEF InTurn
    <2>4. Bound(g)
      BY <1>3, <2>1, <2>2, <2>3, BoundOn DEF Addressed, Holds, Whole
    <2>5. c \in Cipher /\ Covers(g, c)'
      <3>1. c \in Cipher /\ cipher[c] # None /\ (~cipher[c].org => cipher[c].creator = g.user)
        BY <1>3, <2>1 DEF CanEdit, Reads, Handler
      <3>2. UNCHANGED cipher
        BY <1>2 DEF Query, tables
      <3> QED
        BY <2>1, <3>1, <3>2 DEF Covers
    <2>6. \A d \in Aimed(g) : Covers(g, d)'
      <3>1. Aimed(g) \ {c} \subseteq Aimed(req[r])
        <4>1. ASSUME NEW d \in Aimed(g), d # c PROVE d \in Aimed(req[r])
          <5>1. g.route \notin InTurn /\ d \notin g.todo /\ d \in g.ids
            BY <2>1, <2>2, <4>1 DEF Aimed, Making, Changing, InTurn, Marking
          <5>2. d \notin req[r].todo /\ d \in req[r].ids /\ req[r].route \notin InTurn
            BY <2>1, <2>2, <4>1, <5>1 DEF Holds
          <5> QED
            BY <2>2, <5>2 DEF Aimed
        <4> QED
          BY <4>1
      <3>2. ASSUME NEW d \in Aimed(req[r]) PROVE Covers(g, d)'
        <4>1. d \in Cipher /\ Covers(req[r], d)
          BY <1>3, <3>2 DEF Aimed, Handler, Addressed
        <4> QED
          BY <1>2, <2>1, <4>1, CoversKept DEF Staying, Holds
      <3> QED
        BY <2>5, <3>1, <3>2
    <2>7. Addressed(g)'
      BY <2>1, <2>2, <2>3, <2>4, <2>6 DEF Addressed, Bound, Changing, InTurn, Marking, Making
    <2> QED
      BY <1>2, <2>1, <2>2, <2>7, ToldRead
  <1> QED
    BY <1>4, <1>5

LEMMA ToldFetch ==
    ASSUME NEW r \in Req, Alone(r), Fetch(r)
    PROVE  ToldInv'
  <1>1. HandlersInv
    BY DEF Alone, Stepping, OwnersInv
  <1>2. /\ Query /\ At(r, "fetch") /\ ~At(r, "idle") /\ Tidy /\ Staying
        /\ UNCHANGED <<cron, account, untold, member, folder>>
    BY <1>1, FetchDoes, ReadsTidy, ReadsStaying DEF Query, tables, At
  <1>3. req[r] \in Handler /\ Addressed(req[r]) /\ Busy(req[r]) /\ VaultTypeOK
    BY <1>2, AloneHas
  <1>4. CASE GiveUp(r)
    BY <1>2, <1>4, ToldEnds
  <1>5. CASE ~GiveUp(r)
    <2>1. PICK g \in Handler :
                    /\ Goto(r, g) /\ UNCHANGED excused /\ Holds(g, req[r]) /\ g.todo = req[r].todo /\ g.c = req[r].c
                    /\ g.scopes = req[r].scopes /\ g.wrote = req[r].wrote
                    /\ g.c \in Cipher /\ cipher[g.c] # None
                    /\ g.org = (g.route = "share" \/ cipher[g.c].org)
                    /\ g.route = "update" /\ cipher[g.c].org => g.folder = None
                    /\ g.cols = IF g.ask = None THEN {} ELSE g.ask
                    /\ g.stage = IF g.ask # None THEN "vetAssignment"
                                 ELSE IF g.folder # None THEN "vetFolder" ELSE "writeRow"
      BY <1>1, <1>5, FetchDoes
    <2>2. req[r].route \in {"update", "share"} /\ req[r].stage = "fetch" /\ Reached(req[r])
      BY <1>2, <1>3 DEF Busy, Follows, At, Reached, InTurn
    <2>3. Bound(g)
      BY <1>3, <2>1, <2>2, BoundOn DEF Addressed, Holds, Whole
    <2>4. Aimed(g) \subseteq Aimed(req[r])
      BY <2>1, <2>2 DEF Aimed, Holds, InTurn, Making
    <2>5. \A c \in Aimed(g) : Covers(g, c)'
      BY <1>2, <1>3, <2>1, <2>4, AimedCovered DEF Holds
    <2>6. g.route = "share" => g.stage = "vetAssignment"
      BY <1>3, <2>1, VaultAskAssumption DEF Busy, Holds
    <2>7. Addressed(g)'
      BY <2>1, <2>2, <2>3, <2>5, <2>6 DEF Addressed, Bound, Holds, Making
    <2> QED
      BY <1>2, <2>1, <2>2, <2>7, ToldRead
  <1> QED
    BY <1>4, <1>5

LEMMA ToldVet ==
    ASSUME NEW r \in Req, Alone(r), VetBulk(r) \/ VetAssignment(r) \/ VetManage(r) \/ VetFolder(r)
    PROVE  ToldInv'
  <1>1. HandlersInv /\ Query /\ ~At(r, "idle") /\ req[r].stage \in {"vetBulk", "vetAssignment", "vetManage", "vetFolder"}
    BY DEF Alone, Stepping, OwnersInv, VetBulk, VetAssignment, VetManage, VetFolder, At
  <1>2. Tidy /\ UNCHANGED <<cron, account, untold>>
    BY <1>1, ReadsTidy DEF Query, tables
  <1>3. Busy(req[r]) /\ req[r].stage # "touch" /\ req[r].stage # "place"
    BY <1>1, AloneHas
  <1>4. CASE GiveUp(r)
    BY <1>1, <1>2, <1>4, ToldEnds
  <1>5. CASE ~GiveUp(r)
    <2>1. PICK stage \in Stage :
            /\ Go(r, stage) /\ stage \in {"vetManage", "insert", "vetFolder", "writeRow", "place", "access", "write"}
            /\ \A g \in Handler : g.stage = stage /\ Same(g, req[r]) => (Reached(g) => Reached(req[r]))
            /\ stage = "writeRow" /\ req[r].route = "share" => member[req[r].user] # None
            /\ stage \in {"writeRow", "write"} /\ req[r].folder # None => req[r].folder \in folder
      <3>1. CASE VetBulk(r)
        <4>1. /\ Go(r, "vetManage") /\ req[r].stage = "vetBulk" /\ req[r].route = "bulkCollections"
              /\ "vetManage" \in Stage
          BY <1>3, <1>5, <3>1 DEF VetBulk, At, Busy, Follows, Stage
        <4>2. \A g \in Handler : g.stage = "vetManage" /\ Same(g, req[r]) => ~Reached(g)
          BY <4>1 DEF Reached, Same, Holds
        <4> QED
          BY <4>1, <4>2
      <3>2. CASE VetAssignment(r)
        <4>1. PICK stage \in Stage : Go(r, stage) /\
                      \/ req[r].org /\ req[r].route \in {"update", "share", "collections"} /\ stage = "vetManage"
                      \/ req[r].route \in {"create", "import"} /\ req[r].folder = None /\ stage = "insert"
                      \/ req[r].route = "import" /\ stage = "insert"
                      \/ /\ req[r].route \in {"create", "update"} /\ (req[r].route = "update" => ~req[r].org)
                         /\ req[r].folder # None /\ stage = "vetFolder"
                      \/ ~req[r].org /\ req[r].route = "update" /\ req[r].folder = None /\ stage = "writeRow"
                      \/ req[r].route = "bulkCollections" /\ stage = "place"
          BY <1>1, <1>5, <3>2, VetAssignmentDoes
        <4>2. req[r].stage = "vetAssignment"
          BY <3>2 DEF VetAssignment, At
        <4>3. \A g \in Handler : g.stage = stage /\ Same(g, req[r]) => (Reached(g) => Reached(req[r]))
          BY <4>2 DEF Reached, Same, Holds
        <4>4. /\ stage \in {"vetManage", "insert", "vetFolder", "writeRow", "place"}
              /\ stage = "writeRow" => req[r].route # "share" /\ req[r].folder = None
          BY <4>1
        <4> QED
          BY <4>1, <4>3, <4>4
      <3>3. CASE VetManage(r)
        <4>1. Admin(req[r].user) /\ req[r].stage = "vetManage" /\ req[r].route \in InTurn
          BY <1>1, <1>5, <3>3, VetManageDoes DEF At
        <4>2. PICK stage \in Stage : Go(r, stage) /\
                      \/ req[r].route = "bulkCollections" /\ stage = "access"
                      \/ req[r].route = "collections" /\ stage = "place"
                      \/ req[r].route = "update" /\ req[r].folder # None /\ stage = "vetFolder"
                      \/ req[r].route \in {"update", "share"} /\ req[r].folder = None /\ stage = "writeRow"
          BY <1>1, <1>5, <3>3, VetManageDoes
        <4>3. \A g \in Handler : g.stage = stage /\ Same(g, req[r]) => (Reached(g) => Reached(req[r]))
          BY <4>1, <4>2 DEF Reached, Same, Holds
        <4>4. /\ stage \in {"access", "place", "vetFolder", "writeRow"}
              /\ stage = "writeRow" => req[r].folder = None
          BY <4>2
        <4>5. member[req[r].user] # None
          BY <4>1 DEF Admin
        <4> QED
          BY <4>2, <4>3, <4>4, <4>5
      <3>4. CASE VetFolder(r)
        <4>1. req[r].folder \in folder /\ req[r].stage = "vetFolder"
          BY <1>1, <1>5, <3>4, VetFolderDoes DEF At
        <4>2. PICK stage \in Stage : Go(r, stage) /\
                      \/ req[r].route = "create" /\ stage = "insert"
                      \/ req[r].route = "update" /\ stage = "writeRow"
                      \/ req[r].route \in {"partial", "move"} /\ stage = "write"
          BY <1>1, <1>5, <3>4, VetFolderDoes
        <4>3. \A g \in Handler : g.stage = stage /\ Same(g, req[r]) => (Reached(g) => Reached(req[r]))
          BY <4>1 DEF Reached, Same, Holds
        <4>4. /\ stage \in {"insert", "writeRow", "write"}
              /\ stage = "writeRow" => req[r].route # "share"
          BY <4>2
        <4> QED
          BY <4>1, <4>2, <4>3, <4>4
      <3> QED
        BY <3>1, <3>2, <3>3, <3>4
    <2>2. stage \notin Whole \cup {"bump", "deleteRows"}
      BY <2>1 DEF Whole
    <2> QED
      BY <1>1, <1>3, <2>1, <2>2, ToldGo
  <1> QED
    BY <1>4, <1>5

LEMMA ToldRefetch ==
    ASSUME NEW r \in Req, Alone(r), Refetch(r)
    PROVE  ToldInv'
  <1>1. Query /\ req[r].stage = "refetch" /\ ~At(r, "idle") /\ (GiveUp(r) \/ Go(r, "touch"))
    BY DEF Refetch, At
  <1>2. Tidy /\ UNCHANGED <<cron, account, untold>>
    BY <1>1, ReadsTidy DEF Query, tables
  <1>3. CASE GiveUp(r)
    BY <1>1, <1>2, <1>3, ToldEnds
  <1>4. CASE Go(r, "touch")
    <2>1. "touch" \in Stage /\ "touch" \notin Whole \cup {"bump", "deleteRows"}
      BY DEF Stage, Whole
    <2>2. \A g \in Handler : g.stage = "touch" => ~Reached(g)
      BY DEF Reached
    <2> QED
      BY <1>1, <1>4, <2>1, <2>2, ToldGo
  <1> QED
    BY <1>1, <1>3, <1>4

LEMMA ToldCrash ==
    ASSUME NEW r \in Req, Alone(r), Crash(r)
    PROVE  ToldInv'
  <1>1. Query /\ ~At(r, "idle") /\ Leave(r, "crash")
    BY DEF Crash
  <1>2. Tidy /\ UNCHANGED <<cron, account, untold>>
    BY <1>1, ReadsTidy DEF Query, tables
  <1> QED
    BY <1>1, <1>2, ToldEnds

LEMMA CoversHideLater ==
    ASSUME VaultTypeOK', NEW h, NEW u \in User, u \notin Audience(h)', NEW c \in Cipher, Covers(h, c)'
    PROVE  ~Reads(u, c)'
  BY DEF Covers, Audience, Reads, Strong

\* A write of the ciphers of ds that leaves everyone their rights.
LEMMA ToldRows ==
    ASSUME NEW r \in Req, Alone(r), UNCHANGED <<cron, account, member, grant, excused>>, NEW g \in Handler, Goto(r, g),
           Addressed(g)', NEW cs, Noting(cs), reverted' = {}, Owing(g),
           Owing(req[r]) => Audience(req[r]) \subseteq Audience(g)', NEW ds, cs \subseteq ds, ds \subseteq Cipher,
           \A c \in Cipher : c \notin ds => cipher'[c] = cipher[c] /\ ColsOf(c)' = ColsOf(c),
           \A u \in User, c \in ds : u \notin Audience(g)' => ~Reads(u, c) /\ ~Reads(u, c)'
    PROVE  ToldInv'
  <1>1. ASSUME NEW u \in User, u \notin Audience(g)'
        PROVE  View(u)' = View(u) /\ \A c \in cs : ~Reads(u, c)'
    BY <1>1, SameElsewhere
  <1> QED
    BY <1>1, ToldWrite

\* The same, when the handler goes on as it was and covers what it writes.
LEMMA ToldCovered ==
    ASSUME NEW r \in Req, Alone(r), UNCHANGED <<cron, account, member, grant, excused>>, NEW g \in Handler, Goto(r, g),
           Addressed(g)', NEW cs, Noting(cs), reverted' = {}, Owing(g), Holds(g, req[r]), g.scopes = req[r].scopes,
           NEW ds, cs \subseteq ds, ds \subseteq Cipher,
           \A c \in Cipher : c \notin ds => cipher'[c] = cipher[c] /\ ColsOf(c)' = ColsOf(c),
           \A c \in ds : Covers(g, c) /\ Covers(g, c)'
    PROVE  ToldInv'
  <1>1. VaultTypeOK /\ VaultTypeOK'
    BY DEF Alone, Stepping, OwnersInv, HandlersInv
  <1>2. Audience(req[r]) = Audience(g) /\ Audience(g)' = Audience(g)
    BY DEF Audience, Holds
  <1>3. ASSUME NEW u \in User, NEW c \in ds, u \notin Audience(g)' PROVE ~Reads(u, c) /\ ~Reads(u, c)'
    BY <1>1, <1>2, <1>3, CoversHide, CoversHideLater
  <1> QED
    BY <1>2, <1>3, ToldRows

LEMMA NotingNothing ==
    ASSUME VaultTypeOK, UNCHANGED <<member, grant, cipher, placed>>, NEW cs, Noting(cs),
           \A c \in cs : c \in Cipher /\ cipher[c] = None
    PROVE  untold' = untold
  <1>1. ASSUME NEW u \in User PROVE View(u)' = View(u) /\ \A c \in cs : ~Reads(u, c)'
    <2>1. \A c \in Cipher : Alike(u, c)
      BY SameRights DEF ColsOf
    <2> QED
      BY <2>1, ViewStays DEF Reads
  <1> QED
    BY <1>1 DEF Noting

LEMMA ToldInsertFolder ==
    ASSUME NEW r \in Req, Alone(r), InsertFolder(r)
    PROVE  ToldInv'
  <1>1. /\ req[r].stage = "insertFolder" /\ ~At(r, "idle") /\ UNCHANGED <<account, member, grant, cipher, placed, cron>>
        /\ Noting({})
    BY DEF InsertFolder, At
  <1>2. /\ req[r] \in Handler /\ Addressed(req[r]) /\ Busy(req[r]) /\ VaultTypeOK /\ req[r].stage # "idle"
        /\ Tidy /\ Staying /\ reverted' = {}
    BY <1>1, AloneHas, ReadsTidy, ReadsStaying, TidyReverted
  <1>3. req[r].route = "import"
    BY <1>1, <1>2 DEF Busy, Follows
  <1>4. CASE GiveUp(r)
    <2>1. untold' = untold
      BY <1>1, <1>2, NotingNothing
    <2> QED
      BY <1>1, <1>2, <1>4, <2>1, ToldEnds
  <1>5. CASE ~GiveUp(r)
    <2>1. Wrote(r, "vetAssignment") /\ UNCHANGED excused /\ "vetAssignment" \in Stage
      BY <1>5 DEF InsertFolder, Stage
    <2>2. PICK g \in Handler : Goto(r, g) /\ g.stage = "vetAssignment" /\ Same(g, req[r]) /\ g.wrote = TRUE
      BY <1>2, <2>1, Writes
    <2>3. Holds(g, req[r]) /\ g.scopes = req[r].scopes /\ g.route = "import"
      BY <1>3, <2>2 DEF Same, Holds
    <2>4. Bound(g)
      BY <1>2, <2>2, <2>3, BoundOn DEF Addressed, Holds, Whole
    <2>5. Aimed(g) \subseteq Aimed(req[r])
      <3>1. ~Reached(g)
        BY <2>3 DEF Reached, InTurn
      <3> QED
        BY <1>1, <2>2, <3>1, AimedOn
    <2>6. \A c \in Aimed(g) : Covers(g, c)'
      BY <1>2, <2>3, <2>5, AimedCovered DEF Holds
    <2>7. Addressed(g)'
      <3>1. IF req[r].org THEN "org" \in req[r].scopes ELSE "personal" \in req[r].scopes
        BY <1>1, <1>2, <1>3 DEF Addressed, Making
      <3>2. IF g.org THEN "org" \in g.scopes ELSE "personal" \in g.scopes
        BY <2>2, <3>1 DEF Same
      <3> QED
        BY <2>2, <2>3, <2>4, <2>6, <3>2 DEF Addressed, Bound
    <2>8. Owing(g)
      BY <2>2, <2>3 DEF Owing
    <2>9. \A c \in Cipher : cipher'[c] = cipher[c] /\ ColsOf(c)' = ColsOf(c)
      BY <1>1 DEF ColsOf
    <2> DEFINE none == {}
    <2>10. none \subseteq Cipher /\ none \subseteq none /\ Noting(none) /\ \A c \in none : Covers(g, c) /\ Covers(g, c)'
      BY <1>1
    <2> HIDE DEF none
    <2> QED
      BY <1>1, <1>2, <2>1, <2>2, <2>3, <2>7, <2>8, <2>9, <2>10, ToldCovered
  <1> QED
    BY <1>4, <1>5

LEMMA StayReverted ==
    ASSUME NEW r \in Req, Alone(r), Staying
    PROVE  reverted' = {}
  BY DEF Alone, ToldInv, Staying, Reverting

LEMMA ToldInsert ==
    ASSUME NEW r \in Req, Alone(r), Insert(r)
    PROVE  ToldInv'
  <1>1. HandlersInv
    BY DEF Alone, Stepping, OwnersInv
  <1>2. req[r].stage = "insert" /\ ~At(r, "idle")
    BY <1>1, InsertDoes DEF At
  <1>3. /\ req[r] \in Handler /\ Addressed(req[r]) /\ Busy(req[r]) /\ VaultTypeOK /\ req[r].stage # "idle"
        /\ Fresh /\ reverted = {}
    BY <1>2, AloneHas
  <1>4. req[r].route \in Making /\ req[r].route \notin InTurn /\ req[r].route \notin {"update", "share"}
    BY <1>2, <1>3 DEF Busy, Follows, Making, InTurn
  <1>5. PICK cs \in SUBSET req[r].todo :
                 /\ cs # {} /\ OnlyCiphers(cs) /\ UNCHANGED placed
                 /\ \/ GiveUp(r) /\ UNCHANGED cipher
                    \/ /\ req[r].user \in account /\ (req[r].folder = None \/ req[r].folder \in folder)
                       /\ cipher' = [c \in Cipher |-> IF c \in cs
                             THEN [creator |-> req[r].user, org |-> req[r].org, folder |-> req[r].folder,
                                   trash |-> "no"] ELSE cipher[c]]
                       /\ UNCHANGED excused
                       /\ \E g \in Handler :
                             /\ Goto(r, g) /\ Holds(g, req[r]) /\ g.c = req[r].c /\ g.org = req[r].org
                             /\ g.cols = req[r].cols /\ g.scopes = req[r].scopes /\ g.wrote = TRUE
                             /\ \/ g.todo = req[r].todo \ cs /\ g.stage = "insert"
                                \/ cs = req[r].todo /\ g.todo = req[r].ids /\ g.stage = "place"
    BY <1>1, InsertDoes
  <1>6. /\ \A c \in cs : c \in Cipher /\ c \in req[r].ids /\ cipher[c] = None
        /\ Noting(cs) /\ UNCHANGED <<account, member, grant, folder, cron, placed>>
    <2>1. cs \subseteq Pending(req[r])
      BY <1>2, <1>4, <1>5 DEF Pending, ToInsert
    <2>2. \A c \in cs : c \in Cipher /\ c \in req[r].ids
      BY <1>3, <1>5 DEF Handler, Busy
    <2> QED
      BY <1>3, <1>5, <2>1, <2>2 DEF Fresh, OnlyCiphers
  <1>7. CASE GiveUp(r) /\ UNCHANGED cipher
    <2>1. untold' = untold /\ Tidy
      BY <1>3, <1>6, <1>7, NotingNothing, ReadsTidy
    <2> QED
      BY <1>2, <1>6, <1>7, <2>1, ToldEnds
  <1>8. CASE ~(GiveUp(r) /\ UNCHANGED cipher)
    <2>1. PICK g \in Handler :
                             /\ Goto(r, g) /\ Holds(g, req[r]) /\ g.c = req[r].c /\ g.org = req[r].org
                             /\ g.cols = req[r].cols /\ g.scopes = req[r].scopes /\ g.wrote = TRUE
                             /\ \/ g.todo = req[r].todo \ cs /\ g.stage = "insert"
                                \/ cs = req[r].todo /\ g.todo = req[r].ids /\ g.stage = "place"
      BY <1>5, <1>8
    <2>2. /\ UNCHANGED excused
          /\ \A c \in Cipher : cipher'[c] = IF c \in cs
                             THEN [creator |-> req[r].user, org |-> req[r].org, folder |-> req[r].folder,
                                   trash |-> "no"] ELSE cipher[c]
      BY <1>5, <1>8
    <2>3. reverted' = {}
      BY <1>3, <1>6, <2>2 DEF Alone, Reverting
    <2>4. Bound(g) /\ Owing(g)
      BY <1>2, <1>3, <1>4, <2>1, BoundOn DEF Addressed, Holds, Owing, Whole
    <2>5. IF g.org THEN "org" \in g.scopes ELSE "personal" \in g.scopes
      BY <1>2, <1>3, <1>4, <2>1 DEF Addressed
    <2>6. ASSUME NEW c \in cs PROVE Covers(g, c) /\ Covers(g, c)'
      <3>1. cipher'[c].org = g.org /\ cipher'[c].creator = g.user
        BY <1>6, <2>1, <2>2 DEF Holds
      <3> QED
        BY <1>6, <2>5, <3>1 DEF Covers
    <2>7. ASSUME NEW c \in Aimed(g) PROVE Covers(g, c)'
      <3>1. CASE c \in cs
        BY <2>6, <3>1
      <3>2. CASE c \notin cs
        <4>1. c \in Cipher /\ c \in Aimed(req[r])
          BY <1>2, <1>4, <2>1, <2>7 DEF Aimed, Handler, Holds
        <4>2. Covers(req[r], c) /\ cipher'[c] = cipher[c]
          BY <1>3, <2>2, <3>2, <4>1 DEF Addressed
        <4> QED
          BY <2>1, <4>1, <4>2, CoversKept DEF Holds
      <3> QED
        BY <3>1, <3>2
    <2>8. Addressed(g)'
      BY <1>4, <2>1, <2>4, <2>5, <2>7 DEF Addressed, Bound, Holds
    <2>9. \A c \in Cipher : c \notin cs => cipher'[c] = cipher[c] /\ ColsOf(c)' = ColsOf(c)
      BY <1>6, <2>2 DEF ColsOf
    <2>10. cs \subseteq Cipher /\ cs \subseteq cs
      BY <1>6
    <2> QED
      BY <1>6, <2>1, <2>2, <2>3, <2>4, <2>6, <2>8, <2>9, <2>10, ToldCovered
  <1> QED
    BY <1>7, <1>8

LEMMA ToldPlace ==
    ASSUME NEW r \in Req, Alone(r), Place(r)
    PROVE  ToldInv'
  <1>1. HandlersInv
    BY DEF Alone, Stepping, OwnersInv
  <1>2. /\ req[r].stage = "place" /\ ~At(r, "idle") /\ Noting({})
        /\ UNCHANGED <<account, member, grant, folder, cron, cipher>>
    BY <1>1, PlaceDoes DEF At, OnlyCiphers
  <1>3. /\ req[r] \in Handler /\ Addressed(req[r]) /\ Busy(req[r]) /\ VaultTypeOK /\ req[r].stage # "idle"
        /\ Staying /\ reverted' = {}
    BY <1>2, AloneHas, ReadsStaying, StayReverted
  <1>4. req[r].route \in Making \cup InTurn
    BY <1>2, <1>3 DEF Busy, Follows
  <1>5. CASE GiveUp(r) /\ UNCHANGED placed
    <2>1. untold' = untold /\ Tidy
      BY <1>2, <1>3, <1>5, NotingNothing, ReadsTidy
    <2> QED
      BY <1>2, <1>5, <2>1, ToldEnds
  <1>6. CASE ~(GiveUp(r) /\ UNCHANGED placed)
    <2>1. PICK g \in Handler, c \in Cipher :
                    /\ c \in IF g.route \in Making THEN req[r].todo ELSE {g.c}
                    /\ g.cols = {} \/ (cipher[c] # None /\ g.cols \subseteq collection)
                    /\ placed' = {p \in placed : p[1] # c} \cup ({c} \X g.cols)
                    /\ Goto(r, g) /\ UNCHANGED excused /\ Holds(g, req[r]) /\ g.todo = req[r].todo \ {c}
                    /\ g.c = req[r].c /\ g.org = req[r].org /\ g.cols = req[r].cols
                    /\ g.scopes = req[r].scopes /\ g.wrote = TRUE
                    /\ g.stage = IF g.route \in Making THEN IF req[r].todo = {c} THEN "touch" ELSE "place"
                                 ELSE IF g.route \in {"update", "share"} THEN "touch" ELSE "bump"
      BY <1>1, <1>6, PlaceDoes
    <2>2. g.stage \in {"touch", "place", "bump"} /\ (g.route \in Making => g.route \notin InTurn /\ g.stage # "bump")
      BY <2>1 DEF Making, InTurn
    <2>3. Bound(g)
      BY <1>2, <1>3, <2>1, <2>2, BoundOn DEF Addressed, Holds, Whole
    <2>4. Owing(g)
      BY <2>1 DEF Owing, Making
    <2>5. c \in Aimed(req[r])
      <3>1. CASE g.route \in Making
        BY <1>2, <1>3, <2>1, <3>1 DEF Aimed, Holds, Busy
      <3>2. CASE g.route \notin Making
        <4>1. Reached(req[r]) /\ c = req[r].c
          BY <1>2, <1>4, <2>1, <3>2 DEF Reached, Holds
        <4> QED
          BY <1>2, <1>3, <4>1 DEF Aimed, Busy
      <3> QED
        BY <3>1, <3>2
    <2>6. Aimed(g) \subseteq Aimed(req[r])
      <3>1. ASSUME NEW d \in Aimed(g) PROVE d \in Aimed(req[r])
        <4>1. d \in req[r].ids /\ (g.route \in Making \/ d = req[r].c)
          BY <1>4, <2>1, <3>1 DEF Aimed, Holds
        <4>2. g.route \notin Making => Reached(req[r])
          BY <1>2, <1>4, <2>1 DEF Reached, Holds
        <4> QED
          BY <1>2, <2>1, <4>1, <4>2 DEF Aimed, Holds
      <3> QED
        BY <3>1
    <2>7. \A d \in Aimed(g) : Covers(g, d)'
      BY <1>3, <2>1, <2>6, AimedCovered DEF Holds
    <2>8. g.route \in Making => IF g.org THEN "org" \in g.scopes ELSE "personal" \in g.scopes
      BY <1>2, <1>3, <2>1 DEF Addressed, Holds
    <2>9. Addressed(g)'
      BY <2>2, <2>3, <2>7, <2>8 DEF Addressed, Bound
    <2>10. Covers(g, c) /\ Covers(g, c)'
      BY <1>2, <1>3, <2>1, <2>5 DEF Addressed, Covers, Holds
    <2>11. \A d \in Cipher : d \notin {c} => cipher'[d] = cipher[d] /\ ColsOf(d)' = ColsOf(d)
      BY <1>2, <2>1 DEF ColsOf
    <2> DEFINE ds == {c}
               none == {}
    <2>12. /\ Noting(none) /\ none \subseteq ds /\ ds \subseteq Cipher
           /\ \A d \in ds : Covers(g, d) /\ Covers(g, d)'
           /\ \A d \in Cipher : d \notin ds => cipher'[d] = cipher[d] /\ ColsOf(d)' = ColsOf(d)
      BY <1>2, <2>10, <2>11
    <2> HIDE DEF ds, none
    <2> QED
      BY <1>2, <1>3, <2>1, <2>4, <2>9, <2>12, ToldCovered
  <1> QED
    BY <1>5, <1>6

\* The folder was there a moment ago.
LEMMA NotRefused ==
    ASSUME NEW r \in Req, Alone(r), WriteRow(r) \/ Write(r)
    PROVE  ~GiveUp(r)
  <1> SUFFICES ASSUME GiveUp(r) PROVE FALSE
    OBVIOUS
  <1>1. ~At(r, "idle") /\ req[r].stage \in {"writeRow", "write"}
    BY DEF WriteRow, Write, At
  <1>2. /\ VaultTypeOK /\ req[r] \in Handler
        /\ req[r].folder # None => req[r].folder \in folder
    BY <1>1, AloneHas DEF Addressed
  <1>3. req'[r].stage = "idle"
    BY <1>2, IdleSound DEF GiveUp, Leave, VaultTypeOK
  <1>4. CASE WriteRow(r)
    <2>1. PICK h \in Handler : h = req[r]
      BY <1>2
    <2>2. PICK stage \in {"touch", "place"}, scope \in {"org", "personal"} :
             Goto(r, [h EXCEPT !.wrote = TRUE, !.stage = stage, !.scopes = {scope}])
      <3>1. Goto(r, [h EXCEPT !.wrote = TRUE, !.stage = IF h.ask = None THEN "touch" ELSE "place",
                              !.scopes = {IF h.org THEN "org" ELSE "personal"}])
        BY <1>2, <1>4, <2>1 DEF WriteRow
      <3> QED
        BY <3>1
    <2>3. [h EXCEPT !.wrote = TRUE, !.stage = stage, !.scopes = {scope}].stage = stage
      BY DEF Handler
    <2> QED
      BY <1>2, <1>3, <2>2, <2>3 DEF Goto, VaultTypeOK
  <1>5. CASE Write(r)
    <2>1. PICK stage \in {"touch", "refetch"} : Wrote(r, stage)
      BY <1>2, <1>5 DEF Write
    <2>2. stage \in Stage
      BY DEF Stage
    <2>3. PICK g \in Handler : Goto(r, g) /\ g.stage = stage
      BY <1>2, <2>1, <2>2, Writes
    <2> QED
      BY <1>2, <1>3, <2>3 DEF Goto, VaultTypeOK
  <1> QED
    BY <1>4, <1>5

LEMMA ToldWriteRow ==
    ASSUME NEW r \in Req, Alone(r), WriteRow(r)
    PROVE  ToldInv'
  <1>1. HandlersInv /\ VaultTypeOK'
    BY DEF Alone, Stepping, OwnersInv, HandlersInv
  <1>2. /\ req[r].stage = "writeRow" /\ ~At(r, "idle") /\ Noting({req[r].c})
        /\ UNCHANGED <<account, member, grant, folder, cron, placed>>
    BY <1>1, WriteRowDoes DEF At, OnlyCiphers
  <1>3. /\ req[r] \in Handler /\ Addressed(req[r]) /\ Busy(req[r]) /\ VaultTypeOK /\ req[r].stage # "idle"
        /\ Steady(req[r]) /\ reverted = {}
    BY <1>2, AloneHas
  <1>4. req[r].route \in {"update", "share"} /\ Reached(req[r]) /\ (req[r].route = "share" => req[r].org)
    BY <1>2, <1>3 DEF Busy, Follows, Reached, InTurn
  <1>5. PICK g \in Handler :
                    /\ g.c \in Cipher
                    /\ cipher[g.c] = None \/ g.folder = None \/ g.folder \in folder
                    /\ cipher' = [cipher EXCEPT ![g.c] = IF cipher[g.c] = None THEN None
                                     ELSE [cipher[g.c] EXCEPT !.org = g.org, !.folder = g.folder]]
                    /\ Goto(r, g) /\ UNCHANGED excused /\ Holds(g, req[r]) /\ g.todo = req[r].todo
                    /\ g.c = req[r].c /\ g.org = req[r].org /\ g.cols = req[r].cols /\ g.wrote = TRUE
                    /\ g.scopes = {IF g.org THEN "org" ELSE "personal"}
                    /\ g.stage = IF g.ask = None THEN "touch" ELSE "place"
    BY <1>1, NotRefused, WriteRowDoes
  <1>6. /\ \A c \in Cipher : c # g.c => cipher'[c] = cipher[c]
        /\ cipher'[g.c] # None => cipher[g.c] # None /\ cipher'[g.c].org = g.org /\ cipher'[g.c].creator = cipher[g.c].creator
    <2>1. ASSUME cipher[g.c] # None
          PROVE  cipher'[g.c].org = g.org /\ cipher'[g.c].creator = cipher[g.c].creator
      <3>1. PICK row \in Row : row = cipher[g.c]
        BY <1>3, <1>5, <2>1 DEF VaultTypeOK
      <3>2. /\ [row EXCEPT !.org = g.org, !.folder = g.folder].org = g.org
            /\ [row EXCEPT !.org = g.org, !.folder = g.folder].creator = row.creator
        BY DEF Row
      <3> QED
        BY <1>3, <1>5, <2>1, <3>1, <3>2 DEF VaultTypeOK
    <2> QED
      BY <1>3, <1>5, <2>1 DEF VaultTypeOK
  <1>7. g.org \in BOOLEAN /\ g.user \in User
    BY <1>3, <1>5 DEF Handler, Busy, Holds
  <1>8. Covers(req[r], g.c)
    <2>1. g.c \in Aimed(req[r])
      BY <1>2, <1>3, <1>4, <1>5 DEF Aimed, Busy
    <2> QED
      BY <1>3, <2>1 DEF Addressed
  <1>9. cipher[g.c] # None => (cipher[g.c].org => g.org) /\ (~cipher[g.c].org => cipher[g.c].creator = g.user)
                              /\ (g.org /\ ~cipher[g.c].org => g.route = "share")
    <2>1. g.route = "update" => Has(g.c, g.org)
      BY <1>2, <1>3, <1>5 DEF Steady, Fetched, Holds
    <2>2. g.route \in {"update", "share"} /\ (g.route = "share" => g.org)
      BY <1>4, <1>5 DEF Holds
    <2>3. cipher[g.c] # None /\ ~cipher[g.c].org => cipher[g.c].creator = g.user
      BY <1>5, <1>8 DEF Covers, Holds
    <2> QED
      BY <2>1, <2>2, <2>3 DEF Has
  <1>10. reverted' = {}
    BY <1>3, <1>6, <1>9 DEF Alone, Reverting
  <1>11. g.stage \in {"touch", "place"}
    BY <1>5
  <1>12. Bound(g) /\ Owing(g)
    <2>1. g.route \in Making \cup Changing
      BY <1>4, <1>5 DEF Holds, Changing, InTurn
    <2>2. g.route = req[r].route /\ g.other = req[r].other
      BY <1>5 DEF Holds
    <2>3. Bound(g)
      BY <1>3, <1>11, <2>1, <2>2, BoundOn DEF Addressed, Whole
    <2> QED
      BY <1>5, <1>11, <2>3 DEF Owing
  <1>13. Covers(g, g.c)'
    BY <1>5, <1>6, <1>7, <1>9 DEF Covers
  <1>14. \A c \in Aimed(g) : c = g.c
    BY <1>4, <1>5 DEF Aimed, Making, InTurn, Holds
  <1>15. Addressed(g)'
    BY <1>4, <1>5, <1>11, <1>12, <1>13, <1>14 DEF Addressed, Bound, Making, Holds
  <1>16. ASSUME NEW u \in User, u \notin Audience(g)' PROVE ~Reads(u, g.c) /\ ~Reads(u, g.c)'
    <2>1. ~Reads(u, g.c)'
      BY <1>1, <1>5, <1>13, <1>16, CoversHideLater
    <2>2. ASSUME Reads(u, g.c) PROVE FALSE
      <3>1. "org" \in g.scopes => member[u] = None
        BY <1>2, <1>16 DEF Audience
      <3>2. CASE cipher[g.c].org
        BY <1>5, <1>9, <2>2, <3>1, <3>2 DEF Reads, Strong
      <3>3. CASE ~cipher[g.c].org
        <4>1. u = g.user /\ cipher[g.c] # None
          BY <1>9, <2>2, <3>3 DEF Reads
        <4>2. g.org
          BY <1>5, <1>7, <1>16, <4>1 DEF Audience
        <4>3. member[g.user] # None
          BY <1>2, <1>3, <1>5, <1>9, <3>3, <4>1, <4>2 DEF Addressed, Holds
        <4> QED
          BY <1>5, <3>1, <4>1, <4>2, <4>3
      <3> QED
        BY <3>2, <3>3
    <2> QED
      BY <2>1, <2>2
  <1>17. ~Owing(req[r])
    BY <1>2, <1>4 DEF Owing
  <1> DEFINE ds == {g.c}
  <1>18. /\ Noting(ds) /\ ds \subseteq ds /\ ds \subseteq Cipher
         /\ \A c \in Cipher : c \notin ds => cipher'[c] = cipher[c] /\ ColsOf(c)' = ColsOf(c)
         /\ \A u \in User, c \in ds : u \notin Audience(g)' => ~Reads(u, c) /\ ~Reads(u, c)'
    BY <1>2, <1>5, <1>6, <1>16 DEF ColsOf
  <1> HIDE DEF ds
  <1> QED
    BY <1>2, <1>5, <1>10, <1>12, <1>15, <1>17, <1>18, ToldRows

\* A write of ciphers a handler has found that it may write, which leaves each whose it is.
LEMMA ToldAimed ==
    ASSUME NEW r \in Req, Alone(r), ~At(r, "idle"), NEW stage \in Stage, Proceed(r, stage) \/ Wrote(r, stage),
           Wrote(r, stage) \/ req[r].wrote, UNCHANGED <<cron, account, member, grant, folder, excused>>, Staying,
           req[r].route \notin {"update", "share"}, req[r].stage # "touch",
           stage \notin Whole \cup {"writeRow", "write", "place", "fetch", "vetAssignment", "vetFolder", "bump", "vetManage"},
           NEW cs, Noting(cs), cs \subseteq Aimed(req[r]),
           \A c \in Cipher : c \notin Aimed(req[r]) => cipher'[c] = cipher[c] /\ ColsOf(c)' = ColsOf(c)
    PROVE  ToldInv'
  <1>1. req[r] \in Handler /\ Addressed(req[r]) /\ VaultTypeOK /\ req[r].stage # "idle" /\ reverted' = {}
    BY AloneHas, StayReverted
  <1>2. PICK g \in Handler : Goto(r, g) /\ g.stage = stage /\ Same(g, req[r]) /\ g.wrote = TRUE
    <2>1. CASE Wrote(r, stage)
      BY <1>1, <2>1, Writes
    <2>2. CASE Proceed(r, stage) /\ req[r].wrote
      <3>1. PICK g \in Handler : Goto(r, g) /\ g.stage = stage /\ Same(g, req[r]) /\ g.wrote = req[r].wrote
        BY <1>1, <2>2, Goes
      <3>2. g.wrote = TRUE
        BY <2>2, <3>1 DEF Handler
      <3> QED
        BY <3>1, <3>2
    <2> QED
      BY <2>1, <2>2
  <1>3. Holds(g, req[r]) /\ g.scopes = req[r].scopes /\ ~Reached(g)
    BY <1>2 DEF Same, Reached
  <1>4. Bound(g)
    BY <1>1, <1>2, <1>3, BoundOn DEF Addressed, Holds
  <1>5. Aimed(g) \subseteq Aimed(req[r])
    BY <1>2, <1>3, AimedOn
  <1>6. \A c \in Aimed(g) : Covers(g, c)'
    BY <1>1, <1>3, <1>5, AimedCovered DEF Holds
  <1>7. Addressed(g)'
    BY <1>1, <1>2, <1>3, <1>4, <1>6 DEF Addressed, Bound, Same, Holds
  <1>8. Owing(g)
    BY <1>2, <1>3 DEF Owing, Holds
  <1>9. Aimed(req[r]) \subseteq Cipher
    BY <1>1 DEF Aimed, Handler
  <1>10. ASSUME NEW c \in Aimed(req[r]) PROVE Covers(g, c) /\ Covers(g, c)'
    <2>1. Covers(req[r], c) /\ c \in Cipher
      BY <1>1, <1>9, <1>10 DEF Addressed
    <2>2. Covers(g, c)
      BY <1>3, <2>1 DEF Covers, Holds
    <2> QED
      BY <1>3, <2>1, <2>2, CoversKept DEF Staying, Holds
  <1> QED
    BY <1>1, <1>2, <1>3, <1>7, <1>8, <1>9, <1>10, ToldCovered

LEMMA ToldWriteAll ==
    ASSUME NEW r \in Req, Alone(r), Write(r)
    PROVE  ToldInv'
  <1> DEFINE cs == {c \in req[r].ids : cipher[c] # None /\ (req[r].route = "move" => cipher[c].creator = req[r].user)}
  <1>1. HandlersInv
    BY DEF Alone, Stepping, OwnersInv
  <1>2. /\ req[r].stage = "write" /\ ~At(r, "idle") /\ Noting(cs)
        /\ UNCHANGED <<account, member, grant, folder, cron, placed>>
    BY <1>1, WriteDoes DEF At, OnlyCiphers
  <1>3. req[r] \in Handler /\ Busy(req[r]) /\ VaultTypeOK
    BY <1>2, AloneHas
  <1>4. /\ cipher' = [c \in Cipher |-> IF c \in cs THEN Marked(cipher[c], req[r]) ELSE cipher[c]]
        /\ UNCHANGED excused
    BY <1>1, NotRefused, WriteDoes
  <1>5. PICK stage \in {"touch", "refetch"} : Wrote(r, stage)
    BY <1>3, NotRefused DEF Write
  <1>6. req[r].route \in Marking /\ req[r].todo = {}
    BY <1>2, <1>3 DEF Busy, Follows, Through
  <1>7. cs \subseteq Aimed(req[r])
    BY <1>2, <1>6 DEF Aimed, Marking, InTurn
  <1>8. \A c \in Cipher : c \notin Aimed(req[r]) => cipher'[c] = cipher[c] /\ ColsOf(c)' = ColsOf(c)
    BY <1>2, <1>4, <1>7 DEF ColsOf
  <1>9. Staying
    <2>1. ASSUME NEW c \in Cipher, c \in cs
          PROVE  cipher'[c].org = cipher[c].org /\ cipher'[c].creator = cipher[c].creator /\ cipher[c] # None
      <3>1. PICK row \in Row : row = cipher[c]
        BY <1>3, <2>1 DEF VaultTypeOK
      <3>2. PICK h \in Handler : h = req[r]
        BY <1>3
      <3>3. Marked(row, h).org = row.org /\ Marked(row, h).creator = row.creator
        BY MarkedOrg, MarkedFields
      <3> QED
        BY <1>4, <2>1, <3>1, <3>2, <3>3
    <2>2. ASSUME NEW c \in Cipher, c \notin cs PROVE cipher'[c] = cipher[c]
      BY <1>4, <2>2
    <2> HIDE DEF cs
    <2> QED
      BY <2>1, <2>2 DEF Staying
  <1> HIDE DEF cs
  <1>10. /\ stage \in Stage
         /\ stage \notin Whole \cup {"writeRow", "write", "place", "fetch", "vetAssignment", "vetFolder", "bump", "vetManage"}
         /\ req[r].route \notin {"update", "share"} /\ req[r].stage # "touch"
    BY <1>2, <1>6 DEF Stage, Whole, Marking
  <1> QED
    BY <1>2, <1>4, <1>5, <1>7, <1>8, <1>9, <1>10, ToldAimed

LEMMA ToldBump ==
    ASSUME NEW r \in Req, Alone(r), Bump(r)
    PROVE  ToldInv'
  <1>1. /\ req[r].stage = "bump" /\ ~At(r, "idle") /\ Noting({req[r].c})
        /\ UNCHANGED <<account, member, grant, folder, cron, placed, cipher, excused>>
        /\ \E stage \in {"refetch", "access", "touch"} : Proceed(r, stage)
    BY DEF Bump, At, OnlyCiphers, Go
  <1>2. req[r] \in Handler /\ Addressed(req[r]) /\ Busy(req[r]) /\ Staying
    BY <1>1, AloneHas, ReadsStaying
  <1>3. req[r].route \in {"collections", "bulkCollections"} /\ req[r].wrote
    BY <1>1, <1>2 DEF Busy, Follows, Addressed, Bound, Half
  <1>4. req[r].c \in Aimed(req[r])
    <2>1. Reached(req[r])
      BY <1>1, <1>3 DEF Reached, InTurn
    <2> QED
      BY <1>1, <1>2, <2>1 DEF Busy, Aimed
  <1>5. PICK stage \in {"refetch", "access", "touch"} : Proceed(r, stage)
    BY <1>1
  <1>6. /\ stage \in Stage
        /\ stage \notin Whole \cup {"writeRow", "write", "place", "fetch", "vetAssignment", "vetFolder", "bump", "vetManage"}
        /\ req[r].route \notin {"update", "share"} /\ req[r].stage # "touch"
    BY <1>1, <1>3 DEF Stage, Whole
  <1> DEFINE cs == {req[r].c}
  <1>7. /\ Noting(cs) /\ cs \subseteq Aimed(req[r])
        /\ \A c \in Cipher : c \notin Aimed(req[r]) => cipher'[c] = cipher[c] /\ ColsOf(c)' = ColsOf(c)
    BY <1>1, <1>4 DEF ColsOf
  <1> HIDE DEF cs
  <1> QED
    BY <1>1, <1>2, <1>3, <1>5, <1>6, <1>7, ToldAimed

LEMMA ToldHardDelete ==
    ASSUME NEW r \in Req, Alone(r), DropPlaced(r) \/ DeleteRows(r)
    PROVE  ToldInv'
  <1>1. /\ req[r].stage \in {"dropPlaced", "deleteRows"} /\ ~At(r, "idle") /\ Noting({})
        /\ UNCHANGED <<account, member, grant, folder, cron, excused>>
    BY DEF DropPlaced, DeleteRows, At, OnlyCiphers
  <1>2. req[r] \in Handler /\ Addressed(req[r]) /\ Busy(req[r])
    BY <1>1, AloneHas
  <1>3. req[r].route = "hardDelete" /\ req[r].todo = {}
    BY <1>1, <1>2 DEF Busy, Follows, Through
  <1>4. req[r].ids \subseteq Aimed(req[r])
    BY <1>1, <1>3 DEF Aimed, InTurn
  <1>5. PICK stage \in {"deleteRows", "touch"} : Wrote(r, stage) \/ (Proceed(r, stage) /\ req[r].wrote)
    BY <1>1, <1>2 DEF DropPlaced, DeleteRows, At, Addressed, Bound, Half
  <1>6. /\ stage \in Stage
        /\ stage \notin Whole \cup {"writeRow", "write", "place", "fetch", "vetAssignment", "vetFolder", "bump", "vetManage"}
        /\ req[r].route \notin {"update", "share"} /\ req[r].stage # "touch"
    BY <1>1, <1>3, <1>5 DEF Stage, Whole
  <1>7. /\ placed' = {p \in placed : p[1] \notin req[r].ids}
        /\ \A c \in Cipher : cipher'[c] = cipher[c] \/ (c \in req[r].ids /\ cipher'[c] = None)
    BY DEF DropPlaced, DeleteRows, WithoutCiphers
  <1>8. Staying
    BY <1>7 DEF Staying
  <1>9. \A c \in Cipher : c \notin Aimed(req[r]) => cipher'[c] = cipher[c] /\ ColsOf(c)' = ColsOf(c)
    BY <1>4, <1>7 DEF ColsOf
  <1> DEFINE none == {}
  <1>10. Noting(none) /\ none \subseteq Aimed(req[r])
    BY <1>1
  <1> HIDE DEF none
  <1> QED
    BY <1>1, <1>3, <1>5, <1>6, <1>8, <1>9, <1>10, ToldAimed

\* A write of a route that names no cipher, and on to the next stage.
LEMMA ToldWhole ==
    ASSUME NEW r \in Req, Alone(r), ~At(r, "idle"), req[r].route \in Wholly, req[r].stage # "touch",
           NEW stage \in Stage, Wrote(r, stage) \/ (Proceed(r, stage) /\ req[r].wrote),
           UNCHANGED <<cron, account, excused>>, Noting({}), Staying, stage \notin {"writeRow", "write"},
           \A g \in Handler : g.stage = stage /\ Same(g, req[r]) /\ g.wrote => Bound(g) /\ ~Reached(g),
           NEW h \in Handler, h = req[r], Audience(h) \subseteq Audience(h)',
           \A u \in User : u \notin Audience(h)' => View(u)' = View(u)
    PROVE  ToldInv'
  <1>1. req[r] \in Handler /\ Addressed(req[r]) /\ VaultTypeOK /\ req[r].stage # "idle" /\ reverted' = {}
    BY AloneHas, StayReverted
  <1>2. PICK g \in Handler : Goto(r, g) /\ g.stage = stage /\ Same(g, req[r]) /\ g.wrote = TRUE
    <2>1. CASE Wrote(r, stage)
      BY <1>1, <2>1, Writes
    <2>2. CASE Proceed(r, stage) /\ req[r].wrote
      <3>1. PICK g \in Handler : Goto(r, g) /\ g.stage = stage /\ Same(g, req[r]) /\ g.wrote = req[r].wrote
        BY <1>1, <2>2, Goes
      <3>2. g.wrote = TRUE
        BY <2>2, <3>1 DEF Handler
      <3> QED
        BY <3>1, <3>2
    <2> QED
      BY <2>1, <2>2
  <1>3. Holds(g, req[r]) /\ g.scopes = req[r].scopes /\ ~Reached(g) /\ Bound(g)
    BY <1>2 DEF Same
  <1>4. Aimed(g) \subseteq Aimed(req[r])
    BY <1>2, <1>3, AimedOn
  <1>5. \A c \in Aimed(g) : Covers(g, c)'
    BY <1>1, <1>3, <1>4, AimedCovered DEF Holds
  <1>6. g.route \notin Making /\ g.route \notin {"update", "share"}
    BY <1>3 DEF Wholly, Personally, Making, Holds
  <1>7. Addressed(g)' /\ Owing(g)
    BY <1>2, <1>3, <1>5, <1>6 DEF Addressed, Bound, Owing
  <1>8. Audience(h) = Audience(g) /\ Audience(h)' = Audience(g)'
    BY <1>3 DEF Audience, Holds
  <1> DEFINE none == {}
  <1>9. Noting(none) /\ \A u \in User : u \notin Audience(g)' => View(u)' = View(u) /\ \A c \in none : ~Reads(u, c)'
    BY <1>8
  <1> HIDE DEF none
  <1> QED
    BY <1>1, <1>2, <1>7, <1>8, <1>9, ToldWrite

LEMMA ToldDeletePersonal ==
    ASSUME NEW r \in Req, Alone(r), DeletePersonal(r)
    PROVE  ToldInv'
  <1>1. /\ req[r].stage = "deletePersonal" /\ ~At(r, "idle") /\ Noting({}) /\ WithoutCiphers(Personal(req[r].user))
        /\ UNCHANGED <<account, member, grant, folder, cron, excused>>
    BY DEF DeletePersonal, At, OnlyCiphers
  <1>2. PICK h \in Handler : h = req[r] /\ Addressed(h) /\ h.stage = "deletePersonal"
    BY <1>1, AloneHas
  <1>3. /\ h.route \in {"purgeVault", "deleteAccount"} /\ h.scopes = {"personal"} /\ h.other = None
        /\ h.route \in Wholly
    BY <1>2 DEF Addressed, Bound, Personally, Wholly
  <1>4. PICK stage \in {"dropFolders", "accountGrants"} :
           Wrote(r, stage) /\ (stage = "accountGrants" => h.route = "deleteAccount")
    BY <1>2, <1>3 DEF DeletePersonal
  <1>5. stage \in Stage /\ stage \notin {"writeRow", "write"}
    BY DEF Stage
  <1>6. ASSUME NEW g \in Handler, g.stage = stage, Same(g, h), g.wrote PROVE Bound(g) /\ ~Reached(g)
    <2>1. ~Reached(g)
      BY <1>6 DEF Reached
    <2>2. g.route = h.route /\ g.scopes = h.scopes /\ g.other = h.other
      BY <1>6 DEF Same, Holds
    <2> QED
      BY <1>3, <1>4, <1>6, <2>1, <2>2 DEF Bound
  <1>7. Staying
    BY <1>1 DEF WithoutCiphers, Staying
  <1>8. Audience(h) \subseteq Audience(h)'
    BY <1>1 DEF Audience
  <1>9. ASSUME NEW u \in User, u \notin Audience(h)' PROVE View(u)' = View(u)
    <2> DEFINE cs == Personal(h.user)
    <2>1. u # h.user
      BY <1>3, <1>9 DEF Audience
    <2>2. \A c \in Cipher : c \in cs => ~Reads(u, c) /\ ~Reads(u, c)'
      BY <1>1, <1>2, <2>1 DEF Personal, Reads, WithoutCiphers
    <2>3. \A c \in Cipher : c \notin cs => cipher'[c] = cipher[c] /\ ColsOf(c)' = ColsOf(c)
      BY <1>1, <1>2 DEF WithoutCiphers, ColsOf
    <2> HIDE DEF cs
    <2> QED
      BY <1>1, <2>2, <2>3, SameElsewhere
  <1>10. req[r].route \in Wholly /\ req[r].stage # "touch"
    BY <1>1, <1>2, <1>3
  <1>11. \A g \in Handler : g.stage = stage /\ Same(g, req[r]) /\ g.wrote => Bound(g) /\ ~Reached(g)
    BY <1>2, <1>6
  <1> QED
    BY <1>1, <1>2, <1>4, <1>5, <1>7, <1>8, <1>9, <1>10, <1>11, ToldWhole

\* What lies in the folders of v is personal, and of v.
LEMMA InOwnFolder ==
    ASSUME VaultTypeOK, OneAtATime, OneOwner, FolderOfCreator, reverted = {}, NEW v \in User, NEW fs \in SUBSET Folder,
           \A f \in fs : FolderOwner[f] = v, NEW c \in Cipher, cipher[c] # None, cipher[c].folder \in fs
    PROVE  ~cipher[c].org /\ cipher[c].creator = v
  <1>1. cipher[c].folder # None
    BY VaultNoneAssumption
  <1>2. cipher[c].org \in BOOLEAN
    BY DEF VaultTypeOK, Row
  <1> QED
    BY <1>1, <1>2 DEF OneOwner, FolderOfCreator

\* It is shown to none but v, in a folder or in none.
LEMMA UnfiledViews ==
    ASSUME VaultTypeOK, OneAtATime, OneOwner, FolderOfCreator, reverted = {}, NEW v \in User, NEW fs \in SUBSET Folder,
           \A f \in fs : FolderOwner[f] = v, WithoutFolders(fs), UNCHANGED <<placed, member, grant>>
    PROVE  Staying /\ \A u \in User : u # v => View(u)' = View(u)
  <1> DEFINE cs == {c \in Cipher : cipher[c] # None /\ cipher[c].folder \in fs}
  <1>1. ASSUME NEW c \in Cipher, c \in cs
        PROVE  /\ cipher'[c].org = cipher[c].org /\ cipher'[c].creator = cipher[c].creator /\ cipher[c] # None
               /\ ~cipher[c].org /\ cipher[c].creator = v
    <2>1. PICK row \in Row : row = cipher[c]
      BY <1>1 DEF VaultTypeOK
    <2>2. [row EXCEPT !.folder = None].org = row.org /\ [row EXCEPT !.folder = None].creator = row.creator
      BY DEF Row
    <2>3. cipher'[c] = [row EXCEPT !.folder = None]
      BY <1>1, <2>1 DEF WithoutFolders, Unfiled
    <2> QED
      BY <1>1, <2>1, <2>2, <2>3, InOwnFolder
  <1>2. ASSUME NEW c \in Cipher, c \notin cs PROVE cipher'[c] = cipher[c] /\ ColsOf(c)' = ColsOf(c)
    BY <1>2 DEF WithoutFolders, Unfiled, ColsOf
  <1> HIDE DEF cs
  <1>3. Staying
    BY <1>1, <1>2 DEF Staying
  <1>4. ASSUME NEW u \in User, u # v PROVE View(u)' = View(u)
    <2>1. \A c \in Cipher : c \in cs => ~Reads(u, c) /\ ~Reads(u, c)'
      BY <1>1, <1>4 DEF Reads
    <2> QED
      BY <1>2, <2>1, SameElsewhere
  <1> QED
    BY <1>3, <1>4

LEMMA ToldDropFolders ==
    ASSUME NEW r \in Req, Alone(r), DropFolders(r)
    PROVE  ToldInv'
  <1>1. /\ req[r].stage = "dropFolders" /\ ~At(r, "idle") /\ Noting({})
        /\ WithoutFolders({f \in folder : FolderOwner[f] = req[r].user})
        /\ UNCHANGED <<account, member, grant, cron, placed, excused>>
    BY DEF DropFolders, At
  <1>2. PICK h \in Handler : h = req[r] /\ Addressed(h) /\ Busy(h) /\ h.stage = "dropFolders"
    BY <1>1, AloneHas
  <1>3. /\ h.route \in {"purgeVault", "deleteAccount"} /\ h.scopes = {"personal"} /\ h.other = None
        /\ h.route \in Wholly /\ h.wrote
    BY <1>2 DEF Addressed, Bound, Personally, Wholly, Half
  <1>4. PICK stage \in {"touch", "account"} :
           Proceed(r, stage) /\ (stage = "account" => h.route = "deleteAccount")
    BY <1>2, <1>3 DEF DropFolders
  <1>5. stage \in Stage /\ stage \notin {"writeRow", "write"}
    BY DEF Stage
  <1>6. ASSUME NEW g \in Handler, g.stage = stage, Same(g, h), g.wrote PROVE Bound(g) /\ ~Reached(g)
    <2>1. ~Reached(g)
      BY <1>6 DEF Reached
    <2>2. g.route = h.route /\ g.scopes = h.scopes /\ g.other = h.other
      BY <1>6 DEF Same, Holds
    <2> QED
      BY <1>3, <1>4, <1>6, <2>1, <2>2 DEF Bound
  <1>7. Staying /\ \A u \in User : u # h.user => View(u)' = View(u)
    <2> DEFINE fs == {f \in folder : FolderOwner[f] = h.user}
    <2>1. fs \in SUBSET Folder /\ \A f \in fs : FolderOwner[f] = h.user
      BY AloneHas, <1>1 DEF VaultTypeOK
    <2>2. h.user \in User /\ WithoutFolders(fs)
      BY <1>1, <1>2 DEF Busy
    <2>3. VaultTypeOK /\ OneAtATime /\ OneOwner /\ FolderOfCreator /\ reverted = {}
      BY <1>1, AloneHas DEF Alone
    <2> HIDE DEF fs
    <2> QED
      BY <1>1, <2>1, <2>2, <2>3, UnfiledViews
  <1>8. Audience(h) \subseteq Audience(h)'
    BY <1>1 DEF Audience
  <1>9. ASSUME NEW u \in User, u \notin Audience(h)' PROVE View(u)' = View(u)
    BY <1>3, <1>7, <1>9 DEF Audience
  <1>10. req[r].route \in Wholly /\ req[r].stage # "touch" /\ req[r].wrote
    BY <1>1, <1>2, <1>3
  <1>11. \A g \in Handler : g.stage = stage /\ Same(g, req[r]) /\ g.wrote => Bound(g) /\ ~Reached(g)
    BY <1>2, <1>6
  <1> QED
    BY <1>1, <1>2, <1>4, <1>5, <1>7, <1>8, <1>9, <1>10, <1>11, ToldWhole

LEMMA ToldDropUserGrants ==
    ASSUME NEW r \in Req, Alone(r), DropUserGrants(r)
    PROVE  ToldInv'
  <1>1. /\ req[r].stage \in {"accountGrants", "memberGrants"} /\ ~At(r, "idle") /\ Noting({})
        /\ WithoutGrants(IF req[r].other = None THEN req[r].user ELSE req[r].other)
        /\ UNCHANGED <<account, member, folder, cipher, placed, cron, excused>>
    BY DEF DropUserGrants, At
  <1>2. PICK h \in Handler : h = req[r] /\ Addressed(h) /\ h.stage \in {"accountGrants", "memberGrants"}
    BY <1>1, AloneHas
  <1>3. h.route \in Wholly /\ h.stage # "touch"
    BY <1>2 DEF Addressed, Bound, Personally, Wholly
  <1>4. PICK v : /\ v = IF h.other = None THEN h.user ELSE h.other
                 /\ \A u \in User : u \notin Audience(h)' => u # v
    <2>1. CASE h.stage = "accountGrants"
      <3>1. h.scopes = {"personal"} /\ h.other = None
        BY <1>2, <2>1 DEF Addressed, Bound, Personally
      <3> QED
        BY <3>1 DEF Audience
    <2>2. CASE h.stage = "memberGrants"
      <3>1. h.scopes = {"org"} /\ h.other \in User
        BY <1>2, <2>2 DEF Addressed, Bound
      <3>2. h.other # None
        BY <3>1, VaultNoneAssumption
      <3> QED
        BY <3>1, <3>2 DEF Audience
    <2> QED
      BY <1>2, <2>1, <2>2
  <1>5. PICK stage \in {"accountMember", "memberRow"} :
           Wrote(r, stage) /\ h.route = IF stage = "accountMember" THEN "deleteAccount" ELSE "deleteMember"
    <2>1. CASE h.stage = "accountGrants"
      <3>1. h.route = "deleteAccount" /\ h.other = None
        BY <1>2, <2>1 DEF Addressed, Bound, Personally
      <3> QED
        BY <1>2, <3>1 DEF DropUserGrants
    <2>2. CASE h.stage = "memberGrants"
      <3>1. h.route = "deleteMember" /\ h.other \in User
        BY <1>2, <2>2 DEF Addressed, Bound
      <3>2. h.other # None
        BY <3>1, VaultNoneAssumption
      <3> QED
        BY <1>2, <3>1, <3>2 DEF DropUserGrants
    <2> QED
      BY <1>2, <2>1, <2>2
  <1>6. stage \in Stage /\ stage \notin {"writeRow", "write"}
    BY DEF Stage
  <1>7. ASSUME NEW g \in Handler, g.stage = stage, Same(g, h), g.wrote PROVE Bound(g) /\ ~Reached(g)
    <2>1. ~Reached(g)
      BY <1>7 DEF Reached
    <2>2. g.route = h.route /\ g.scopes = h.scopes /\ g.other = h.other
      BY <1>7 DEF Same, Holds
    <2> QED
      BY <1>2, <1>5, <1>7, <2>1, <2>2 DEF Addressed, Bound
  <1>8. Staying /\ Audience(h) \subseteq Audience(h)'
    BY <1>1, ReadsStaying DEF Audience
  <1>9. ASSUME NEW u \in User, u \notin Audience(h)' PROVE View(u)' = View(u)
    <2>1. u # v /\ grant' = {t \in grant : t[1] # v}
      BY <1>1, <1>2, <1>4, <1>9 DEF WithoutGrants
    <2>2. \A col \in Collection, t \in {"readOnly", "write"} : <<u, col, t>> \in grant' <=> <<u, col, t>> \in grant
      BY <2>1
    <2>3. \A c \in Cipher : Alike(u, c)
      BY <1>1, <2>2, SameRights DEF ColsOf
    <2> QED
      BY <2>3, ViewStays
  <1>10. req[r].route \in Wholly /\ req[r].stage # "touch"
    BY <1>2, <1>3
  <1>11. \A g \in Handler : g.stage = stage /\ Same(g, req[r]) /\ g.wrote => Bound(g) /\ ~Reached(g)
    BY <1>2, <1>7
  <1> QED
    BY <1>1, <1>2, <1>5, <1>6, <1>8, <1>9, <1>10, <1>11, ToldWhole

LEMMA ToldDropMember ==
    ASSUME NEW r \in Req, Alone(r), DropMember(r)
    PROVE  ToldInv'
  <1>1. /\ req[r].stage \in {"accountMember", "memberRow"} /\ ~At(r, "idle") /\ Noting({})
        /\ member' = [member EXCEPT ![IF req[r].other = None THEN req[r].user ELSE req[r].other] = None]
        /\ UNCHANGED <<account, grant, folder, cipher, placed, cron, excused>>
    BY DEF DropMember, At
  <1>2. PICK h \in Handler : /\ h = req[r] /\ Addressed(h) /\ h.stage \in {"accountMember", "memberRow"}
                             /\ member \in [User -> Member \cup {None}]
    BY <1>1, AloneHas DEF VaultTypeOK
  <1>3. h.route \in Wholly /\ h.stage # "touch" /\ h.wrote
    BY <1>2 DEF Addressed, Bound, Personally, Wholly, Half
  <1>4. PICK v : /\ v = IF h.other = None THEN h.user ELSE h.other
                 /\ \A u \in User : u \notin Audience(h)' => u # v
                 /\ Audience(h) \subseteq Audience(h)'
    <2> DEFINE v == IF h.other = None THEN h.user ELSE h.other
    <2>1. \A u \in User : u # v => member'[u] = member[u]
      BY <1>1, <1>2
    <2>2. CASE h.stage = "accountMember"
      <3>1. h.scopes = {"personal"} /\ h.other = None
        BY <1>2, <2>2 DEF Addressed, Bound, Personally
      <3> QED
        BY <3>1 DEF Audience
    <2>3. CASE h.stage = "memberRow"
      <3>1. h.scopes = {"org"} /\ h.other \in User
        BY <1>2, <2>3 DEF Addressed, Bound
      <3>2. v = h.other
        BY <3>1, VaultNoneAssumption
      <3> HIDE DEF v
      <3>3. \A u \in User : u \in Audience(h) => u \in Audience(h)'
        BY <2>1, <3>1, <3>2 DEF Audience
      <3>4. Audience(h) \subseteq Audience(h)'
        BY <3>3 DEF Audience
      <3>5. v \in Audience(h)' /\ v = IF h.other = None THEN h.user ELSE h.other
        BY <3>1, <3>2 DEF Audience, v
      <3> QED
        BY <3>4, <3>5
    <2> QED
      BY <1>2, <2>2, <2>3
  <1>5. PICK stage \in {"dropFolders", "touch"} :
           Proceed(r, stage) /\ (stage = "dropFolders" => h.route = "deleteAccount")
    <2>1. CASE h.stage = "accountMember"
      <3>1. h.route = "deleteAccount"
        BY <1>2, <2>1 DEF Addressed, Bound, Personally
      <3> QED
        BY <1>2, <3>1 DEF DropMember
    <2>2. CASE h.stage = "memberRow"
      <3>1. h.other \in User
        BY <1>2, <2>2 DEF Addressed, Bound
      <3>2. h.other # None
        BY <3>1, VaultNoneAssumption
      <3> QED
        BY <1>2, <3>2 DEF DropMember
    <2> QED
      BY <1>2, <2>1, <2>2
  <1>6. stage \in Stage /\ stage \notin {"writeRow", "write"}
    BY DEF Stage
  <1>7. ASSUME NEW g \in Handler, g.stage = stage, Same(g, h), g.wrote PROVE Bound(g) /\ ~Reached(g)
    <2>1. ~Reached(g)
      BY <1>7 DEF Reached
    <2>2. g.route = h.route /\ g.scopes = h.scopes /\ g.other = h.other
      BY <1>7 DEF Same, Holds
    <2> QED
      BY <1>2, <1>5, <1>7, <2>1, <2>2 DEF Addressed, Bound
  <1>8. Staying
    BY <1>1, ReadsStaying
  <1>9. ASSUME NEW u \in User, u \notin Audience(h)' PROVE View(u)' = View(u)
    <2>1. member'[u] = member[u]
      BY <1>1, <1>2, <1>4, <1>9
    <2>2. \A c \in Cipher : Alike(u, c)
      BY <1>1, <2>1, SameRights DEF ColsOf
    <2> QED
      BY <2>2, ViewStays
  <1>10. req[r].route \in Wholly /\ req[r].stage # "touch" /\ req[r].wrote
    BY <1>2, <1>3
  <1>11. \A g \in Handler : g.stage = stage /\ Same(g, req[r]) /\ g.wrote => Bound(g) /\ ~Reached(g)
    BY <1>2, <1>7
  <1> QED
    BY <1>1, <1>2, <1>4, <1>5, <1>6, <1>8, <1>9, <1>10, <1>11, ToldWhole

LEMMA ToldDeleteCollection ==
    ASSUME NEW r \in Req, Alone(r), DeleteCollection(r)
    PROVE  ToldInv'
  <1>1. /\ req[r].stage \in {"colPlaced", "colGrants", "colRow"} /\ ~At(r, "idle") /\ Noting({})
        /\ placed' \subseteq placed
        /\ UNCHANGED <<account, member, folder, cipher, cron, excused>>
    BY DEF DeleteCollection, At
  <1>2. PICK h \in Handler : h = req[r] /\ Addressed(h) /\ h.stage \in {"colPlaced", "colGrants", "colRow"}
    BY <1>1, AloneHas
  <1>3. h.route = "deleteCollection" /\ h.route \in Wholly /\ h.scopes = {"org"}
    BY <1>2 DEF Addressed, Bound, Wholly
  <1>4. PICK stage \in {"colGrants", "colRow", "touch"} : Wrote(r, stage)
    BY DEF DeleteCollection
  <1>5. stage \in Stage /\ stage \notin {"writeRow", "write"}
    BY DEF Stage
  <1>6. ASSUME NEW g \in Handler, g.stage = stage, Same(g, h), g.wrote PROVE Bound(g) /\ ~Reached(g)
    <2>1. ~Reached(g)
      BY <1>6 DEF Reached
    <2>2. g.route = h.route /\ g.scopes = h.scopes /\ g.other = h.other
      BY <1>6 DEF Same, Holds
    <2> QED
      BY <1>2, <1>3, <1>4, <1>6, <2>1, <2>2 DEF Addressed, Bound
  <1>7. Staying /\ Audience(h) \subseteq Audience(h)'
    BY <1>1, ReadsStaying DEF Audience
  <1>8. ASSUME NEW u \in User, u \notin Audience(h)' PROVE View(u)' = View(u)
    <2>1. member[u] = None /\ member'[u] = None
      BY <1>1, <1>3, <1>8 DEF Audience
    <2>2. ASSUME NEW c \in Cipher PROVE Alike(u, c)
      <3>1. CASE cipher[c] # None /\ ~cipher[c].org
        <4>1. ColsOf(c) = {} /\ ColsOf(c)' = {}
          BY <1>1, <3>1, AloneHas DEF Alone, OneOwner, ColsOf
        <4> QED
          BY <1>1, <3>1, <4>1, SameRights
      <3>2. CASE cipher[c] = None \/ cipher[c].org
        BY <1>1, <2>1, <3>2 DEF Alike, Reads, Strong
      <3> QED
        BY <3>1, <3>2
    <2> QED
      BY <2>2, ViewStays
  <1>9. req[r].route \in Wholly /\ req[r].stage # "touch"
    BY <1>1, <1>2, <1>3
  <1>10. \A g \in Handler : g.stage = stage /\ Same(g, req[r]) /\ g.wrote => Bound(g) /\ ~Reached(g)
    BY <1>2, <1>6
  <1> QED
    BY <1>1, <1>2, <1>4, <1>5, <1>7, <1>8, <1>9, <1>10, ToldWhole

\* Whoever is not told of the account that goes, is not shown another or is excused.
LEMMA ToldDeleteUser ==
    ASSUME NEW r \in Req, Alone(r), DeleteUser(r)
    PROVE  ToldInv'
  <1>1. /\ req[r].stage = "account" /\ ~At(r, "idle") /\ Noting({}) /\ UNCHANGED cron /\ Goto(r, Idle)
        /\ account' = account \ {req[r].user} /\ placed' \subseteq placed
        /\ excused' = IF \E v \in account' : View(v)' # View(v) THEN excused \cup {"cascade"} ELSE excused
    BY DEF DeleteUser, At, Goto
  <1>2. req[r] \in Handler /\ Addressed(req[r]) /\ VaultTypeOK
    BY <1>1, AloneHas
  <1>3. req[r].scopes = {"personal"}
    BY <1>1, <1>2 DEF Addressed, Bound, Personally
  <1>4. reverted' = {}
    <2>1. \A c \in Cipher : cipher'[c] = None \/ cipher'[c] = Unfiled(c, {f \in folder : FolderOwner[f] = req[r].user})
      BY DEF DeleteUser
    <2>2. Tidy
      BY <1>1, <1>2, <2>1, UnfiledTidy
    <2> QED
      BY <2>2, TidyReverted
  <1>5. ASSUME excused' = {}, NEW u \in untold' \cap account'
        PROVE  excused = {} /\ u \in untold \cap account /\ u \notin Audience(req[r])
    <2>1. excused = {} /\ View(u)' = View(u)
      BY <1>1, <1>5
    <2>2. u \in untold
      BY <1>1, <1>5, <2>1 DEF Noting
    <2>3. u \in account /\ u # req[r].user
      BY <1>1, <1>5
    <2> QED
      BY <1>3, <2>1, <2>2, <2>3 DEF Audience
  <1>6. excused' = {} => excused = {}
    BY <1>1
  <1> QED
    BY <1>1, <1>4, <1>5, <1>6, IdleSound, IdleAddressed, ToldStep

LEMMA ToldTouch ==
    ASSUME NEW r \in Req, Alone(r), Touch(r)
    PROVE  ToldInv'
  <1>1. /\ req[r].stage = "touch" /\ ~At(r, "idle")
        /\ UNCHANGED <<account, member, cipher, placed, cron, excused>> /\ untold' = untold \ Told(req[r])
    BY AloneHas, TouchDoes DEF At, tables, Alone, Stepping, OwnersInv
  <1>2. PICK h \in Handler : h = req[r] /\ Addressed(h) /\ h.stage = "touch"
    BY <1>1, AloneHas
  <1>3. reverted' = {}
    BY <1>1, ReadsTidy, TidyReverted
  <1> DEFINE left == IF "personal" \in h.scopes THEN h.scopes \ {"personal"} ELSE {}
  <1>4. Audience(h) = Audience(h)'
    BY <1>1 DEF Audience
  <1>5. h.scopes \subseteq {"personal", "org"}
    BY DEF Handler
  <1>6. left = {} => Audience(h) \subseteq Told(h)
    BY <1>5 DEF Audience, Told, Members
  <1>7. CASE Goto(r, Idle) /\ left = {}
    <2>1. \A u \in untold' \cap account' : u \in untold \cap account /\ u \notin Audience(req[r])
      BY <1>1, <1>2, <1>6, <1>7
    <2> QED
      BY <1>1, <1>3, <1>7, <2>1, IdleSound, IdleAddressed, ToldStep
  <1>8. CASE ~(Goto(r, Idle) /\ left = {})
    <2>1. PICK g \in Handler :
             /\ Goto(r, g) /\ Holds(g, req[r]) /\ g.wrote = req[r].wrote
             /\ \/ left # {} /\ g.scopes = left /\ g.stage = "touch"
                \/ left = {} /\ g.scopes = req[r].scopes /\ g.stage = "access" /\ g.route = "share"
      BY <1>1, <1>2, <1>8, AloneHas, TouchDoes
    <2>2. Holds(g, h) /\ g.wrote = h.wrote
      BY <1>2, <2>1
    <2>3. Bound(g)
      <3>1. CASE left # {}
        <4>1. h.scopes # {"personal"} /\ h.scopes # {"org"}
          BY <3>1
        <4>2. h.route \notin Personally \cup {"deleteMember", "deleteCollection"}
          BY <1>2, <4>1 DEF Addressed, Bound
        <4> QED
          BY <2>1, <2>2, <3>1, <4>2 DEF Bound, Half, Holds
      <3>2. CASE left = {}
        BY <2>1, <3>2 DEF Bound, Half, Personally
      <3> QED
        BY <3>1, <3>2
    <2>4. Aimed(g) = {}
      <3>1. CASE left # {}
        BY <2>1, <3>1 DEF Aimed
      <3>2. CASE left = {}
        <4>1. ~Reached(g) /\ g.route \in InTurn /\ g.route \notin Making
          BY <2>1, <3>2 DEF Reached, InTurn, Making
        <4> QED
          BY <4>1 DEF Aimed
      <3> QED
        BY <3>1, <3>2
    <2>5. Addressed(g)'
      <3>1. g.stage \in {"touch", "access"} /\ (g.stage = "access" => g.route = "share")
        BY <2>1
      <3>2. Aimed(g)' = {}
        BY <2>4 DEF Aimed, Reached
      <3> QED
        BY <2>3, <3>1, <3>2 DEF Addressed, Bound, Making
    <2>6. ASSUME NEW u \in untold' \cap account'
          PROVE  \/ u \in untold \cap account /\ (Owing(req[r]) => u \notin Audience(req[r]))
                 \/ Owing(g) /\ u \in Audience(g)'
      <3>1. u \in untold \cap account /\ u \notin Told(h)
        BY <1>1, <1>2, <2>6
      <3>2. CASE left = {}
        BY <1>2, <1>6, <3>1, <3>2
      <3>3. CASE left # {}
        <4>1. g.stage = "touch" /\ g.scopes = left
          BY <2>1, <3>3
        <4>2. Owing(h) => Owing(g)
          BY <1>2, <2>2, <4>1 DEF Owing, Holds
        <4>3. "personal" \in h.scopes /\ g.scopes = h.scopes \ {"personal"} /\ u # h.user
          BY <3>1, <3>3, <4>1 DEF Told
        <4>4. u \in Audience(h) => u \in Audience(g)'
          BY <1>4, <2>2, <4>3 DEF Audience, Holds
        <4> QED
          BY <1>2, <3>1, <4>2, <4>4
      <3> QED
        BY <3>2, <3>3
    <2> QED
      BY <1>1, <1>3, <2>1, <2>5, <2>6, ToldStep
  <1> QED
    BY <1>7, <1>8

\* A request that begins owes nothing yet, but for a folder that goes.
LEMMA BegunAddressed ==
    ASSUME OwnersInv, NEW g \in Handler, Begun(g)
    PROVE  Addressed(g)
  <1>1. g.route \in Making \cup Changing \cup Wholly /\ g.todo = g.ids
    BY DEF Begun
  <1>2. CASE g.route \in Making
    <2>1. /\ g.route \notin Wholly /\ IF g.org THEN "org" \in g.scopes ELSE "personal" \in g.scopes
          /\ g.stage \in {"vetAssignment", "vetFolder", "insertFolder", "insert"} /\ g.ids \cap drawn = {}
          /\ g.route # "share" /\ g.route \notin Changing
      BY <1>2 DEF Begun, Making, Wholly, Personally, Changing, InTurn, Marking
    <2>2. Bound(g)
      BY <2>1 DEF Bound, Half, Wholly, Personally
    <2>3. ASSUME NEW c \in Aimed(g) PROVE Covers(g, c)
      <3>1. c \in Cipher /\ c \notin drawn
        BY <2>1 DEF Aimed, Handler
      <3>2. cipher[c] = None
        BY <3>1 DEF OwnersInv, Fresh
      <3> QED
        BY <3>2 DEF Covers
    <2> QED
      BY <2>1, <2>2, <2>3 DEF Addressed
  <1>3. CASE g.route \in Changing
    <2>1. g.stage \in {"access", "vetBulk"} /\ g.route \notin Making /\ g.route \notin Wholly
      BY <1>3 DEF Begun, Making, Wholly, Personally, Changing, InTurn, Marking
    <2>2. Bound(g)
      BY <2>1 DEF Bound, Half, Wholly, Personally
    <2>3. Aimed(g) = {}
      BY <1>1, <2>1 DEF Aimed, Reached
    <2> QED
      BY <2>1, <2>2, <2>3 DEF Addressed
  <1>4. CASE g.route \in Wholly
    <2>1. /\ g.route \in {"purgeVault", "deleteAccount"} => g.stage = "deletePersonal"
          /\ g.route \in {"createFolder", "deleteFolder"} => g.stage = "touch" /\ g.wrote
          /\ g.route = "deleteMember" => g.stage = "memberGrants"
          /\ g.route = "deleteCollection" => g.stage = "colPlaced"
          /\ g.ids = {} /\ g.scopes = IF g.route \in Personally THEN {"personal"} ELSE {"org"}
          /\ IF g.route = "deleteMember" THEN g.other \in User ELSE g.other = None
      BY <1>4 DEF Begun
    <2>2. g.route \notin Making /\ Aimed(g) = {} /\ g.stage \in {"deletePersonal", "touch", "memberGrants", "colPlaced"}
      BY <1>4, <2>1 DEF Making, Wholly, Personally, Aimed
    <2>3. Bound(g)
      BY <1>4, <2>1, <2>2 DEF Bound, Half, Wholly, Personally
    <2> QED
      BY <2>2, <2>3 DEF Addressed
  <1> QED
    BY <1>1, <1>2, <1>3, <1>4

\* No row is made or changes hands as a request begins.
LEMMA BegunLater ==
    ASSUME NEW g \in Handler, Begun(g), Addressed(g), Staying
    PROVE  Addressed(g)'
  <1>1. g.stage \notin {"writeRow", "write"}
    BY DEF Begun, Making, Changing, Wholly, Personally
  <1>2. \A c \in Aimed(g) : Covers(g, c)'
    BY AimedCovered
  <1> QED
    BY <1>1, <1>2 DEF Addressed, Bound, Aimed, Reached

LEMMA ToldBegin ==
    ASSUME NEW r \in Req, Alone(r), NEW u \in User, Begin(r, u)
    PROVE  ToldInv'
  <1>1. /\ HandlersInv /\ VaultTypeOK /\ OwnersInv /\ OneOwner /\ FolderOfCreator /\ reverted = {} /\ OneAtATime
    BY DEF Alone, Stepping, OwnersInv, HandlersInv, ToldInv, AloneInv
  <1>2. At(r, "idle") /\ ((Query /\ UNCHANGED excused) \/ FolderRequest(r, u))
    BY <1>1, BeginDoes
  <1>3. ~Owing(req[r])
    BY <1>1, <1>2, IdleAddressed DEF At, HandlersInv, AllSound, Sound
  <1>4. CASE Query /\ UNCHANGED excused
    <2>1. PICK g \in Handler : Goto(r, g) /\ Begun(g)
      BY <1>1, BeginDoes
    <2>2. Tidy /\ Staying /\ UNCHANGED <<account, cron, untold>>
      BY <1>4, ReadsTidy, ReadsStaying DEF Query, tables
    <2>3. reverted' = {} /\ Addressed(g)'
      BY <1>1, <2>1, <2>2, TidyReverted, BegunAddressed, BegunLater
    <2> QED
      BY <1>3, <1>4, <2>1, <2>2, <2>3, ToldStep
  <1>5. ASSUME NEW f \in Asked.folder, StartCreateFolder(r, u, f) PROVE ToldInv'
    <2>1. UNCHANGED <<account, cipher, placed, cron, untold, excused>>
      BY <1>5 DEF StartCreateFolder
    <2>2. PICK g \in Handler : Goto(r, g) /\ Begun(g)
      BY <1>1, BeginDoes
    <2>3. reverted' = {} /\ Addressed(g)'
      BY <1>1, <2>1, <2>2, ReadsTidy, ReadsStaying, TidyReverted, BegunAddressed, BegunLater
    <2> QED
      BY <1>3, <2>1, <2>2, <2>3, ToldStep
  <1>6. ASSUME NEW f \in Asked.folder, StartDeleteFolder(r, u, f) PROVE ToldInv'
    <2>1. /\ UNCHANGED <<account, member, grant, placed, cron, excused>> /\ Noting({}) /\ FolderOwner[f] = u
          /\ WithoutFolders({f}) /\ f \in Folder
      BY <1>1, <1>6, VaultWorkloadAssumption DEF StartDeleteFolder, Asked, HandlersInv, VaultTypeOK
    <2>2. PICK g \in Handler : Goto(r, g) /\ Begun(g) /\ g.user = u /\ g.stage = "touch" /\ g.route = "deleteFolder"
      <3>1. Goto(r, [Idle EXCEPT !.stage = "touch", !.route = "deleteFolder", !.user = u,
                                 !.scopes = {"personal"}, !.wrote = TRUE])
        BY <1>6 DEF StartDeleteFolder
      <3> QED
        BY <3>1, StartFolderDoes
    <2>3. Staying /\ \A v \in User : v # u => View(v)' = View(v)
      <3> DEFINE fs == {f}
      <3>1. fs \in SUBSET Folder /\ (\A d \in fs : FolderOwner[d] = u) /\ WithoutFolders(fs)
        BY <2>1
      <3> HIDE DEF fs
      <3> QED
        BY <1>1, <2>1, <3>1, UnfiledViews
    <2>4. reverted' = {} /\ Addressed(g)'
      BY <1>1, <2>1, <2>2, <2>3, FoldersTidy, TidyReverted, BegunAddressed, BegunLater
    <2>5. g.wrote /\ g.scopes = {"personal"} /\ Owing(g)
      BY <2>2 DEF Begun, Wholly, Personally, Owing
    <2>6. \A v \in User : v \notin Audience(g)' => View(v)' = View(v)
      BY <2>2, <2>3, <2>5 DEF Audience
    <2> DEFINE none == {}
    <2>7. Noting(none) /\ \A v \in User : v \notin Audience(g)' => View(v)' = View(v) /\ \A c \in none : ~Reads(v, c)'
      BY <2>1, <2>6
    <2> HIDE DEF none
    <2> QED
      BY <1>3, <2>1, <2>2, <2>4, <2>5, <2>7, ToldWrite
  <1> QED
    BY <1>2, <1>4, <1>5, <1>6 DEF FolderRequest

\* The purge tells the creators; what it promises it keeps.
LEMMA PurgePromises ==
    ASSUME VaultTypeOK, Cron, NEW u \in untold' \cap account', excused' = {},
           excused = {} => \A v \in untold \cap account : Promised(v)
    PROVE  Promised(u)'
  <1>1. UNCHANGED <<account, member, req>>
    BY DEF Cron, CronFind, CronCount, CronDelete, CronTouch, TellCreators, Age, tables
  <1>2. ASSUME NEW r \in Req, Owing(req[r]), u \in Audience(req[r]) PROVE Promised(u)'
    <2>1. Owing(req[r])' /\ u \in Audience(req[r])'
      BY <1>1, <1>2 DEF Owing, Audience
    <2> QED
      BY <2>1 DEF Promised
  <1>3. CASE cron'.stage = "touch" /\ u \in cron'.users
    BY <1>3 DEF Promised
  <1>4. CASE ~(cron'.stage = "touch" /\ u \in cron'.users)
    <2>1. excused = {}
      <3>1. excused \subseteq excused'
        BY DEF Cron, CronFind, CronCount, CronDelete, CronTouch, TellCreators, Age
      <3> QED
        BY <3>1
    <2>2. u \in untold /\ ~(cron.stage = "touch" /\ u \in cron.users)
      <3>1. CASE CronDelete
        <4>1. cron'.stage = "touch" /\ cron'.users = cron.users /\ cron.stage = "delete"
          BY <3>1 DEF CronDelete, TellCreators, VaultTypeOK
        <4>2. u \in User /\ u \in account \ cron.users
          BY <1>1, <1>4, <4>1 DEF VaultTypeOK
        <4>3. View(u)' = View(u)
          BY <3>1, <4>2 DEF CronDelete, TellCreators
        <4> QED
          BY <3>1, <4>1, <4>3 DEF CronDelete, TellCreators, Noting
      <3>2. ASSUME NEW v \in User, CronTouch(v) PROVE u \in untold /\ ~(cron.stage = "touch" /\ u \in cron.users)
        <4>1. cron.stage = "touch" /\ untold' = untold \ {v} /\ v \in cron.users
          BY <3>2 DEF CronTouch
        <4>2. u # v /\ u \in untold
          BY <4>1
        <4>3. ASSUME u \in cron.users PROVE FALSE
          <5>1. cron' = [cron EXCEPT !.users = cron.users \ {v}]
            BY <3>2, <4>2, <4>3 DEF CronTouch
          <5>2. cron'.stage = cron.stage /\ cron'.users = cron.users \ {v}
            BY <5>1 DEF VaultTypeOK
          <5> QED
            BY <1>4, <4>1, <4>2, <4>3, <5>2
        <4> QED
          BY <4>2, <4>3
      <3>3. CASE CronFind \/ CronCount
        BY <3>3 DEF CronFind, CronCount
      <3>4. ASSUME NEW c \in Cipher, Age(c), UNCHANGED cron
            PROVE  u \in untold /\ ~(cron.stage = "touch" /\ u \in cron.users)
        BY <1>4, <3>4 DEF Age
      <3> QED
        BY <3>1, <3>2, <3>3, <3>4 DEF Cron
    <2>3. Promised(u)
      BY <1>1, <2>1, <2>2
    <2> QED
      BY <1>2, <2>2, <2>3 DEF Promised
  <1> QED
    BY <1>3, <1>4

LEMMA ToldPurge ==
    ASSUME OwnersInv, ToldInv, OneAtATime, Reverting, Cron
    PROVE  ToldInv'
  <1>1. /\ VaultTypeOK /\ Tidy /\ Staying /\ UNCHANGED <<member, folder, req>>
    <2>1. VaultTypeOK /\ UNCHANGED <<member, folder, req>>
      BY DEF OwnersInv, HandlersInv, Cron, CronFind, CronCount, CronDelete, CronTouch, TellCreators, Age, tables
    <2> QED
      BY <2>1, PurgeRows DEF Tidy, Staying
  <1>2. reverted' = {}
    BY <1>1 DEF ToldInv, Tidy, Reverting
  <1>3. ASSUME NEW r \in Req PROVE Addressed(req[r])'
    <2>1. PICK h \in Handler : h = req[r] /\ h = req'[r] /\ Addressed(h)
      BY <1>1 DEF VaultTypeOK, ToldInv
    <2>2. \A c \in Aimed(h) : Covers(h, c)'
      BY <1>1, <2>1, AimedCovered
    <2>3. Addressed(h)'
      BY <1>1, <2>1, <2>2 DEF Addressed, Bound, Aimed, Reached
    <2> QED
      BY <2>1, <2>3 DEF Addressed, Bound, Aimed, Covers, Reached
  <1>4. excused' = {} => \A u \in untold' \cap account' : Promised(u)'
    BY <1>1, PurgePromises DEF ToldInv
  <1> QED
    BY <1>2, <1>3, <1>4 DEF ToldInv

LEMMA ToldInit == VaultInit => ToldInv
  <1> SUFFICES ASSUME VaultInit PROVE ToldInv
    OBVIOUS
  <1>1. reverted = {} /\ untold = {} /\ \A r \in Req : req[r] = Idle
    BY DEF VaultInit
  <1>2. \A r \in Req : Addressed(req[r])
    BY <1>1, IdleAddressed
  <1> QED
    BY <1>1, <1>2 DEF ToldInv

LEMMA ToldNext ==
    ASSUME OwnersInv, AloneInv, ToldInv, [VaultNext]_vaultVars
    PROVE  ToldInv'
  <1>1. OwnersInv'
    BY OwnersNext
  <1>2. CASE UNCHANGED vaultVars
    <2>1. (\A r \in Req : Addressed(req[r])) => \A r \in Req : Addressed(req[r])'
      BY <1>2 DEF vaultVars, Addressed, Bound, Aimed, Covers, Reached
    <2>2. \A u : Promised(u) => Promised(u)'
      BY <1>2 DEF vaultVars, Promised, Owing, Audience
    <2>3. OneAtATime' => OneAtATime
      BY <1>2 DEF vaultVars, OneAtATime, Asked
    <2>4. UNCHANGED <<reverted, excused, untold, account>>
      BY <1>2 DEF vaultVars
    <2> QED
      BY <2>1, <2>2, <2>3, <2>4 DEF ToldInv
  <1>3. CASE VaultNext
    <2>1. load' = load /\ HandlersInv /\ Reverting
      BY <1>3 DEF VaultNext, OwnersInv
    <2>2. OneAtATime' => OneAtATime
      BY <2>1 DEF OneAtATime, Asked
    <2> SUFFICES ASSUME OneAtATime PROVE ToldInv'
      BY <2>2 DEF ToldInv
    <2>3. ASSUME NEW r \in Req, NEW u \in User, Begin(r, u) PROVE ToldInv'
      <3>1. Alone(r)
        BY <1>1, <2>1, <2>3, BeginAlone DEF Stepping, Alone
      <3> QED
        BY <2>3, <3>1, ToldBegin
    <2>4. ASSUME NEW r \in Req, Continue(r) PROVE ToldInv'
      <3>1. ~At(r, "idle")
        BY <2>4, ContinueBusy
      <3>2. Alone(r)
        BY <1>1, <2>1, <3>1 DEF Stepping, Alone, AloneInv, AtMostOne
      <3> QED
        BY <2>4, <3>2, ToldAccess, ToldFetch, ToldVet, ToldInsertFolder, ToldInsert, ToldPlace, ToldWriteRow,
           ToldWriteAll, ToldBump, ToldRefetch, ToldHardDelete, ToldDeletePersonal, ToldDropFolders,
           ToldDropUserGrants, ToldDropMember, ToldDeleteUser, ToldDeleteCollection, ToldTouch, ToldCrash
        DEF Continue
    <2>5. Cron => ToldInv'
      BY <2>1, ToldPurge
    <2> QED
      BY <1>3, <2>3, <2>4, <2>5 DEF VaultNext
  <1> QED
    BY <1>2, <1>3

\* One handler at a time: whoever sees other ciphers than before, or one changed, was told to
\* sync once nothing is in flight, unless someone is excused.
THEOREM ToldHolds == VaultSpec => []ToldOfCiphers
  <1>1. VaultInit => OwnersInv /\ AloneInv /\ ToldInv
    BY OwnersInit, AloneInit, ToldInit
  <1>2. OwnersInv /\ AloneInv /\ ToldInv /\ [VaultNext]_vaultVars => (OwnersInv /\ AloneInv /\ ToldInv)'
    BY OwnersNext, AloneNext, ToldNext
  <1>3. OwnersInv /\ ToldInv => ToldOfCiphers
    <2> SUFFICES ASSUME OwnersInv, ToldInv, OneAtATime, InFlight = {}, cron.stage = "idle", excused = {}
                 PROVE  untold \cap account = {}
      BY DEF ToldOfCiphers
    <2>1. \A r \in Req : req[r] = Idle
      BY DEF InFlight, At, OwnersInv, HandlersInv, AllSound, Sound
    <2>2. \A u : ~Promised(u)
      BY <2>1, IdleAddressed DEF Promised
    <2> QED
      BY <2>2 DEF ToldInv
  <1> QED
    BY <1>1, <1>2, <1>3, PTL DEF VaultSpec
=============================================================================
