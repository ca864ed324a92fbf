--------------------------- MODULE RotationProofs ---------------------------
(***************************************************************************)
(* Proofs about KeyRotation, for any items, keys, sessions, handlers and   *)
(* workloads, and any size of a batch: its types, and that every item is   *)
(* under the key of the account but for the causes it names.               *)
(***************************************************************************)
EXTENDS KeyRotation, TLAPS

-----------------------------------------------------------------------------
\* What a handler holds

Edits == {"update", "removePassword", "share", "delete"}
Rewriting == {"folders", "ciphers", "files", "checkSends", "sends", "replace"}

\* A rotation rewrites one kind after the other.
Ordered(h) ==
    /\ h.left \subseteq h.ids
    /\ h.stage \in {"user", "validate"} => h.left = h.ids
    /\ h.stage = "folders" => h.ids \ h.left \subseteq Folder
    /\ h.stage = "ciphers" => h.left \cap Folder = {} /\ h.ids \ h.left \subseteq Folder \cup Cipher
    /\ h.stage = "files" => h.left \cap (Folder \cup Cipher) = {} /\ h.ids \ h.left \subseteq Folder \cup Cipher \cup File
    /\ h.stage = "checkSends" => h.left = h.ids \cap Send
    /\ h.stage = "sends" => h.left \subseteq Send
    /\ h.stage = "replace" => h.left = {}

Busy(h) ==
    /\ h.stage = "user" => h.route \in {"rotate", "password"}
    /\ h.stage \in {"validate"} \cup Rewriting => h.route = "rotate"
    /\ h.stage = "read" => h.route \in Edits
    /\ h.stage = "write" => h.route \in {"create", "update", "removePassword", "share", "password"}
    /\ h.stage = "announce" => h.route = "announce"
    /\ h.route = "rotate" => Ordered(h)
    /\ h.route \in {"rotate", "create", "announce", "password"} => h.key \in Key
    /\ h.route = "announce" => h.ids \subseteq File \cup Send
    /\ h.route \in {"create"} \cup Edits => h.ids \cap File = {}
    /\ h.route \in {"create", "announce"} \cup Edits => \A i, j \in h.ids : i = j
    /\ h.route = "share" \/ h.org => h.ids \subseteq Cipher
    /\ h.route = "removePassword" => h.ids \subseteq Send
    /\ h.route \in Edits => /\ h.key # None
                            /\ h.stage = "read" => ~h.org
                            /\ h.key = OrgKey <=> h.route = "share" \/ h.org

Sound(h) == IF h.stage = "idle" THEN h = RotIdle ELSE Busy(h)
AllSound == \A r \in Req : Sound(req[r])

\* Only ciphers are under the key of the organization.
OrgOnly ==
    /\ \A i \in Item : under[i] = OrgKey => i \in Cipher
    /\ \A i \in File \cup Send : pend[i] # OrgKey

KeysInv == RotTypeOK /\ AllSound /\ OrgOnly

\* The types of all that is not about handlers.
TablesOK ==
    /\ load \in RotWorkloads
    /\ key \in Key
    /\ live \subseteq Session
    /\ holds \in [Session -> Key]
    /\ under \in [Item -> Key \cup {OrgKey, None}]
    /\ pend \in [File \cup Send -> Key \cup {OrgKey, None}]
    /\ shared \subseteq Cipher
    /\ filed \in [Cipher -> Folder \cup {None}]
    /\ \A c \in Cipher : filed[c] # None => under[c] # None /\ under[filed[c]] # None
    /\ \A f \in File : under[f] # None \/ pend[f] # None => under[Home[f]] # None
    /\ knows \subseteq Req /\ stale \subseteq Req
    /\ drawn \subseteq Item \cup Key
    /\ mixed \subseteq Item

LEMMA IdleSound == RotIdle \in RotHandler /\ Sound(RotIdle) /\ RotIdle.stage = "idle"
  BY DEF RotIdle, RotHandler, RotStage, Unfiled, Sound

\* The step of a handler, after which it holds g.
LEMMA SlotStep ==
    ASSUME KeysInv, NEW r \in Req, NEW g \in RotHandler, Goto(r, g), Sound(g), TablesOK', OrgOnly'
    PROVE  KeysInv'
  <1>1. req' \in [Req -> RotHandler] /\ \A q \in Req : req'[q] = IF q = r THEN g ELSE req[q]
    BY DEF KeysInv, RotTypeOK, Goto
  <1>2. RotTypeOK'
    BY <1>1 DEF RotTypeOK, TablesOK
  <1>3. AllSound'
    BY <1>1 DEF KeysInv, AllSound
  <1> QED
    BY <1>2, <1>3 DEF KeysInv

LEMMA BusyHandler ==
    ASSUME KeysInv, NEW r \in Req, ~At(r, "idle")
    PROVE  req[r] \in RotHandler /\ Busy(req[r]) /\ req[r].stage # "idle"
  BY DEF KeysInv, RotTypeOK, AllSound, Sound, At

LEMMA Types == KeysInv => TablesOK /\ OrgOnly /\ req \in [Req -> RotHandler]
  BY DEF KeysInv, RotTypeOK, TablesOK

\* A step that writes nothing but what is known of handlers.
LEMMA TablesStay ==
    ASSUME KeysInv, UNCHANGED <<account, tables>>, drawn' \subseteq Item \cup Key, mixed' \subseteq Item,
           knows' \subseteq Req, stale' \subseteq Req
    PROVE  TablesOK' /\ OrgOnly'
  BY Types DEF TablesOK, OrgOnly, account, tables

\* What a handler holds when it only goes on.
Same(g, h) ==
    g.route = h.route /\ g.key = h.key /\ g.ids = h.ids /\ g.left = h.left /\ g.filed = h.filed /\ g.org = h.org

LEMMA Goes ==
    ASSUME KeysInv, NEW r \in Req, NEW stage \in RotStage, Proceed(r, stage)
    PROVE  \E g \in RotHandler : Goto(r, g) /\ g.stage = stage /\ Same(g, req[r])
  <1>1. PICK h \in RotHandler : h = req[r]
    BY DEF KeysInv, RotTypeOK
  <1> DEFINE g == [h EXCEPT !.stage = stage]
  <1>2. g \in RotHandler
    BY DEF RotHandler
  <1>3. g.stage = stage /\ Same(g, h)
    BY DEF RotHandler, Same
  <1>4. Goto(r, g)
    BY <1>1 DEF Proceed
  <1> HIDE DEF g
  <1> QED
    BY <1>1, <1>2, <1>3, <1>4

LEMMA FinishStep ==
    ASSUME KeysInv, NEW r \in Req, Finish(r), TablesOK', OrgOnly'
    PROVE  KeysInv'
  BY IdleSound, SlotStep DEF Finish

LEMMA FinishTypes ==
    ASSUME KeysInv, NEW r \in Req, Finish(r)
    PROVE  knows' \subseteq Req /\ stale' \subseteq Req /\ Goto(r, RotIdle)
  BY DEF KeysInv, RotTypeOK, Finish

-----------------------------------------------------------------------------
\* How requests begin

\* What a request holds at first, asked with a token of session s.
Begun(g, s) ==
    /\ g.stage # "idle" /\ Busy(g)
    /\ g.stage \in {"user", "write", "announce", "read"}
    /\ g.route = "rotate" => g.ids = OfRotation /\ g.left = OfRotation /\ g.stage = "user"
    /\ g.route # "rotate" => g.key \in {holds[s], OrgKey}
    /\ g.route \in {"create", "announce"} => g.ids \cap drawn = {} /\ g.ids \subseteq drawn'

LEMMA RotationBegins ==
    ASSUME KeysInv, NEW r \in Req, NEW s \in Session, NEW k \in Key, StartRotation(r, s, k)
    PROVE  drawn' \subseteq Item \cup Key /\ \E g \in RotHandler : Goto(r, g) /\ Begun(g, s)
  <1>1. OfRotation \subseteq Item /\ filed \in [Cipher -> Folder \cup {None}] /\ drawn \subseteq Item \cup Key
    BY DEF KeysInv, RotTypeOK, OfRotation, Personal, Item
  <1> DEFINE g == [RotIdle EXCEPT !.stage = "user", !.route = "rotate", !.key = k,
                     !.ids = OfRotation, !.left = OfRotation, !.filed = filed]
  <1>2. g.stage = "user" /\ g.route = "rotate" /\ g.key = k /\ g.ids = OfRotation /\ g.left = OfRotation /\ g.org = FALSE
    BY DEF RotIdle
  <1>3. g \in RotHandler
    BY <1>1 DEF RotIdle, RotHandler, RotStage, RotRoutes
  <1>4. Goto(r, g) /\ drawn' = drawn \cup {k}
    BY DEF StartRotation, Begin
  <1> HIDE DEF g
  <1>5. Busy(g)
    BY <1>2 DEF Busy, Ordered, Edits, Rewriting
  <1> QED
    BY <1>1, <1>2, <1>3, <1>4, <1>5 DEF Begun

LEMMA PasswordBegins ==
    ASSUME KeysInv, NEW r \in Req, NEW s \in Session, StartPassword(r, s)
    PROVE  drawn' \subseteq Item \cup Key /\ \E g \in RotHandler : Goto(r, g) /\ Begun(g, s)
  <1>1. holds[s] \in Key /\ drawn \subseteq Item \cup Key
    BY DEF KeysInv, RotTypeOK
  <1> DEFINE g == [RotIdle EXCEPT !.stage = "user", !.route = "password", !.key = holds[s]]
  <1>2. g.stage = "user" /\ g.route = "password" /\ g.key = holds[s] /\ g.org = FALSE
    BY DEF RotIdle
  <1>3. g \in RotHandler
    BY <1>1 DEF RotIdle, RotHandler, RotStage, RotRoutes, Unfiled
  <1>4. Goto(r, g) /\ drawn' = drawn
    BY DEF StartPassword, Begin
  <1> HIDE DEF g
  <1>5. Busy(g)
    BY <1>1, <1>2 DEF Busy, Edits, Rewriting
  <1> QED
    BY <1>1, <1>2, <1>3, <1>4, <1>5 DEF Begun

LEMMA CreateBegins ==
    ASSUME KeysInv, NEW r \in Req, NEW s \in Session, NEW i \in Item, NEW f \in Folder \cup {None}, StartCreate(r, s, i, f)
    PROVE  drawn' \subseteq Item \cup Key /\ \E g \in RotHandler : Goto(r, g) /\ Begun(g, s)
  <1>1. holds[s] \in Key /\ drawn \subseteq Item \cup Key /\ i \notin drawn /\ drawn' = drawn \cup {i}
    BY DEF KeysInv, RotTypeOK, StartCreate
  <1>2. PICK fi : fi = IF f = None THEN Unfiled ELSE [Unfiled EXCEPT ![i] = f]
    OBVIOUS
  <1>3. fi \in [Cipher -> Folder \cup {None}]
    BY <1>2 DEF Unfiled
  <1> DEFINE a == [RotIdle EXCEPT !.stage = "write", !.route = "create", !.key = holds[s], !.ids = {i}, !.filed = fi]
             b == [RotIdle EXCEPT !.stage = "announce", !.route = "announce", !.key = holds[s], !.ids = {i}]
  <1>4. /\ a.stage = "write" /\ a.route = "create" /\ a.key = holds[s] /\ a.ids = {i} /\ a.org = FALSE
        /\ b.stage = "announce" /\ b.route = "announce" /\ b.key = holds[s] /\ b.ids = {i} /\ b.org = FALSE
    BY DEF RotIdle
  <1>5. a \in RotHandler /\ b \in RotHandler
    BY <1>1, <1>3 DEF RotIdle, RotHandler, RotStage, RotRoutes, Unfiled
  <1>6. (i \notin File /\ Goto(r, a)) \/ (i \in File \cup Send /\ Goto(r, b))
    <2>1. RotIdle.filed = Unfiled
      BY DEF RotIdle
    <2>2. (i \notin File /\ Goto(r, [RotIdle EXCEPT !.stage = "write", !.route = "create", !.key = holds[s], !.ids = {i},
                            !.filed = IF f = None THEN RotIdle.filed ELSE [RotIdle.filed EXCEPT ![i] = f]]))
          \/ (i \in File \cup Send /\ Goto(r, b))
      BY DEF StartCreate, Begin
    <2> QED
      BY <1>2, <2>1, <2>2
  <1> HIDE DEF a, b
  <1>7. i \notin File => Busy(a)
    BY <1>1, <1>4 DEF Busy, Edits, Rewriting
  <1>8. i \in File \cup Send => Busy(b)
    BY <1>1, <1>4 DEF Busy, Edits, Rewriting
  <1> QED
    BY <1>1, <1>4, <1>5, <1>6, <1>7, <1>8 DEF Begun

LEMMA ChangeBegins ==
    ASSUME KeysInv, NEW r \in Req, NEW s \in Session, NEW i \in Item, StartChange(r, s, i)
    PROVE  drawn' \subseteq Item \cup Key /\ \E g \in RotHandler : Goto(r, g) /\ Begun(g, s)
  <1>1. holds[s] \in Key /\ drawn \subseteq Item \cup Key /\ drawn' = drawn /\ i \notin File
    BY DEF KeysInv, RotTypeOK, StartChange
  <1>2. PICK route \in Edits :
          /\ route = "share" => i \in Cipher
          /\ route = "removePassword" => i \in Send
          /\ Goto(r, [RotIdle EXCEPT !.stage = "read", !.route = route, !.ids = {i},
                        !.key = IF route = "share" THEN OrgKey ELSE holds[s]])
    BY DEF StartChange, Begin, Edits
  <1> DEFINE g == [RotIdle EXCEPT !.stage = "read", !.route = route, !.ids = {i},
                     !.key = IF route = "share" THEN OrgKey ELSE holds[s]]
  <1>3. /\ g.stage = "read" /\ g.route = route /\ g.ids = {i} /\ g.org = FALSE
        /\ g.key = IF route = "share" THEN OrgKey ELSE holds[s]
    BY DEF RotIdle
  <1>4. g \in RotHandler
    BY <1>1, <1>2 DEF RotIdle, RotHandler, RotStage, RotRoutes, Unfiled, Edits
  <1>5. Goto(r, g)
    BY <1>2
  <1> HIDE DEF g
  <1>6. Busy(g)
    BY <1>1, <1>2, <1>3, RotKeyAssumption DEF Busy, Edits, Rewriting
  <1> QED
    BY <1>1, <1>2, <1>3, <1>4, <1>5, <1>6 DEF Begun, Edits

LEMMA RequestBegins ==
    ASSUME KeysInv, NEW r \in Req, NEW s \in Session, Asked(r, s)
    PROVE  /\ At(r, "idle") /\ s \in live /\ UNCHANGED <<account, tables, stale, mixed>> /\ knows' = knows \cup {r}
           /\ drawn \subseteq drawn' /\ drawn' \subseteq Item \cup Key
           /\ \E g \in RotHandler : Goto(r, g) /\ Begun(g, s)
  <1>1. /\ At(r, "idle") /\ s \in live /\ UNCHANGED <<account, tables, stale, mixed>> /\ knows' = knows \cup {r}
        /\ drawn \subseteq drawn'
    BY DEF Asked, StartRotation, StartPassword, StartCreate, StartChange, Begin
  <1> QED
    BY <1>1, RotationBegins, PasswordBegins, CreateBegins, ChangeBegins DEF Asked

LEMMA AskedStep ==
    ASSUME KeysInv, NEW r \in Req, NEW s \in Session, Asked(r, s)
    PROVE  KeysInv'
  <1>1. PICK g \in RotHandler : Goto(r, g) /\ Begun(g, s)
    BY RequestBegins
  <1>2. TablesOK' /\ OrgOnly'
    BY RequestBegins, TablesStay DEF KeysInv, RotTypeOK
  <1> QED
    BY <1>1, <1>2, SlotStep DEF Begun, Sound

-----------------------------------------------------------------------------
\* Types and handlers, step by step

LEMMA ReadUserStep ==
    ASSUME KeysInv, NEW r \in Req, ReadUser(r)
    PROVE  KeysInv'
  <1>1. UNCHANGED <<account, tables>> /\ drawn' = drawn /\ mixed' = mixed
    BY DEF ReadUser, RotQuery
  <1>2. knows' \subseteq Req /\ stale' \subseteq Req /\ drawn \subseteq Item \cup Key /\ mixed \subseteq Item
    BY FinishTypes DEF ReadUser, KeysInv, RotTypeOK
  <1>3. TablesOK' /\ OrgOnly'
    BY <1>1, <1>2, TablesStay
  <1>4. CASE Finish(r)
    BY <1>3, <1>4, FinishStep
  <1>5. CASE ~Finish(r)
    <2>1. PICK stage \in RotStage : Proceed(r, stage) /\ stage = IF req[r].route = "rotate" THEN "validate" ELSE "write"
      BY <1>5 DEF ReadUser, RotStage
    <2>2. PICK g \in RotHandler : Goto(r, g) /\ g.stage = stage /\ Same(g, req[r])
      BY <2>1, Goes
    <2>3. Busy(req[r]) /\ req[r].stage = "user"
      BY BusyHandler DEF ReadUser, At
    <2>4. Busy(g)
      BY <2>1, <2>2, <2>3 DEF Busy, Same, Ordered, Rewriting, Edits
    <2> QED
      BY <1>3, <2>1, <2>2, <2>4, SlotStep DEF Sound
  <1> QED
    BY <1>4, <1>5

LEMMA ValidateStep ==
    ASSUME KeysInv, NEW r \in Req, Validate(r)
    PROVE  KeysInv'
  <1>1. UNCHANGED <<account, tables>> /\ drawn' = drawn /\ mixed' = mixed
    BY DEF Validate, RotQuery
  <1>2. knows' \subseteq Req /\ stale' \subseteq Req /\ drawn \subseteq Item \cup Key /\ mixed \subseteq Item
    BY FinishTypes DEF Validate, KeysInv, RotTypeOK
  <1>3. TablesOK' /\ OrgOnly'
    BY <1>1, <1>2, TablesStay
  <1>4. CASE Finish(r)
    BY <1>3, <1>4, FinishStep
  <1>5. CASE ~Finish(r)
    <2>1. Proceed(r, "folders") /\ "folders" \in RotStage
      BY <1>5 DEF Validate, RotStage
    <2>2. PICK g \in RotHandler : Goto(r, g) /\ g.stage = "folders" /\ Same(g, req[r])
      BY <2>1, Goes
    <2>3. Busy(req[r]) /\ req[r].stage = "validate"
      BY BusyHandler DEF Validate, At
    <2>4. Busy(g)
      BY <2>2, <2>3 DEF Busy, Same, Ordered, Rewriting, Edits
    <2> QED
      BY <1>3, <2>2, <2>4, SlotStep DEF Sound
  <1> QED
    BY <1>4, <1>5

\* The stage after one that has nothing left of its kind.
LEMMA RewrittenGoes ==
    ASSUME KeysInv, NEW r \in Req, Rewritten(r)
    PROVE  /\ Busy(req[r]) /\ req[r].route = "rotate"
           /\ \E g \in RotHandler :
                 /\ Goto(r, g) /\ Same(g, req[r])
                 /\ \/ req[r].stage = "folders" /\ g.stage = "ciphers" /\ req[r].left \cap Folder = {}
                    \/ req[r].stage = "ciphers" /\ g.stage = "files" /\ req[r].left \cap Cipher = {}
                    \/ req[r].stage = "files" /\ g.stage = "checkSends" /\ req[r].left \cap File = {}
                    \/ req[r].stage = "sends" /\ g.stage = "replace" /\ req[r].left \cap Send = {}
  <1>1. Busy(req[r]) /\ req[r].stage \in {"folders", "ciphers", "files", "sends"}
    BY BusyHandler DEF Rewritten, At
  <1>2. req[r].route = "rotate"
    BY <1>1 DEF Busy, Rewriting
  <1>3. PICK stage \in RotStage :
          /\ Proceed(r, stage)
          /\ \/ req[r].stage = "folders" /\ stage = "ciphers" /\ req[r].left \cap Folder = {}
             \/ req[r].stage = "ciphers" /\ stage = "files" /\ req[r].left \cap Cipher = {}
             \/ req[r].stage = "files" /\ stage = "checkSends" /\ req[r].left \cap File = {}
             \/ req[r].stage = "sends" /\ stage = "replace" /\ req[r].left \cap Send = {}
    BY <1>1 DEF Rewritten, KindOf, RotStage
  <1>4. PICK g \in RotHandler : Goto(r, g) /\ g.stage = stage /\ Same(g, req[r])
    BY <1>3, Goes
  <1> QED
    BY <1>1, <1>2, <1>3, <1>4

LEMMA RewrittenStep ==
    ASSUME KeysInv, NEW r \in Req, Rewritten(r)
    PROVE  KeysInv'
  <1>1. TablesOK' /\ OrgOnly'
    BY TablesStay DEF Rewritten, RotQuery, KeysInv, RotTypeOK
  <1>2. PICK g \in RotHandler :
                 /\ Goto(r, g) /\ Same(g, req[r])
                 /\ \/ req[r].stage = "folders" /\ g.stage = "ciphers" /\ req[r].left \cap Folder = {}
                    \/ req[r].stage = "ciphers" /\ g.stage = "files" /\ req[r].left \cap Cipher = {}
                    \/ req[r].stage = "files" /\ g.stage = "checkSends" /\ req[r].left \cap File = {}
                    \/ req[r].stage = "sends" /\ g.stage = "replace" /\ req[r].left \cap Send = {}
    BY RewrittenGoes
  <1>3. Ordered(req[r]) /\ req[r] \in RotHandler /\ Busy(req[r]) /\ req[r].route = "rotate"
    BY RewrittenGoes DEF Busy, KeysInv, RotTypeOK
  <1>4. req[r].left \subseteq Item /\ req[r].ids \subseteq Item
    BY <1>3 DEF RotHandler
  <1>5. Ordered(g)
    <2>1. CASE g.stage = "ciphers"
      BY <1>2, <1>3, <1>4, <2>1 DEF Ordered, Same, Item
    <2>2. CASE g.stage = "files"
      BY <1>2, <1>3, <1>4, <2>2 DEF Ordered, Same, Item
    <2>3. CASE g.stage = "checkSends"
      <3>1. /\ g.left \subseteq Item /\ g.left \cap (Folder \cup Cipher) = {} /\ g.left \cap File = {}
            /\ g.left \subseteq g.ids /\ g.ids \subseteq Item /\ g.ids \ g.left \subseteq Folder \cup Cipher \cup File
        BY <1>2, <1>3, <1>4, <2>3 DEF Ordered, Same
      <3>2. g.left = g.ids \cap Send
        BY <3>1, KindsAssumption DEF Item
      <3> QED
        BY <2>3, <3>1, <3>2 DEF Ordered
    <2>4. CASE g.stage = "replace"
      BY <1>2, <1>3, <1>4, <2>4 DEF Ordered, Same, Item
    <2> QED
      BY <1>2, <2>1, <2>2, <2>3, <2>4
  <1>6. Busy(g)
    BY <1>2, <1>3, <1>5 DEF Busy, Same, Rewriting, Edits
  <1> QED
    BY <1>1, <1>2, <1>6, SlotStep DEF Sound

LEMMA CheckSendsStep ==
    ASSUME KeysInv, NEW r \in Req, CheckSends(r)
    PROVE  KeysInv'
  <1>1. Busy(req[r]) /\ req[r] \in RotHandler /\ req[r].stage = "checkSends" /\ req[r].route = "rotate"
    BY BusyHandler DEF CheckSends, At, Busy, Rewriting
  <1>2. UNCHANGED <<account, tables>> /\ drawn' = drawn
    BY DEF CheckSends
  <1>3. CASE ~(Send \cap There = req[r].ids \cap Send)
    <2>1. Finish(r) /\ mixed' = mixed \cup Written(req[r])
      BY <1>3 DEF CheckSends
    <2>2. Written(req[r]) \subseteq Item
      BY <1>1 DEF Written, RotHandler
    <2>3. mixed' \subseteq Item /\ knows' \subseteq Req /\ stale' \subseteq Req /\ drawn \subseteq Item \cup Key
      BY <2>1, <2>2, FinishTypes DEF KeysInv, RotTypeOK
    <2>4. TablesOK' /\ OrgOnly'
      BY <1>2, <2>3, TablesStay
    <2> QED
      BY <2>1, <2>4, FinishStep
  <1>4. CASE Send \cap There = req[r].ids \cap Send
    <2>1. Proceed(r, "sends") /\ UNCHANGED <<mixed, knows, stale>> /\ "sends" \in RotStage
      BY <1>4 DEF CheckSends, RotStage
    <2>2. PICK g \in RotHandler : Goto(r, g) /\ g.stage = "sends" /\ Same(g, req[r])
      BY <2>1, Goes
    <2>3. TablesOK' /\ OrgOnly'
      BY <1>2, <2>1, TablesStay DEF KeysInv, RotTypeOK
    <2>4. Busy(g)
      BY <1>1, <2>2 DEF Busy, Ordered, Same, Rewriting, Edits
    <2> QED
      BY <2>2, <2>3, <2>4, SlotStep DEF Sound
  <1> QED
    BY <1>3, <1>4

\* What one batch does: it ends the rotation, or rewrites some of what is left.
LEMMA RewriteDoes ==
    ASSUME KeysInv, NEW r \in Req, Rewrite(r)
    PROVE  /\ Busy(req[r]) /\ req[r] \in RotHandler /\ req[r].route = "rotate"
           /\ UNCHANGED <<account, pend, shared, drawn>>
           /\ \/ Finish(r) /\ UNCHANGED <<under, filed>> /\ mixed' = mixed \cup Written(req[r])
              \/ \E b \in SUBSET (req[r].left \cap KindOf(req[r].stage)), g \in RotHandler :
                    /\ \A c \in b \cap Cipher \cap There : req[r].filed[c] # None => under[req[r].filed[c]] # None
                    /\ under' = [i \in Item |-> IF i \in b \cap There THEN req[r].key ELSE under[i]]
                    /\ filed' = [c \in Cipher |-> IF c \in b \cap There THEN req[r].filed[c] ELSE filed[c]]
                    /\ mixed' = (mixed \ b) \cup (b \cap (SettledByOther(r) \cup shared \cup FilesOf(shared)))
                    /\ UNCHANGED <<knows, stale>>
                    /\ Goto(r, g)
                    /\ g.stage = req[r].stage /\ g.route = req[r].route /\ g.key = req[r].key /\ g.ids = req[r].ids
                    /\ g.left = req[r].left \ b /\ g.filed = req[r].filed /\ g.org = req[r].org
                    /\ g.stage \in {"folders", "ciphers", "files", "sends"}
  <1>1. Busy(req[r]) /\ req[r] \in RotHandler /\ req[r].stage \in {"folders", "ciphers", "files", "sends"}
    BY BusyHandler DEF Rewrite, At
  <1>2. req[r].route = "rotate"
    BY <1>1 DEF Busy, Rewriting
  <1> DEFINE todo == req[r].left \cap KindOf(req[r].stage)
  <1>3. PICK b \in Chunk(todo) :
          IF \E c \in b \cap Cipher \cap There : req[r].filed[c] # None /\ under[req[r].filed[c]] = None
          THEN /\ Finish(r) /\ UNCHANGED <<under, filed>>
               /\ mixed' = mixed \cup Written(req[r])
          ELSE /\ under' = [i \in Item |-> IF i \in b \cap There THEN req[r].key ELSE under[i]]
               /\ filed' = [c \in Cipher |-> IF c \in b \cap There THEN req[r].filed[c] ELSE filed[c]]
               /\ Goto(r, [req[r] EXCEPT !.left = @ \ b])
               /\ mixed' = (mixed \ b) \cup (b \cap (SettledByOther(r) \cup shared \cup FilesOf(shared)))
               /\ UNCHANGED <<knows, stale>>
    BY DEF Rewrite
  <1>4. UNCHANGED <<account, pend, shared, drawn>>
    BY DEF Rewrite
  <1>5. b \subseteq todo
    BY DEF Chunk
  <1>6. PICK h \in RotHandler : h = req[r]
    BY <1>1
  <1> DEFINE g == [h EXCEPT !.left = @ \ b]
  <1>7. /\ g.stage = h.stage /\ g.route = h.route /\ g.key = h.key /\ g.ids = h.ids
        /\ g.left = h.left \ b /\ g.filed = h.filed /\ g.org = h.org
    BY DEF RotHandler
  <1>8. g \in RotHandler
    BY DEF RotHandler
  <1>9. g = [req[r] EXCEPT !.left = @ \ b]
    BY <1>6
  <1> HIDE DEF g, todo
  <1>10. CASE \E c \in b \cap Cipher \cap There : req[r].filed[c] # None /\ under[req[r].filed[c]] = None
    BY <1>1, <1>2, <1>3, <1>4, <1>10
  <1>11. CASE ~\E c \in b \cap Cipher \cap There : req[r].filed[c] # None /\ under[req[r].filed[c]] = None
    <2>1. /\ under' = [i \in Item |-> IF i \in b \cap There THEN req[r].key ELSE under[i]]
          /\ filed' = [c \in Cipher |-> IF c \in b \cap There THEN req[r].filed[c] ELSE filed[c]]
          /\ mixed' = (mixed \ b) \cup (b \cap (SettledByOther(r) \cup shared \cup FilesOf(shared)))
          /\ UNCHANGED <<knows, stale>>
          /\ Goto(r, g)
      BY <1>3, <1>9, <1>11
    <2>2. \A c \in b \cap Cipher \cap There : req[r].filed[c] # None => under[req[r].filed[c]] # None
      BY <1>11
    <2>3. b \in SUBSET (req[r].left \cap KindOf(req[r].stage))
      BY <1>5 DEF todo
    <2>4. /\ g.stage = req[r].stage /\ g.route = req[r].route /\ g.key = req[r].key /\ g.ids = req[r].ids
          /\ g.left = req[r].left \ b /\ g.filed = req[r].filed /\ g.org = req[r].org
      BY <1>6, <1>7
    <2> QED
      BY <1>1, <1>2, <1>4, <1>8, <2>1, <2>2, <2>3, <2>4
  <1> QED
    BY <1>10, <1>11

LEMMA RewriteStep ==
    ASSUME KeysInv, NEW r \in Req, Rewrite(r)
    PROVE  KeysInv'
  <1>1. Busy(req[r]) /\ req[r] \in RotHandler /\ req[r].route = "rotate" /\ UNCHANGED <<account, pend, shared, drawn>>
    BY RewriteDoes
  <1>2. req[r].key \in Key /\ Ordered(req[r])
    BY <1>1 DEF Busy
  <1>3. CASE Finish(r) /\ UNCHANGED <<under, filed>> /\ mixed' = mixed \cup Written(req[r])
    <2>1. Written(req[r]) \subseteq Item
      BY <1>1 DEF Written, RotHandler
    <2>2. mixed' \subseteq Item /\ knows' \subseteq Req /\ stale' \subseteq Req /\ drawn \subseteq Item \cup Key
      BY <1>3, <2>1, FinishTypes DEF KeysInv, RotTypeOK
    <2>3. TablesOK' /\ OrgOnly'
      BY <1>1, <1>3, <2>2, TablesStay DEF tables
    <2> QED
      BY <1>3, <2>3, FinishStep
  <1>4. CASE ~(Finish(r) /\ UNCHANGED <<under, filed>> /\ mixed' = mixed \cup Written(req[r]))
    <2>1. PICK b \in SUBSET (req[r].left \cap KindOf(req[r].stage)), g \in RotHandler :
                    /\ \A c \in b \cap Cipher \cap There : req[r].filed[c] # None => under[req[r].filed[c]] # None
                    /\ under' = [i \in Item |-> IF i \in b \cap There THEN req[r].key ELSE under[i]]
                    /\ filed' = [c \in Cipher |-> IF c \in b \cap There THEN req[r].filed[c] ELSE filed[c]]
                    /\ mixed' = (mixed \ b) \cup (b \cap (SettledByOther(r) \cup shared \cup FilesOf(shared)))
                    /\ UNCHANGED <<knows, stale>>
                    /\ Goto(r, g)
                    /\ g.stage = req[r].stage /\ g.route = req[r].route /\ g.key = req[r].key /\ g.ids = req[r].ids
                    /\ g.left = req[r].left \ b /\ g.filed = req[r].filed /\ g.org = req[r].org
                    /\ g.stage \in {"folders", "ciphers", "files", "sends"}
      BY <1>4, RewriteDoes
    <2>2. TablesOK /\ OrgOnly
      BY Types
    <2>3. None \notin Key /\ OrgKey \notin Key /\ \A c \in Cipher : req[r].filed[c] \in Folder \cup {None}
      BY <1>1, RotKeyAssumption DEF RotHandler
    <2>4. \A i \in Item : under'[i] # None <=> under[i] # None
      BY <1>2, <2>1, <2>3 DEF There
    <2>5. \A c \in Cipher : filed'[c] # None => under'[c] # None /\ under'[filed'[c]] # None
      <3> SUFFICES ASSUME NEW c \in Cipher, filed'[c] # None PROVE under'[c] # None /\ under'[filed'[c]] # None
        OBVIOUS
      <3>1. filed'[c] \in Folder /\ under[c] # None /\ under[filed'[c]] # None
        <4>1. CASE c \in b \cap There
          BY <2>1, <2>3, <4>1 DEF There
        <4>2. CASE c \notin b \cap There
          BY <2>1, <2>2, <4>2 DEF TablesOK
        <4> QED
          BY <4>1, <4>2
      <3> QED
        BY <2>4, <3>1 DEF Item
    <2>6. \A f \in File : under'[f] # None \/ pend'[f] # None => under'[Home[f]] # None
      BY <1>1, <2>2, <2>4, HomeAssumption DEF TablesOK, Item
    <2>7. mixed' \subseteq Item /\ b \subseteq Item
      BY <1>1, <2>1, <2>2 DEF TablesOK, RotHandler
    <2>8. under' \in [Item -> Key \cup {OrgKey, None}] /\ filed' \in [Cipher -> Folder \cup {None}]
      BY <1>2, <2>1, <2>2, <2>3 DEF TablesOK
    <2>9. TablesOK'
      BY <1>1, <2>1, <2>2, <2>5, <2>6, <2>7, <2>8 DEF TablesOK, account
    <2>10. OrgOnly'
      BY <1>1, <1>2, <2>1, <2>2, <2>3 DEF OrgOnly
    <2>11. Ordered(g)
      BY <1>2, <2>1 DEF Ordered, KindOf, Item
    <2>12. Busy(g)
      BY <1>1, <2>1, <2>11 DEF Busy, Rewriting, Edits
    <2> QED
      BY <2>1, <2>9, <2>10, <2>12, SlotStep DEF Sound
  <1> QED
    BY <1>3, <1>4

\* The key is replaced, and all tokens end.
LEMMA NewAccountStep ==
    ASSUME KeysInv, NEW r \in Req, NEW k \in Key, NewAccount(r, k), mixed' \subseteq Item
    PROVE  KeysInv'
  <1>1. TablesOK /\ OrgOnly
    BY Types
  <1>2. Goto(r, RotIdle) /\ UNCHANGED <<load, holds, under, pend, shared, filed, drawn>> /\ key' = k /\ live' = {}
    BY DEF NewAccount, tables
  <1>3. knows' \subseteq Req /\ stale' \subseteq Req
    BY <1>1 DEF NewAccount, TablesOK
  <1>4. TablesOK'
    BY <1>1, <1>2, <1>3 DEF TablesOK
  <1>5. OrgOnly'
    BY <1>1, <1>2 DEF OrgOnly
  <1> QED
    BY <1>2, <1>4, <1>5, SlotStep, IdleSound

LEMMA ReplaceStep ==
    ASSUME KeysInv, NEW r \in Req, Replace(r)
    PROVE  KeysInv'
  <1>1. Busy(req[r]) /\ req[r].stage = "replace"
    BY BusyHandler DEF Replace, At
  <1>2. req[r].key \in Key
    BY <1>1 DEF Busy, Rewriting
  <1>3. mixed' \subseteq Item
    BY DEF Replace, KeysInv, RotTypeOK
  <1> QED
    BY <1>2, <1>3, NewAccountStep DEF Replace

LEMMA ChangePasswordStep ==
    ASSUME KeysInv, NEW r \in Req, ChangePassword(r)
    PROVE  KeysInv'
  <1>1. Busy(req[r]) /\ req[r].route = "password"
    BY BusyHandler DEF ChangePassword, At
  <1>2. req[r].key \in Key
    BY <1>1 DEF Busy
  <1>3. mixed' \subseteq Item
    BY DEF ChangePassword, KeysInv, RotTypeOK, There
  <1> QED
    BY <1>2, <1>3, NewAccountStep DEF ChangePassword

LEMMA AnnounceStep ==
    ASSUME KeysInv, NEW r \in Req, Announce(r)
    PROVE  KeysInv'
  <1>1. Busy(req[r]) /\ req[r].route = "announce" /\ req[r].key \in Key
    BY BusyHandler DEF Announce, At, Busy
  <1>2. TablesOK /\ OrgOnly
    BY Types
  <1>3. PICK i \in req[r].ids : pend' = IF i \in File /\ under[Home[i]] = None THEN pend ELSE [pend EXCEPT ![i] = req[r].key]
    BY DEF Announce
  <1>4. i \in File \cup Send
    BY <1>1 DEF Busy
  <1>5. Finish(r) /\ UNCHANGED <<account, under, shared, filed, drawn, mixed>>
    BY DEF Announce
  <1>6. pend' \in [File \cup Send -> Key \cup {OrgKey, None}]
    BY <1>1, <1>2, <1>3 DEF TablesOK
  <1>7. \A f \in File \cup Send : pend'[f] # pend[f] => f = i /\ pend'[f] = req[r].key /\ (i \in File => under[Home[i]] # None)
    BY <1>2, <1>3, <1>4 DEF TablesOK
  <1>8. \A f \in File : under[f] # None \/ pend'[f] # None => under[Home[f]] # None
    BY <1>2, <1>7 DEF TablesOK
  <1>9. knows' \subseteq Req /\ stale' \subseteq Req
    BY <1>5, FinishTypes
  <1>10. TablesOK'
    BY <1>2, <1>5, <1>6, <1>8, <1>9 DEF TablesOK, account
  <1>11. OrgOnly'
    BY <1>1, <1>2, <1>5, <1>7, RotKeyAssumption DEF OrgOnly
  <1> QED
    BY <1>5, <1>10, <1>11, FinishStep

\* What a handler knows of the row it read.
LEMMA ReadItemDoes ==
    ASSUME KeysInv, NEW r \in Req, ReadItem(r)
    PROVE  /\ Busy(req[r]) /\ req[r].route \in {"update", "removePassword", "share"} /\ req[r].stage = "read"
           /\ UNCHANGED <<account, tables, drawn, mixed>>
           /\ \/ Finish(r)
              \/ \E i \in req[r].ids, g \in RotHandler :
                    /\ under[i] # None
                    /\ Goto(r, g)
                    /\ g.stage = "write" /\ g.route = req[r].route /\ g.ids = req[r].ids /\ g.left = req[r].left
                    /\ g.filed = req[r].filed /\ g.org = (i \in shared)
                    /\ g.key = IF req[r].route = "removePassword" THEN under[i]
                               ELSE IF i \in shared THEN OrgKey ELSE req[r].key
                    /\ stale' = IF req[r].route = "removePassword" /\ under[i] # key THEN stale \cup {r} ELSE stale
                    /\ UNCHANGED knows
  <1>1. Busy(req[r]) /\ req[r] \in RotHandler /\ req[r].stage = "read"
    BY BusyHandler DEF ReadItem, At
  <1>2. req[r].route \in {"update", "removePassword", "share"}
    BY <1>1 DEF Busy, Edits, ReadItem
  <1>3. UNCHANGED <<account, tables, drawn, mixed>>
    BY DEF ReadItem, RotQuery
  <1>4. PICK i \in req[r].ids :
          IF under[i] = None
          THEN Finish(r)
          ELSE /\ Goto(r, [req[r] EXCEPT !.stage = "write", !.org = i \in shared,
                             !.key = IF req[r].route = "removePassword" THEN under[i]
                                     ELSE IF i \in shared THEN OrgKey ELSE req[r].key])
               /\ stale' = IF req[r].route = "removePassword" /\ under[i] # key THEN stale \cup {r} ELSE stale
               /\ UNCHANGED knows
    BY DEF ReadItem
  <1>5. CASE under[i] = None
    BY <1>1, <1>2, <1>3, <1>4, <1>5
  <1>6. CASE under[i] # None
    <2>1. PICK h \in RotHandler : h = req[r]
      BY <1>1
    <2>2. PICK k : k = IF h.route = "removePassword" THEN under[i] ELSE IF i \in shared THEN OrgKey ELSE h.key
      OBVIOUS
    <2>3. k \in Key \cup {OrgKey, None}
      BY <1>1, <2>1, <2>2 DEF KeysInv, RotTypeOK, RotHandler
    <2>4. PICK o \in BOOLEAN : o = (i \in shared)
      <3>1. (i \in shared) \in BOOLEAN
        OBVIOUS
      <3> QED
        BY <3>1, Zenon
    <2> DEFINE g == [h EXCEPT !.stage = "write", !.org = o, !.key = k]
    <2>5. /\ g.stage = "write" /\ g.route = h.route /\ g.ids = h.ids /\ g.left = h.left /\ g.filed = h.filed
          /\ g.org = o /\ g.key = k
      BY DEF RotHandler
    <2>6. g \in RotHandler
      BY <2>3 DEF RotHandler, RotStage
    <2>7. Goto(r, g)
      BY <1>4, <1>6, <2>1, <2>2, <2>4
    <2> HIDE DEF g
    <2>8. /\ under[i] # None
          /\ stale' = IF req[r].route = "removePassword" /\ under[i] # key THEN stale \cup {r} ELSE stale
          /\ UNCHANGED knows
      BY <1>4, <1>6
    <2>9. g.org = (i \in shared)
      BY <2>4, <2>5
    <2> QED
      BY <1>1, <1>2, <1>3, <2>1, <2>2, <2>5, <2>6, <2>7, <2>8, <2>9
  <1> QED
    BY <1>5, <1>6

LEMMA ReadItemStep ==
    ASSUME KeysInv, NEW r \in Req, ReadItem(r)
    PROVE  KeysInv'
  <1>1. Busy(req[r]) /\ req[r].route \in {"update", "removePassword", "share"} /\ req[r].stage = "read"
    BY ReadItemDoes
  <1>2. UNCHANGED <<account, tables, drawn, mixed>> /\ drawn \subseteq Item \cup Key /\ mixed \subseteq Item
    BY ReadItemDoes DEF KeysInv, RotTypeOK
  <1>3. CASE Finish(r)
    <2>1. TablesOK' /\ OrgOnly'
      BY <1>2, <1>3, FinishTypes, TablesStay
    <2> QED
      BY <1>3, <2>1, FinishStep
  <1>4. CASE ~Finish(r)
    <2>1. PICK i \in req[r].ids, g \in RotHandler :
                    /\ under[i] # None
                    /\ Goto(r, g)
                    /\ g.stage = "write" /\ g.route = req[r].route /\ g.ids = req[r].ids /\ g.left = req[r].left
                    /\ g.filed = req[r].filed /\ g.org = (i \in shared)
                    /\ g.key = IF req[r].route = "removePassword" THEN under[i]
                               ELSE IF i \in shared THEN OrgKey ELSE req[r].key
                    /\ stale' = IF req[r].route = "removePassword" /\ under[i] # key THEN stale \cup {r} ELSE stale
                    /\ UNCHANGED knows
      BY <1>4, ReadItemDoes
    <2>2. knows' \subseteq Req /\ stale' \subseteq Req
      BY <2>1 DEF KeysInv, RotTypeOK
    <2>3. TablesOK' /\ OrgOnly'
      BY <1>2, <2>2, TablesStay
    <2>4. i \in Item /\ shared \subseteq Cipher /\ OrgOnly
      BY <2>1 DEF KeysInv, RotTypeOK, RotHandler
    <2>5. g.route \in Edits /\ \A j \in g.ids : j = i
      BY <1>1, <2>1 DEF Busy, Edits
    <2>6. g.route = "share" \/ g.org => g.ids \subseteq Cipher
      <3>1. CASE g.route = "share"
        BY <1>1, <2>1, <3>1 DEF Busy
      <3>2. CASE g.org
        BY <2>1, <2>4, <2>5, <3>2
      <3> QED
        BY <3>1, <3>2
    <2>7. g.key # None /\ (g.key = OrgKey <=> g.route = "share" \/ g.org)
      <3>1. ~req[r].org /\ req[r].key # None /\ (req[r].key = OrgKey <=> req[r].route = "share")
        BY <1>1 DEF Busy, Edits
      <3>2. CASE req[r].route = "removePassword"
        <4>1. i \in Send /\ i \notin shared /\ under[i] # OrgKey
          BY <1>1, <2>1, <2>4, <3>2, KindsAssumption DEF Busy, OrgOnly
        <4> QED
          BY <2>1, <3>2, <4>1
      <3>3. CASE req[r].route # "removePassword"
        BY <2>1, <3>1, <3>3, RotKeyAssumption
      <3> QED
        BY <3>2, <3>3
    <2>8. Busy(g)
      BY <1>1, <2>1, <2>5, <2>6, <2>7 DEF Busy, Edits, Rewriting
    <2> QED
      BY <2>1, <2>3, <2>8, SlotStep DEF Sound
  <1> QED
    BY <1>3, <1>4

LEMMA MixingTypes ==
    ASSUME KeysInv, NEW r, NEW i \in Item, NEW k, Mixing(r, i, k)
    PROVE  mixed' \subseteq Item
  BY DEF KeysInv, RotTypeOK, Mixing

LEMMA InsertDoes ==
    ASSUME KeysInv, NEW r \in Req, Insert(r)
    PROVE  /\ Busy(req[r]) /\ req[r] \in RotHandler /\ req[r].route = "create" /\ req[r].stage = "write"
           /\ Finish(r) /\ UNCHANGED <<account, pend, shared, drawn>>
           /\ \/ UNCHANGED <<under, filed, mixed>>
              \/ \E i \in req[r].ids :
                    /\ i \in Item \ File
                    /\ i \in Cipher /\ req[r].filed[i] # None => under[req[r].filed[i]] # None
                    /\ under' = [under EXCEPT ![i] = req[r].key]
                    /\ filed' = [c \in Cipher |-> IF c = i THEN req[r].filed[c] ELSE filed[c]]
                    /\ Mixing(r, i, req[r].key)
  <1>1. Busy(req[r]) /\ req[r] \in RotHandler /\ req[r].stage = "write" /\ req[r].route = "create"
    BY BusyHandler DEF Insert, At
  <1>2. req[r].ids \subseteq Item \ File
    BY <1>1 DEF Busy, RotHandler
  <1> QED
    BY <1>1, <1>2 DEF Insert

LEMMA InsertStep ==
    ASSUME KeysInv, NEW r \in Req, Insert(r)
    PROVE  KeysInv'
  <1>1. Busy(req[r]) /\ req[r] \in RotHandler /\ req[r].route = "create" /\ Finish(r) /\ UNCHANGED <<account, pend, shared, drawn>>
    BY InsertDoes
  <1>2. TablesOK /\ OrgOnly /\ knows' \subseteq Req /\ stale' \subseteq Req
    BY <1>1, Types, FinishTypes
  <1>3. CASE UNCHANGED <<under, filed, mixed>>
    <2>1. TablesOK' /\ OrgOnly'
      BY <1>1, <1>2, <1>3, TablesStay DEF tables, TablesOK
    <2> QED
      BY <1>1, <2>1, FinishStep
  <1>4. CASE ~UNCHANGED <<under, filed, mixed>>
    <2>1. PICK i \in req[r].ids :
                    /\ i \in Item \ File
                    /\ i \in Cipher /\ req[r].filed[i] # None => under[req[r].filed[i]] # None
                    /\ under' = [under EXCEPT ![i] = req[r].key]
                    /\ filed' = [c \in Cipher |-> IF c = i THEN req[r].filed[c] ELSE filed[c]]
                    /\ Mixing(r, i, req[r].key)
      BY <1>4, InsertDoes
    <2>2. req[r].key \in Key /\ req[r].key # None /\ req[r].key # OrgKey /\ req[r].filed \in [Cipher -> Folder \cup {None}]
      BY <1>1, RotKeyAssumption DEF Busy, RotHandler
    <2>3. under' \in [Item -> Key \cup {OrgKey, None}] /\ filed' \in [Cipher -> Folder \cup {None}]
      BY <1>2, <2>1, <2>2 DEF TablesOK
    <2>4. \A j \in Item : under[j] # None => under'[j] # None
      BY <1>2, <2>1, <2>2 DEF TablesOK
    <2>5. under'[i] = req[r].key /\ \A j \in Item \ {i} : under'[j] = under[j]
      BY <1>2, <2>1 DEF TablesOK
    <2>6. \A c \in Cipher : filed'[c] # None => under'[c] # None /\ under'[filed'[c]] # None
      <3> SUFFICES ASSUME NEW c \in Cipher, filed'[c] # None PROVE under'[c] # None /\ under'[filed'[c]] # None
        OBVIOUS
      <3>1. filed'[c] \in Folder /\ under'[c] # None /\ under[filed'[c]] # None
        <4>1. CASE c = i
          BY <2>1, <2>2, <2>5, <4>1
        <4>2. CASE c # i
          BY <1>2, <2>1, <2>3, <2>4, <4>2 DEF TablesOK, Item
        <4> QED
          BY <4>1, <4>2
      <3> QED
        BY <2>4, <3>1 DEF Item
    <2>7. \A f \in File : under'[f] # None \/ pend'[f] # None => under'[Home[f]] # None
      <3>1. \A f \in File : under'[f] = under[f] /\ pend'[f] = pend[f] /\ Home[f] \in Item
        BY <1>1, <2>1, <2>5, HomeAssumption DEF Item
      <3> QED
        BY <1>2, <2>4, <3>1 DEF TablesOK
    <2>8. mixed' \subseteq Item
      BY <2>1, MixingTypes
    <2>9. TablesOK'
      BY <1>1, <1>2, <2>3, <2>6, <2>7, <2>8 DEF TablesOK, account
    <2>10. OrgOnly'
      BY <1>1, <1>2, <2>2, <2>5 DEF OrgOnly
    <2> QED
      BY <1>1, <2>9, <2>10, FinishStep
  <1> QED
    BY <1>3, <1>4

LEMMA UpdateDoes ==
    ASSUME KeysInv, NEW r \in Req, Update(r)
    PROVE  /\ Busy(req[r]) /\ req[r] \in RotHandler /\ req[r].stage = "write" /\ req[r].key # None
           /\ req[r].route \in {"update", "removePassword", "share"}
           /\ Finish(r) /\ UNCHANGED <<account, pend, drawn>>
           /\ \/ UNCHANGED <<under, shared, filed, mixed>>
              \/ \E i \in req[r].ids :
                    /\ i \in Item \ File /\ under[i] # None
                    /\ under' = [under EXCEPT ![i] = req[r].key]
                    /\ \/ /\ i \in Cipher /\ req[r].key = OrgKey
                          /\ shared' = shared \cup {i}
                          /\ filed' = [c \in Cipher |-> IF c = i THEN None ELSE filed[c]]
                          /\ mixed' = (mixed \ {i}) \cup FilesOf({i})
                       \/ /\ req[r].key # OrgKey /\ shared' = shared \ {i}
                          /\ filed' = filed
                          /\ Mixing(r, i, req[r].key)
  <1>1. /\ Busy(req[r]) /\ req[r] \in RotHandler /\ req[r].stage = "write"
        /\ req[r].route \in {"update", "removePassword", "share"}
        /\ Finish(r) /\ UNCHANGED <<account, pend, drawn>>
    BY BusyHandler DEF Update, At
  <1>2. PICK i \in req[r].ids :
          IF under[i] = None THEN UNCHANGED <<under, shared, filed, mixed>>
          ELSE /\ under' = [under EXCEPT ![i] = req[r].key]
               /\ shared' = IF i \notin Cipher THEN shared
                            ELSE IF req[r].route = "share" \/ req[r].org THEN shared \cup {i} ELSE shared \ {i}
               /\ filed' = [c \in Cipher |-> IF c = i /\ (req[r].route = "share" \/ req[r].org) THEN None ELSE filed[c]]
               /\ IF req[r].route = "share" \/ req[r].org THEN mixed' = (mixed \ {i}) \cup FilesOf({i})
                  ELSE Mixing(r, i, req[r].key)
    BY DEF Update
  <1>3. /\ req[r].key # None /\ (req[r].key = OrgKey <=> req[r].route = "share" \/ req[r].org)
        /\ (req[r].route = "share" \/ req[r].org => i \in Cipher) /\ i \in Item \ File
    BY <1>1 DEF Busy, Edits, RotHandler
  <1>4. shared \subseteq Cipher /\ filed \in [Cipher -> Folder \cup {None}]
    BY DEF KeysInv, RotTypeOK
  <1>5. CASE under[i] = None
    BY <1>1, <1>2, <1>3, <1>5
  <1>6. CASE under[i] # None /\ (req[r].route = "share" \/ req[r].org)
    <2>1. /\ shared' = shared \cup {i}
          /\ filed' = [c \in Cipher |-> IF c = i THEN None ELSE filed[c]]
          /\ mixed' = (mixed \ {i}) \cup FilesOf({i})
          /\ under' = [under EXCEPT ![i] = req[r].key]
      BY <1>2, <1>3, <1>6
    <2> QED
      BY <1>1, <1>3, <1>6, <2>1
  <1>7. CASE under[i] # None /\ ~(req[r].route = "share" \/ req[r].org)
    <2>1. under' = [under EXCEPT ![i] = req[r].key] /\ Mixing(r, i, req[r].key)
      BY <1>2, <1>7
    <2>2. shared' = shared \ {i}
      BY <1>2, <1>4, <1>7
    <2>3. filed' = [c \in Cipher |-> filed[c]]
      BY <1>2, <1>7
    <2>4. filed' = filed
      BY <1>4, <2>3
    <2> QED
      BY <1>1, <1>3, <1>7, <2>1, <2>2, <2>4
  <1> QED
    BY <1>5, <1>6, <1>7

LEMMA UpdateStep ==
    ASSUME KeysInv, NEW r \in Req, Update(r)
    PROVE  KeysInv'
  <1>1. /\ Busy(req[r]) /\ req[r] \in RotHandler /\ req[r].key # None
        /\ Finish(r) /\ UNCHANGED <<account, pend, drawn>>
    BY UpdateDoes
  <1>2. TablesOK /\ OrgOnly /\ knows' \subseteq Req /\ stale' \subseteq Req
    BY <1>1, Types, FinishTypes
  <1>3. CASE UNCHANGED <<under, shared, filed, mixed>>
    <2>1. TablesOK' /\ OrgOnly'
      BY <1>1, <1>2, <1>3, TablesStay DEF tables, TablesOK
    <2> QED
      BY <1>1, <2>1, FinishStep
  <1>4. CASE ~UNCHANGED <<under, shared, filed, mixed>>
    <2>1. PICK i \in req[r].ids :
                    /\ i \in Item \ File /\ under[i] # None
                    /\ under' = [under EXCEPT ![i] = req[r].key]
                    /\ \/ /\ i \in Cipher /\ req[r].key = OrgKey
                          /\ shared' = shared \cup {i}
                          /\ filed' = [c \in Cipher |-> IF c = i THEN None ELSE filed[c]]
                          /\ mixed' = (mixed \ {i}) \cup FilesOf({i})
                       \/ /\ req[r].key # OrgKey /\ shared' = shared \ {i}
                          /\ filed' = filed
                          /\ Mixing(r, i, req[r].key)
      BY <1>4, UpdateDoes
    <2>2. under' \in [Item -> Key \cup {OrgKey, None}]
      BY <1>1, <1>2, <2>1 DEF TablesOK, RotHandler
    <2>3. filed' \in [Cipher -> Folder \cup {None}] /\ \A c \in Cipher : filed'[c] \in {None, filed[c]}
      BY <1>2, <2>1 DEF TablesOK
    <2>4. under'[i] = req[r].key /\ \A j \in Item \ {i} : under'[j] = under[j]
      BY <1>2, <2>1 DEF TablesOK
    <2>5. \A j \in Item : under'[j] # None <=> under[j] # None
      BY <1>1, <2>1, <2>4
    <2>6. \A c \in Cipher : filed'[c] # None => under'[c] # None /\ under'[filed'[c]] # None
      <3> SUFFICES ASSUME NEW c \in Cipher, filed'[c] # None PROVE under'[c] # None /\ under'[filed'[c]] # None
        OBVIOUS
      <3>1. filed'[c] = filed[c] /\ filed[c] \in Folder /\ under[c] # None /\ under[filed[c]] # None
        BY <1>2, <2>3 DEF TablesOK
      <3> QED
        BY <2>5, <3>1 DEF Item
    <2>7. \A f \in File : under'[f] # None \/ pend'[f] # None => under'[Home[f]] # None
      BY <1>1, <1>2, <2>5, HomeAssumption DEF TablesOK, Item
    <2>8. mixed' \subseteq Item /\ shared' \subseteq Cipher
      <3>1. CASE mixed' = (mixed \ {i}) \cup FilesOf({i})
        BY <1>2, <2>1, <3>1 DEF TablesOK, FilesOf, Item
      <3>2. CASE Mixing(r, i, req[r].key)
        BY <1>2, <2>1, <3>2, MixingTypes DEF TablesOK
      <3> QED
        BY <2>1, <3>1, <3>2
    <2>9. TablesOK'
      BY <1>1, <1>2, <2>2, <2>3, <2>6, <2>7, <2>8 DEF TablesOK, account
    <2>10. OrgOnly'
      <3>1. under'[i] = OrgKey => i \in Cipher
        BY <2>1, <2>4
      <3> QED
        BY <1>1, <1>2, <2>4, <3>1 DEF OrgOnly
    <2> QED
      BY <1>1, <2>9, <2>10, FinishStep
  <1> QED
    BY <1>3, <1>4

LEMMA DeleteDoes ==
    ASSUME KeysInv, NEW r \in Req, Delete(r)
    PROVE  /\ req[r].stage = "read" /\ req[r].route = "delete"
           /\ Finish(r) /\ UNCHANGED <<account, drawn, mixed>>
           /\ \E gone \in SUBSET Item :
                 /\ under' = [i \in Item |-> IF i \in gone THEN None ELSE under[i]]
                 /\ pend' = [i \in File \cup Send |-> IF i \in FilesOf(gone) THEN None ELSE pend[i]]
                 /\ filed' = [c \in Cipher |-> IF c \in gone \/ filed[c] \in gone THEN None ELSE filed[c]]
                 /\ shared' = shared \ gone
                 /\ \A f \in File : Home[f] \in gone => f \in gone
  <1>1. Busy(req[r]) /\ req[r] \in RotHandler /\ req[r].stage = "read" /\ req[r].route = "delete"
    BY BusyHandler DEF Delete, At
  <1>2. PICK gone : gone = req[r].ids \cup FilesOf(req[r].ids)
    OBVIOUS
  <1>3. gone \subseteq Item
    BY <1>1, <1>2 DEF RotHandler, FilesOf, Item
  <1>4. \A f \in File : Home[f] \in gone => f \in gone
    BY <1>2, HomeAssumption, KindsAssumption DEF FilesOf
  <1>5. /\ under' = [i \in Item |-> IF i \in gone THEN None ELSE under[i]]
        /\ pend' = [i \in File \cup Send |-> IF i \in FilesOf(gone) THEN None ELSE pend[i]]
        /\ filed' = [c \in Cipher |-> IF c \in gone \/ filed[c] \in gone THEN None ELSE filed[c]]
        /\ shared' = shared \ gone
    BY <1>2 DEF Delete
  <1>6. Finish(r) /\ UNCHANGED <<account, drawn, mixed>>
    BY DEF Delete
  <1> QED
    BY <1>1, <1>3, <1>4, <1>5, <1>6

LEMMA DeleteStep ==
    ASSUME KeysInv, NEW r \in Req, Delete(r)
    PROVE  KeysInv'
  <1>1. Finish(r) /\ UNCHANGED <<account, drawn, mixed>>
    BY DeleteDoes
  <1>2. TablesOK /\ OrgOnly /\ knows' \subseteq Req /\ stale' \subseteq Req
    BY <1>1, Types, FinishTypes
  <1>3. PICK gone \in SUBSET Item :
                 /\ under' = [i \in Item |-> IF i \in gone THEN None ELSE under[i]]
                 /\ pend' = [i \in File \cup Send |-> IF i \in FilesOf(gone) THEN None ELSE pend[i]]
                 /\ filed' = [c \in Cipher |-> IF c \in gone \/ filed[c] \in gone THEN None ELSE filed[c]]
                 /\ shared' = shared \ gone
                 /\ \A f \in File : Home[f] \in gone => f \in gone
    BY DeleteDoes
  <1>4. /\ under' \in [Item -> Key \cup {OrgKey, None}]
        /\ pend' \in [File \cup Send -> Key \cup {OrgKey, None}]
        /\ filed' \in [Cipher -> Folder \cup {None}]
    BY <1>2, <1>3 DEF TablesOK
  <1>5. \A c \in Cipher : filed'[c] # None => under'[c] # None /\ under'[filed'[c]] # None
    <2> SUFFICES ASSUME NEW c \in Cipher, filed'[c] # None PROVE under'[c] # None /\ under'[filed'[c]] # None
      OBVIOUS
    <2>1. c \notin gone /\ filed[c] \notin gone /\ filed'[c] = filed[c] /\ filed[c] \in Folder
      BY <1>2, <1>3 DEF TablesOK
    <2> QED
      BY <1>2, <1>3, <2>1 DEF TablesOK, Item
  <1>6. \A f \in File : under'[f] # None \/ pend'[f] # None => under'[Home[f]] # None
    <2> SUFFICES ASSUME NEW f \in File, under'[f] # None \/ pend'[f] # None PROVE under'[Home[f]] # None
      OBVIOUS
    <2>1. f \in Item /\ Home[f] \in Item
      BY HomeAssumption DEF Item
    <2>2. Home[f] \notin gone
      BY <1>3, <2>1 DEF FilesOf
    <2>3. under[f] # None \/ pend[f] # None
      BY <1>3, <2>1 DEF FilesOf
    <2> QED
      BY <1>2, <1>3, <2>1, <2>2, <2>3 DEF TablesOK
  <1>7. shared' \subseteq Cipher
    BY <1>2, <1>3 DEF TablesOK
  <1>8. TablesOK'
    BY <1>1, <1>2, <1>4, <1>5, <1>6, <1>7 DEF TablesOK, account
  <1>9. OrgOnly'
    <2>1. \A i \in Item : under'[i] \in {None, under[i]}
      BY <1>3
    <2>2. \A i \in File \cup Send : pend'[i] \in {None, pend[i]}
      BY <1>3
    <2> QED
      BY <1>2, <2>1, <2>2, RotKeyAssumption DEF OrgOnly
  <1> QED
    BY <1>1, <1>8, <1>9, FinishStep

LEMMA FinalizeStep ==
    ASSUME KeysInv, NEW i \in File \cup Send, FinalizePending(i)
    PROVE  KeysInv'
  <1>1. TablesOK /\ OrgOnly /\ req \in [Req -> RotHandler] /\ i \in Item
    BY Types DEF Item
  <1>2. /\ under' = [under EXCEPT ![i] = pend[i]] /\ pend[i] # None
        /\ pend' = [pend EXCEPT ![i] = None]
        /\ UNCHANGED <<account, shared, filed, req, knows, drawn, stale>>
        /\ mixed' \subseteq mixed \cup {i}
    BY DEF FinalizePending
  <1>3. /\ under' \in [Item -> Key \cup {OrgKey, None}] /\ pend' \in [File \cup Send -> Key \cup {OrgKey, None}]
        /\ under'[i] = pend[i] /\ \A j \in Item \ {i} : under'[j] = under[j]
        /\ \A j \in File \cup Send : pend'[j] \in {None, pend[j]}
        /\ mixed' \subseteq Item
    BY <1>1, <1>2 DEF TablesOK
  <1>4. \A j \in Item : under[j] # None => under'[j] # None
    BY <1>2, <1>3
  <1>5. \A c \in Cipher : filed'[c] # None => under'[c] # None /\ under'[filed'[c]] # None
    <2>1. \A c \in Cipher : filed[c] # None => filed[c] \in Item /\ c \in Item
      BY <1>1 DEF TablesOK, Item
    <2> QED
      BY <1>1, <1>2, <1>4, <2>1 DEF TablesOK
  <1>6. \A f \in File : under'[f] # None \/ pend'[f] # None => under'[Home[f]] # None
    <2> SUFFICES ASSUME NEW f \in File, under'[f] # None \/ pend'[f] # None PROVE under'[Home[f]] # None
      OBVIOUS
    <2>1. f \in Item /\ Home[f] \in Item
      BY HomeAssumption DEF Item
    <2>2. under[f] # None \/ pend[f] # None
      BY <1>2, <1>3, <2>1
    <2> QED
      BY <1>1, <1>4, <2>1, <2>2 DEF TablesOK
  <1>7. TablesOK'
    BY <1>1, <1>2, <1>3, <1>5, <1>6 DEF TablesOK, account
  <1>8. OrgOnly'
    BY <1>1, <1>2, <1>3, RotKeyAssumption DEF OrgOnly
  <1>9. RotTypeOK'
    BY <1>1, <1>2, <1>7 DEF RotTypeOK, TablesOK
  <1>10. AllSound'
    BY <1>2 DEF KeysInv, AllSound
  <1> QED
    BY <1>8, <1>9, <1>10 DEF KeysInv

LEMMA LoginStep ==
    ASSUME KeysInv, NEW s \in Session, Login(s)
    PROVE  KeysInv'
  <1>1. TablesOK /\ OrgOnly /\ req \in [Req -> RotHandler] /\ AllSound
    BY Types DEF KeysInv
  <1>2. /\ live' = live \cup {s} /\ holds' = [holds EXCEPT ![s] = key]
        /\ UNCHANGED <<load, key, under, pend, shared, filed, req, knows, drawn, stale, mixed>>
    BY DEF Login, tables
  <1>3. live' \subseteq Session /\ holds' \in [Session -> Key]
    BY <1>1, <1>2 DEF TablesOK
  <1>4. RotTypeOK'
    BY <1>1, <1>2, <1>3 DEF RotTypeOK, TablesOK
  <1>5. AllSound' /\ OrgOnly'
    BY <1>1, <1>2 DEF AllSound, OrgOnly
  <1> QED
    BY <1>4, <1>5 DEF KeysInv

LEMMA DieStep ==
    ASSUME KeysInv, NEW r \in Req, Die(r)
    PROVE  KeysInv'
  <1>1. req[r] \in RotHandler /\ Finish(r) /\ UNCHANGED <<account, tables, drawn>> /\ mixed' = mixed \cup Written(req[r])
    BY DEF Die, KeysInv, RotTypeOK
  <1>2. Written(req[r]) \subseteq Item
    BY <1>1 DEF Written, RotHandler
  <1>3. mixed' \subseteq Item /\ knows' \subseteq Req /\ stale' \subseteq Req /\ drawn \subseteq Item \cup Key
    BY <1>1, <1>2, FinishTypes DEF KeysInv, RotTypeOK
  <1>4. TablesOK' /\ OrgOnly'
    BY <1>1, <1>3, TablesStay
  <1> QED
    BY <1>1, <1>4, FinishStep

LEMMA KeysInit == RotInit => KeysInv
  <1> SUFFICES ASSUME RotInit PROVE KeysInv
    OBVIOUS
  <1>1. load \in RotWorkloads /\ load.first \subseteq Item /\ \A f \in File \cap load.first : Home[f] \in load.first
    BY RotWorkloadAssumption DEF RotInit, RotWorkload
  <1>2. \A i \in Item : under[i] = IF i \in load.first THEN FirstKey ELSE None
    BY DEF RotInit
  <1>3. FirstKey \in Key /\ FirstKey # None /\ FirstKey # OrgKey /\ None # OrgKey
    BY RotKeyAssumption
  <1>4. \A f \in File : f \in Item /\ Home[f] \in Item
    BY HomeAssumption DEF Item
  <1>5. \A f \in File : under[f] # None \/ pend[f] # None => under[Home[f]] # None
    BY <1>1, <1>2, <1>3, <1>4 DEF RotInit
  <1>6. \A c \in Cipher : filed[c] # None => under[c] # None /\ under[filed[c]] # None
    BY <1>1, <1>2, <1>3 DEF RotInit
  <1>7. under \in [Item -> Key \cup {OrgKey, None}] /\ pend \in [File \cup Send -> Key \cup {OrgKey, None}]
    BY <1>3 DEF RotInit
  <1>8. req \in [Req -> RotHandler] /\ AllSound
    BY IdleSound DEF RotInit, AllSound
  <1>9. OrgOnly
    BY <1>2, <1>3 DEF RotInit, OrgOnly
  <1>10. /\ key \in Key /\ live \subseteq Session /\ holds \in [Session -> Key] /\ shared \subseteq Cipher
         /\ filed \in [Cipher -> Folder \cup {None}]
         /\ knows \subseteq Req /\ stale \subseteq Req /\ drawn \subseteq Item \cup Key /\ mixed \subseteq Item
    BY <1>1, <1>3 DEF RotInit
  <1> QED
    BY <1>1, <1>5, <1>6, <1>7, <1>8, <1>9, <1>10 DEF KeysInv, RotTypeOK

LEMMA KeysNext == KeysInv /\ [RotNext]_rotVars => KeysInv'
  <1> SUFFICES ASSUME KeysInv, [RotNext]_rotVars PROVE KeysInv'
    OBVIOUS
  <1>1. ASSUME NEW r \in Req, Rotating(r) PROVE KeysInv'
    BY <1>1, ReadUserStep, ValidateStep, RewriteStep, RewrittenStep, CheckSendsStep, ReplaceStep DEF Rotating
  <1>2. ASSUME NEW r \in Req, Changing(r) PROVE KeysInv'
    BY <1>2, ReadItemStep, InsertStep, UpdateStep, DeleteStep, AnnounceStep, ChangePasswordStep DEF Changing
  <1>3. CASE UNCHANGED rotVars
    BY <1>3 DEF rotVars, KeysInv, RotTypeOK, AllSound, OrgOnly
  <1> QED
    BY <1>1, <1>2, <1>3, AskedStep, DieStep, FinalizeStep, LoginStep DEF RotNext

\* The types hold of the account, its tables, and all handlers: a filed cipher has its
\* folder and an attachment its cipher, whatever handlers delete in between.
THEOREM RotTypeCorrect == RotSpec => []RotTypeOK
  <1>1. KeysInv => RotTypeOK
    BY DEF KeysInv
  <1> QED
    BY KeysInit, KeysNext, <1>1, PTL DEF RotSpec

-----------------------------------------------------------------------------
\* One key

\* Ids of ciphers are drawn once.
CreateFresh ==
    /\ \A c \in shared : under[c] # None
    /\ \A c \in Cipher : under[c] # None => c \in drawn
    /\ \A r \in Req : req[r].route = "create" =>
          req[r].ids \subseteq drawn /\ \A c \in req[r].ids \cap Cipher : under[c] = None
    /\ \A r, q \in Req : r # q /\ req[r].route = "create" /\ req[q].route = "create" => req[r].ids \cap req[q].ids = {}

\* A session that may still ask holds the key of the account, and what a handler writes is
\* under it, unless the handler began before the key changed.
HeldKeys == \A s \in live : holds[s] = key
Current ==
    \A r \in Req : req[r].stage # "idle" /\ req[r].route # "rotate" => req[r].key \in {key, OrgKey} \/ r \in stale

\* What a rotation does not have before it is what it has rewritten.
Kept(h) ==
    \A i \in Settled(h) :
        under[i] # None => i \in mixed \cup shared \/ (i \in Written(h) /\ under[i] = h.key)
AllKept == \A r \in Req : Kept(req[r])

FilesMixed == \A f \in File : under[f] # None /\ Home[f] \in shared => f \in mixed
SharedKeys == \A c \in shared : under[c] # None => c \in mixed \/ under[c] = OrgKey

HandlersInv == CreateFresh /\ HeldKeys /\ Current
ItemsInv == FilesMixed /\ SharedKeys /\ AllKept /\ OneKey
OneKeyInv == KeysInv /\ HandlersInv /\ ItemsInv

\* A step leaves all items but those of T, or deletes them.
Untouched(T) ==
    \A i \in Item \ T :
        /\ under'[i] \in {None, under[i]}
        /\ i \in mixed => i \in mixed'
        /\ under'[i] # None => (i \in shared' <=> i \in shared)

\* The items a step writes end under their key, or under that of the rotation that
\* wrote them, and r gives up none it has rewritten.
LEMMA KeyStays ==
    ASSUME KeysInv, ItemsInv, NEW r \in Req, NEW g, NEW T, Goto(r, g), key' = key, Untouched(T),
           \A i \in Written(req[r]) \ T : i \in mixed' \/ (i \in Written(g) /\ g.key = req[r].key),
           \A i \in T : \/ under'[i] = None \/ i \in mixed'
                        \/ under'[i] = IF i \in shared' THEN OrgKey ELSE key
                        \/ i \in Written(g) /\ under'[i] = g.key
    PROVE  OneKey'
  <1>1. \A q \in Req : req'[q] = IF q = r THEN g ELSE req[q]
    BY DEF KeysInv, RotTypeOK, Goto
  <1> SUFFICES ASSUME NEW i \in Item, under'[i] # None, i \notin mixed'
               PROVE  \/ under'[i] = IF i \in shared' THEN OrgKey ELSE key'
                      \/ \E q \in Req : i \in Written(req'[q]) /\ under'[i] = req'[q].key
    BY DEF OneKey, There, Proper
  <1>2. CASE i \in T
    BY <1>1, <1>2
  <1>3. CASE i \notin T
    <2>1. under'[i] = under[i] /\ i \notin mixed /\ (i \in shared' <=> i \in shared)
      BY <1>3 DEF Untouched
    <2>2. under[i] = Proper(i) \/ \E q \in Req : i \in Written(req[q]) /\ under[i] = req[q].key
      BY <2>1 DEF ItemsInv, OneKey, There
    <2>3. CASE under[i] = Proper(i)
      BY <2>1, <2>3 DEF Proper
    <2>4. CASE \E q \in Req : i \in Written(req[q]) /\ under[i] = req[q].key
      BY <1>1, <1>3, <2>1, <2>4
    <2> QED
      BY <2>2, <2>3, <2>4
  <1> QED
    BY <1>2, <1>3

\* What is written is in mixed when another rotation will not come to it.
LEMMA KeptStays ==
    ASSUME KeysInv, ItemsInv, NEW r \in Req, NEW g, NEW T, Goto(r, g), Untouched(T), Kept(g)',
           \A i \in T \cap SettledByOther(r) : under'[i] = None \/ i \in mixed' \cup shared'
    PROVE  AllKept'
  <1>1. \A q \in Req : req'[q] = IF q = r THEN g ELSE req[q]
    BY DEF KeysInv, RotTypeOK, Goto
  <1>2. ASSUME NEW q \in Req, q # r, NEW i \in Settled(req[q]), under'[i] # None
        PROVE  i \in mixed' \cup shared' \/ (i \in Written(req[q]) /\ under'[i] = req[q].key)
    <2>1. CASE i \in T
      BY <1>2, <2>1 DEF SettledByOther
    <2>2. CASE i \notin T
      <3>1. i \in Item
        BY <1>2 DEF Settled, Item
      <3>2. under'[i] = under[i] /\ (i \in mixed => i \in mixed') /\ (i \in shared' <=> i \in shared)
        BY <1>2, <2>2, <3>1 DEF Untouched
      <3> QED
        BY <1>2, <3>2 DEF ItemsInv, AllKept, Kept
    <2> QED
      BY <2>1, <2>2
  <1> SUFFICES ASSUME NEW q \in Req PROVE Kept(req[q])'
    BY DEF AllKept
  <1>3. CASE q = r
    BY <1>1, <1>3 DEF Kept
  <1>4. CASE q # r
    BY <1>1, <1>2, <1>4 DEF Kept
  <1> QED
    BY <1>3, <1>4

LEMMA IdleKept == Kept(RotIdle)' /\ Kept(RotIdle) /\ Written(RotIdle) = {} /\ Settled(RotIdle) = {}
  <1>1. Written(RotIdle) = {} /\ Settled(RotIdle) = {}
    BY DEF RotIdle, Written, Settled
  <1> QED
    BY <1>1 DEF Kept

\* The attachments of shared ciphers stay in mixed, and the ciphers under their key.
LEMMA SharedStays ==
    ASSUME KeysInv, ItemsInv, NEW T, Untouched(T), shared' \subseteq shared,
           \A f \in File \cap T : under'[f] # None /\ Home[f] \in shared' => f \in mixed',
           \A c \in shared' \cap T : c \in mixed'
    PROVE  FilesMixed' /\ SharedKeys'
  <1>1. FilesMixed'
    <2> SUFFICES ASSUME NEW f \in File, under'[f] # None, Home[f] \in shared' PROVE f \in mixed'
      BY DEF FilesMixed
    <2>1. CASE f \in T
      BY <2>1
    <2>2. CASE f \notin T
      <3>1. f \in Item /\ Home[f] \in shared
        BY DEF Item
      <3>2. under[f] # None /\ (f \in mixed => f \in mixed')
        BY <2>2, <3>1 DEF Untouched
      <3> QED
        BY <3>1, <3>2 DEF ItemsInv, FilesMixed
    <2> QED
      BY <2>1, <2>2
  <1>2. SharedKeys'
    <2> SUFFICES ASSUME NEW c \in shared', under'[c] # None PROVE c \in mixed' \/ under'[c] = OrgKey
      BY DEF SharedKeys
    <2>1. CASE c \in T
      BY <2>1
    <2>2. CASE c \notin T
      <3>1. c \in Item /\ c \in shared
        BY DEF Item, KeysInv, RotTypeOK
      <3>2. under'[c] = under[c] /\ (c \in mixed => c \in mixed')
        BY <2>2, <3>1 DEF Untouched
      <3> QED
        BY <3>1, <3>2 DEF ItemsInv, SharedKeys
    <2> QED
      BY <2>1, <2>2
  <1> QED
    BY <1>1, <1>2

\* No item is written or deleted.
LEMMA MovesItems ==
    ASSUME KeysInv, ItemsInv, NEW r \in Req, NEW g, Goto(r, g), UNCHANGED <<key, under, shared>>, mixed \subseteq mixed',
           \A i \in Written(req[r]) : i \in mixed' \/ (i \in Written(g) /\ g.key = req[r].key), Kept(g)'
    PROVE  ItemsInv'
  <1>1. Untouched({}) /\ shared' \subseteq shared
    BY DEF Untouched
  <1>2. OneKey'
    BY <1>1, KeyStays
  <1>3. AllKept'
    BY <1>1, KeptStays
  <1>4. FilesMixed' /\ SharedKeys'
    BY <1>1, SharedStays
  <1> QED
    BY <1>2, <1>3, <1>4 DEF ItemsInv

LEMMA EndsItems ==
    ASSUME KeysInv, ItemsInv, NEW r \in Req, Finish(r), UNCHANGED <<key, under, shared>>, mixed \subseteq mixed',
           Written(req[r]) \subseteq mixed'
    PROVE  ItemsInv'
  BY MovesItems, IdleKept DEF Finish

LEMMA NotRewriting ==
    ASSUME NEW h, h.stage \notin Rewriting
    PROVE  Written(h) = {}
  BY DEF Written, Rewriting

LEMMA AskedItems ==
    ASSUME KeysInv, ItemsInv, NEW r \in Req, NEW s \in Session, Asked(r, s)
    PROVE  ItemsInv'
  <1>1. /\ At(r, "idle") /\ UNCHANGED <<key, under, shared, mixed>>
    BY RequestBegins DEF account, tables
  <1>2. PICK g \in RotHandler : Goto(r, g) /\ Begun(g, s)
    BY RequestBegins
  <1>3. Written(req[r]) = {} /\ Written(g) = {}
    BY <1>1, <1>2, NotRewriting DEF At, Begun, Rewriting
  <1>4. \A i \in Settled(g) : under[i] # None => i \in mixed
    <2> SUFFICES ASSUME NEW i \in Settled(g), under[i] # None PROVE i \in mixed
      OBVIOUS
    <2>1. i \in File \ OfRotation
      BY <1>2 DEF Begun, Settled
    <2>2. Home[i] \in Cipher /\ under[Home[i]] # None /\ Home[i] \notin Personal
      BY <2>1, HomeAssumption DEF OfRotation, KeysInv, RotTypeOK
    <2>3. Home[i] \in shared
      BY <2>2 DEF Personal
    <2> QED
      BY <2>1, <2>3 DEF ItemsInv, FilesMixed
  <1>5. Kept(g)'
    BY <1>1, <1>4 DEF Kept
  <1> QED
    BY <1>1, <1>2, <1>3, <1>5, MovesItems

LEMMA ReadUserItems ==
    ASSUME KeysInv, ItemsInv, NEW r \in Req, ReadUser(r)
    PROVE  ItemsInv'
  <1>1. UNCHANGED <<key, under, shared, mixed>> /\ req[r].stage = "user"
    BY DEF ReadUser, RotQuery, account, tables, At
  <1>2. Written(req[r]) = {}
    BY <1>1, NotRewriting DEF Rewriting
  <1>3. CASE Finish(r)
    BY <1>1, <1>2, <1>3, EndsItems
  <1>4. CASE ~Finish(r)
    <2>1. PICK stage \in RotStage : Proceed(r, stage) /\ stage = IF req[r].route = "rotate" THEN "validate" ELSE "write"
      BY <1>4 DEF ReadUser, RotStage
    <2>2. PICK g \in RotHandler : Goto(r, g) /\ g.stage = stage /\ Same(g, req[r])
      BY <2>1, Goes
    <2>3. Settled(g) \subseteq Settled(req[r])
      BY <1>1, <2>1, <2>2 DEF Settled, Same
    <2>4. Kept(g)'
      BY <1>1, <1>2, <2>3 DEF Kept, ItemsInv, AllKept
    <2> QED
      BY <1>1, <1>2, <2>2, <2>4, MovesItems
  <1> QED
    BY <1>3, <1>4

LEMMA ValidateItems ==
    ASSUME KeysInv, ItemsInv, NEW r \in Req, Validate(r)
    PROVE  ItemsInv'
  <1>1. UNCHANGED <<key, under, shared, mixed>> /\ req[r].stage = "validate"
    BY DEF Validate, RotQuery, account, tables, At
  <1>2. Written(req[r]) = {}
    BY <1>1, NotRewriting DEF Rewriting
  <1>3. CASE Finish(r)
    BY <1>1, <1>2, <1>3, EndsItems
  <1>4. CASE ~Finish(r)
    <2>1. Proceed(r, "folders") /\ "folders" \in RotStage /\ Personal \cup (Folder \cap There) \subseteq req[r].ids
      BY <1>4 DEF Validate, RotStage
    <2>2. PICK g \in RotHandler : Goto(r, g) /\ g.stage = "folders" /\ Same(g, req[r])
      BY <2>1, Goes
    <2>3. req[r].route = "rotate" /\ req[r].left = req[r].ids
      BY <1>1, BusyHandler DEF At, Busy, Ordered, Rewriting
    <2>4. Settled(req[r]) = File \ req[r].left
      BY <1>1, <2>3 DEF Settled
    <2>5. ASSUME NEW i \in Settled(g), under[i] # None PROVE i \in mixed \cup shared
      <3>1. i \in Folder \cup Cipher \cup File /\ i \notin req[r].left
        BY <2>2, <2>5 DEF Settled, Same, Item
      <3>2. CASE i \in File
        BY <1>2, <2>4, <2>5, <3>1, <3>2 DEF ItemsInv, AllKept, Kept
      <3>3. CASE i \in Folder \cup Cipher
        BY <2>1, <2>3, <2>5, <3>1, <3>3 DEF Personal, There, Item
      <3> QED
        BY <3>1, <3>2, <3>3
    <2>6. Kept(g)'
      BY <1>1, <2>5 DEF Kept
    <2> QED
      BY <1>1, <1>2, <2>2, <2>6, MovesItems
  <1> QED
    BY <1>3, <1>4

LEMMA RewrittenItems ==
    ASSUME KeysInv, ItemsInv, NEW r \in Req, Rewritten(r)
    PROVE  ItemsInv'
  <1>1. UNCHANGED <<key, under, shared, mixed>>
    BY DEF Rewritten, RotQuery, account, tables
  <1>2. PICK g \in RotHandler :
                 /\ Goto(r, g) /\ Same(g, req[r])
                 /\ \/ req[r].stage = "folders" /\ g.stage = "ciphers" /\ req[r].left \cap Folder = {}
                    \/ req[r].stage = "ciphers" /\ g.stage = "files" /\ req[r].left \cap Cipher = {}
                    \/ req[r].stage = "files" /\ g.stage = "checkSends" /\ req[r].left \cap File = {}
                    \/ req[r].stage = "sends" /\ g.stage = "replace" /\ req[r].left \cap Send = {}
    BY RewrittenGoes
  <1>3. req[r] \in RotHandler /\ Ordered(req[r])
    BY RewrittenGoes DEF Busy, KeysInv, RotTypeOK
  <1>4. Settled(g) \subseteq Settled(req[r])
    BY <1>2 DEF Settled, Same
  <1>5. Written(req[r]) \subseteq Written(g)
    BY <1>2, <1>3, KindsAssumption DEF Written, Same, RotHandler, Item
  <1>6. Kept(g)'
    BY <1>1, <1>2, <1>4, <1>5 DEF Kept, ItemsInv, AllKept, Same
  <1> QED
    BY <1>1, <1>2, <1>5, <1>6, MovesItems DEF Same

LEMMA CheckSendsItems ==
    ASSUME KeysInv, ItemsInv, NEW r \in Req, CheckSends(r)
    PROVE  ItemsInv'
  <1>1. UNCHANGED <<key, under, shared>> /\ req[r].stage = "checkSends"
    BY DEF CheckSends, account, tables, At
  <1>2. CASE ~(Send \cap There = req[r].ids \cap Send)
    <2>1. Finish(r) /\ mixed' = mixed \cup Written(req[r])
      BY <1>2 DEF CheckSends
    <2> QED
      BY <1>1, <2>1, EndsItems
  <1>3. CASE Send \cap There = req[r].ids \cap Send
    <2>1. Proceed(r, "sends") /\ UNCHANGED mixed /\ "sends" \in RotStage
      BY <1>3 DEF CheckSends, RotStage
    <2>2. PICK g \in RotHandler : Goto(r, g) /\ g.stage = "sends" /\ Same(g, req[r])
      BY <2>1, Goes
    <2>3. req[r].route = "rotate" /\ req[r].left = req[r].ids \cap Send /\ req[r] \in RotHandler
      BY <1>1, BusyHandler DEF At, Busy, Ordered, Rewriting
    <2>4. Written(req[r]) \subseteq Written(g)
      BY <1>1, <2>2 DEF Written, Same
    <2>5. ASSUME NEW i \in Settled(g), under[i] # None
          PROVE  i \in mixed \cup shared \/ (i \in Written(req[r]) /\ under[i] = req[r].key)
      <3>1. i \in Item \ req[r].left
        BY <2>2 DEF Settled, Same
      <3>2. i \notin Send
        BY <1>3, <2>3, <2>5, <3>1 DEF There
      <3>3. i \in Settled(req[r])
        BY <1>1, <3>1, <3>2 DEF Settled
      <3> QED
        BY <2>5, <3>3 DEF ItemsInv, AllKept, Kept
    <2>6. Kept(g)'
      BY <1>1, <2>1, <2>2, <2>4, <2>5 DEF Kept, Same
    <2> QED
      BY <1>1, <2>1, <2>2, <2>4, <2>6, MovesItems DEF Same
  <1> QED
    BY <1>2, <1>3

LEMMA RewriteItems ==
    ASSUME KeysInv, ItemsInv, NEW r \in Req, Rewrite(r)
    PROVE  ItemsInv'
  <1>1. req[r] \in RotHandler /\ Ordered(req[r]) /\ req[r].key \in Key /\ UNCHANGED <<key, shared>>
    BY RewriteDoes DEF Busy, account
  <1>2. CASE Finish(r) /\ UNCHANGED <<under, filed>> /\ mixed' = mixed \cup Written(req[r])
    BY <1>1, <1>2, EndsItems
  <1>3. CASE ~(Finish(r) /\ UNCHANGED <<under, filed>> /\ mixed' = mixed \cup Written(req[r]))
    <2>1. PICK b \in SUBSET (req[r].left \cap KindOf(req[r].stage)), g \in RotHandler :
                    /\ \A c \in b \cap Cipher \cap There : req[r].filed[c] # None => under[req[r].filed[c]] # None
                    /\ under' = [i \in Item |-> IF i \in b \cap There THEN req[r].key ELSE under[i]]
                    /\ filed' = [c \in Cipher |-> IF c \in b \cap There THEN req[r].filed[c] ELSE filed[c]]
                    /\ mixed' = (mixed \ b) \cup (b \cap (SettledByOther(r) \cup shared \cup FilesOf(shared)))
                    /\ UNCHANGED <<knows, stale>>
                    /\ Goto(r, g)
                    /\ g.stage = req[r].stage /\ g.route = req[r].route /\ g.key = req[r].key /\ g.ids = req[r].ids
                    /\ g.left = req[r].left \ b /\ g.filed = req[r].filed /\ g.org = req[r].org
                    /\ g.stage \in {"folders", "ciphers", "files", "sends"}
      BY <1>3, RewriteDoes
    <2>2. b \subseteq req[r].left /\ b \subseteq req[r].ids /\ b \subseteq Item /\ b \subseteq KindOf(g.stage)
      BY <1>1, <2>1 DEF Ordered, RotHandler
    <2>3. Untouched(b)
      BY <1>1, <2>1 DEF Untouched
    <2>4. \A i \in b : under'[i] = None \/ under'[i] = g.key
      BY <2>1, <2>2 DEF There
    <2>5. b \subseteq Written(g)
      BY <2>1, <2>2, KindsAssumption DEF Written, KindOf
    <2>6. Written(g) = Written(req[r]) \cup b
      BY <1>1, <2>1, <2>2, <2>5 DEF Written, Ordered
    <2>7. Settled(g) \subseteq Settled(req[r]) \cup b
      BY <2>1, <2>2 DEF Settled
    <2>8. OneKey'
      BY <1>1, <2>1, <2>3, <2>4, <2>5, <2>6, KeyStays
    <2>9. Kept(g)'
      <3> SUFFICES ASSUME NEW i \in Settled(g), under'[i] # None
                   PROVE  i \in mixed' \cup shared' \/ (i \in Written(g) /\ under'[i] = g.key)
        BY DEF Kept
      <3>1. CASE i \in b
        BY <2>4, <2>5, <3>1
      <3>2. CASE i \notin b
        <4>1. i \in Settled(req[r]) /\ i \in Item
          BY <2>7, <3>2 DEF Settled, Item
        <4>2. under'[i] = under[i]
          BY <2>1, <3>2, <4>1
        <4>3. i \in mixed \cup shared \/ (i \in Written(req[r]) /\ under[i] = req[r].key)
          BY <4>1, <4>2 DEF ItemsInv, AllKept, Kept
        <4> QED
          BY <1>1, <2>1, <2>6, <3>2, <4>2, <4>3
      <3> QED
        BY <3>1, <3>2
    <2>10. AllKept'
      BY <2>1, <2>3, <2>9, KeptStays
    <2>11. FilesMixed' /\ SharedKeys'
      <3>1. \A f \in File \cap b : under'[f] # None /\ Home[f] \in shared' => f \in mixed'
        BY <1>1, <2>1 DEF FilesOf
      <3>2. \A c \in shared' \cap b : c \in mixed'
        BY <1>1, <2>1
      <3> QED
        BY <1>1, <2>3, <3>1, <3>2, SharedStays
    <2> QED
      BY <2>8, <2>10, <2>11 DEF ItemsInv
  <1> QED
    BY <1>2, <1>3

\* The key is replaced by one that all items are under but those of mixed.
LEMMA NewKeyItems ==
    ASSUME KeysInv, ItemsInv, NEW r \in Req, NEW k, NewAccount(r, k), mixed \subseteq mixed',
           \A i \in Item : under[i] # None => i \in mixed' \cup shared \/ under[i] = k
    PROVE  ItemsInv'
  <1>1. Goto(r, RotIdle) /\ UNCHANGED <<under, shared>> /\ key' = k
    BY DEF NewAccount, tables
  <1>2. Untouched({}) /\ shared' \subseteq shared
    BY <1>1 DEF Untouched
  <1>3. FilesMixed' /\ SharedKeys'
    BY <1>2, SharedStays
  <1>4. AllKept'
    BY <1>1, <1>2, IdleKept, KeptStays
  <1>5. OneKey'
    <2> SUFFICES ASSUME NEW i \in Item, under'[i] # None, i \notin mixed'
                 PROVE  under'[i] = IF i \in shared' THEN OrgKey ELSE key'
      BY DEF OneKey, There, Proper
    <2> QED
      BY <1>1, <1>3 DEF SharedKeys
  <1> QED
    BY <1>3, <1>4, <1>5 DEF ItemsInv

LEMMA ReplaceItems ==
    ASSUME KeysInv, ItemsInv, NEW r \in Req, Replace(r)
    PROVE  ItemsInv'
  <1>1. req[r].stage = "replace" /\ NewAccount(r, req[r].key) /\ mixed' = mixed
    BY DEF Replace, At
  <1>2. req[r].left = {}
    BY <1>1, BusyHandler DEF At, Busy, Ordered, Rewriting
  <1>3. Settled(req[r]) = Item
    BY <1>1, <1>2 DEF Settled
  <1>4. \A i \in Item : under[i] # None => i \in mixed' \cup shared \/ under[i] = req[r].key
    BY <1>1, <1>3 DEF ItemsInv, AllKept, Kept
  <1> QED
    BY <1>1, <1>4, NewKeyItems

LEMMA ChangePasswordItems ==
    ASSUME KeysInv, HandlersInv, ItemsInv, NEW r \in Req, ChangePassword(r)
    PROVE  ItemsInv'
  <1>1. /\ req[r].stage = "write" /\ req[r].route = "password" /\ NewAccount(r, req[r].key)
        /\ mixed' = IF req[r].key # key /\ r \in stale THEN mixed \cup There ELSE mixed
    BY DEF ChangePassword, At
  <1>2. Written(req[r]) = {}
    BY <1>1, NotRewriting DEF Rewriting
  <1>3. req[r].key \in Key
    BY <1>1, BusyHandler DEF At, Busy
  <1>4. CASE req[r].key = key
    <2>1. Goto(r, RotIdle) /\ UNCHANGED <<key, under, shared>> /\ mixed' = mixed
      BY <1>1, <1>4 DEF NewAccount, tables
    <2> QED
      BY <1>2, <2>1, IdleKept, MovesItems
  <1>5. CASE req[r].key # key
    <2>1. r \in stale
      BY <1>1, <1>3, <1>5, RotKeyAssumption DEF HandlersInv, Current
    <2>2. mixed' = mixed \cup There
      BY <1>1, <1>5, <2>1
    <2>3. \A i \in Item : under[i] # None => i \in mixed' \cup shared \/ under[i] = req[r].key
      BY <2>2 DEF There
    <2> QED
      BY <1>1, <2>2, <2>3, NewKeyItems
  <1> QED
    BY <1>4, <1>5

LEMMA ReadItemItems ==
    ASSUME KeysInv, ItemsInv, NEW r \in Req, ReadItem(r)
    PROVE  ItemsInv'
  <1>1. UNCHANGED <<key, under, shared, mixed>> /\ req[r].stage = "read"
    BY ReadItemDoes DEF account, tables
  <1>2. Written(req[r]) = {}
    BY <1>1, NotRewriting DEF Rewriting
  <1>3. CASE Finish(r)
    BY <1>1, <1>2, <1>3, EndsItems
  <1>4. CASE ~Finish(r)
    <2>1. PICK g \in RotHandler : Goto(r, g) /\ g.stage = "write"
      BY <1>4, ReadItemDoes
    <2>2. Kept(g)'
      BY <2>1 DEF Kept, Settled
    <2> QED
      BY <1>1, <1>2, <2>1, <2>2, MovesItems
  <1> QED
    BY <1>3, <1>4

LEMMA AnnounceItems ==
    ASSUME KeysInv, ItemsInv, NEW r \in Req, Announce(r)
    PROVE  ItemsInv'
  <1>1. UNCHANGED <<key, under, shared, mixed>> /\ req[r].stage = "announce" /\ Finish(r)
    BY DEF Announce, account, At
  <1>2. Written(req[r]) = {}
    BY <1>1, NotRewriting DEF Rewriting
  <1> QED
    BY <1>1, <1>2, EndsItems

LEMMA DieItems ==
    ASSUME KeysInv, ItemsInv, NEW r \in Req, Die(r)
    PROVE  ItemsInv'
  BY EndsItems DEF Die, account, tables

\* What a handler writes that is not in mixed after it is under the key of the account.
LEMMA MixingMeans ==
    ASSUME KeysInv, HandlersInv, NEW r \in Req, NEW i \in Item, Mixing(r, i, req[r].key), req[r].key # OrgKey,
           req[r].stage = "write", req[r].route # "rotate"
    PROVE  /\ i \notin mixed' => req[r].key = key /\ i \notin SettledByOther(r)
           /\ \A j \in Item \ {i} : j \in mixed => j \in mixed'
  <1>1. req[r].key = key \/ r \in stale
    BY DEF HandlersInv, Current
  <1>2. mixed' = (IF req[r].key \in {key, OrgKey} THEN mixed \ {i} ELSE mixed)
                 \cup {j \in {i} : req[r].key # OrgKey /\ (j \in SettledByOther(r) \/ (r \in stale /\ req[r].key # key))}
    BY DEF Mixing
  <1> QED
    BY <1>1, <1>2

LEMMA InsertItems ==
    ASSUME KeysInv, HandlersInv, ItemsInv, NEW r \in Req, Insert(r)
    PROVE  ItemsInv'
  <1>1. /\ Busy(req[r]) /\ req[r].route = "create" /\ req[r].stage = "write" /\ Finish(r)
        /\ UNCHANGED <<key, shared>>
    BY InsertDoes DEF account
  <1>2. Written(req[r]) = {}
    BY <1>1, NotRewriting DEF Rewriting
  <1>3. CASE UNCHANGED <<under, filed, mixed>>
    BY <1>1, <1>2, <1>3, EndsItems
  <1>4. CASE ~UNCHANGED <<under, filed, mixed>>
    <2>1. PICK i \in req[r].ids :
                    /\ i \in Item \ File
                    /\ i \in Cipher /\ req[r].filed[i] # None => under[req[r].filed[i]] # None
                    /\ under' = [under EXCEPT ![i] = req[r].key]
                    /\ filed' = [c \in Cipher |-> IF c = i THEN req[r].filed[c] ELSE filed[c]]
                    /\ Mixing(r, i, req[r].key)
      BY <1>4, InsertDoes
    <2>2. req[r].key # OrgKey
      BY <1>1, RotKeyAssumption DEF Busy
    <2>3. /\ i \notin mixed' => req[r].key = key /\ i \notin SettledByOther(r)
          /\ \A j \in Item \ {i} : j \in mixed => j \in mixed'
      BY <1>1, <2>1, <2>2, MixingMeans
    <2>4. i \notin shared
      BY <1>1, <2>1 DEF HandlersInv, CreateFresh, KeysInv, RotTypeOK
    <2>5. under'[i] = req[r].key /\ \A j \in Item \ {i} : under'[j] = under[j]
      BY <2>1 DEF KeysInv, RotTypeOK
    <2>6. Untouched({i})
      BY <1>1, <2>3, <2>5 DEF Untouched
    <2>7. Goto(r, RotIdle) /\ shared' \subseteq shared
      BY <1>1 DEF Finish
    <2>8. OneKey'
      <3>1. \A j \in {i} : j \in mixed' \/ under'[j] = IF j \in shared' THEN OrgKey ELSE key
        BY <1>1, <2>3, <2>4, <2>5
      <3> QED
        BY <1>1, <1>2, <2>6, <2>7, <3>1, KeyStays
    <2>9. AllKept'
      BY <2>3, <2>6, <2>7, IdleKept, KeptStays
    <2>10. FilesMixed' /\ SharedKeys'
      BY <1>1, <2>1, <2>4, <2>6, <2>7, SharedStays
    <2> QED
      BY <2>8, <2>9, <2>10 DEF ItemsInv
  <1> QED
    BY <1>3, <1>4

LEMMA UpdateItems ==
    ASSUME KeysInv, HandlersInv, ItemsInv, NEW r \in Req, Update(r)
    PROVE  ItemsInv'
  <1>1. /\ req[r].route \in {"update", "removePassword", "share"} /\ req[r].stage = "write" /\ Finish(r)
        /\ UNCHANGED key
    BY UpdateDoes DEF account
  <1>2. Written(req[r]) = {} /\ Goto(r, RotIdle)
    BY <1>1, NotRewriting DEF Rewriting, Finish
  <1>3. CASE UNCHANGED <<under, shared, filed, mixed>>
    BY <1>1, <1>2, <1>3, EndsItems
  <1>4. CASE ~UNCHANGED <<under, shared, filed, mixed>>
    <2>1. PICK i \in req[r].ids :
                    /\ i \in Item \ File /\ under[i] # None
                    /\ under' = [under EXCEPT ![i] = req[r].key]
                    /\ \/ /\ i \in Cipher /\ req[r].key = OrgKey
                          /\ shared' = shared \cup {i}
                          /\ filed' = [c \in Cipher |-> IF c = i THEN None ELSE filed[c]]
                          /\ mixed' = (mixed \ {i}) \cup FilesOf({i})
                       \/ /\ req[r].key # OrgKey /\ shared' = shared \ {i}
                          /\ filed' = filed
                          /\ Mixing(r, i, req[r].key)
      BY <1>4, UpdateDoes
    <2>2. under'[i] = req[r].key /\ \A j \in Item \ {i} : under'[j] = under[j]
      BY <2>1 DEF KeysInv, RotTypeOK
    <2>3. CASE /\ i \in Cipher /\ req[r].key = OrgKey /\ shared' = shared \cup {i}
               /\ mixed' = (mixed \ {i}) \cup FilesOf({i})
      <3>1. Untouched({i})
        BY <2>2, <2>3 DEF Untouched
      <3>2. OneKey'
        <4>1. \A j \in {i} : under'[j] = IF j \in shared' THEN OrgKey ELSE key
          BY <2>2, <2>3
        <4> QED
          BY <1>1, <1>2, <3>1, <4>1, KeyStays
      <3>3. AllKept'
        BY <1>2, <2>3, <3>1, IdleKept, KeptStays
      <3>4. FilesMixed'
        <4> SUFFICES ASSUME NEW f \in File, under'[f] # None, Home[f] \in shared' PROVE f \in mixed'
          BY DEF FilesMixed
        <4>1. f # i /\ f \in Item
          BY <2>1 DEF Item
        <4>2. CASE Home[f] = i
          BY <2>3, <4>2 DEF FilesOf
        <4>3. CASE Home[f] # i
          BY <2>2, <2>3, <4>1, <4>3 DEF ItemsInv, FilesMixed
        <4> QED
          BY <4>2, <4>3
      <3>5. SharedKeys'
        <4> SUFFICES ASSUME NEW c \in shared', under'[c] # None PROVE c \in mixed' \/ under'[c] = OrgKey
          BY DEF SharedKeys
        <4>1. CASE c = i
          BY <2>2, <2>3, <4>1
        <4>2. CASE c # i
          <5>1. c \in shared /\ c \in Item
            BY <2>3, <4>2 DEF KeysInv, RotTypeOK, Item
          <5> QED
            BY <2>2, <2>3, <4>2, <5>1 DEF ItemsInv, SharedKeys
        <4> QED
          BY <4>1, <4>2
      <3> QED
        BY <3>2, <3>3, <3>4, <3>5 DEF ItemsInv
    <2>4. CASE req[r].key # OrgKey /\ shared' = shared \ {i} /\ Mixing(r, i, req[r].key)
      <3>1. /\ i \notin mixed' => req[r].key = key /\ i \notin SettledByOther(r)
            /\ \A j \in Item \ {i} : j \in mixed => j \in mixed'
        BY <1>1, <2>1, <2>4, MixingMeans
      <3>2. Untouched({i})
        BY <2>2, <2>4, <3>1 DEF Untouched
      <3>3. OneKey'
        <4>1. \A j \in {i} : j \in mixed' \/ under'[j] = IF j \in shared' THEN OrgKey ELSE key
          BY <2>2, <2>4, <3>1
        <4> QED
          BY <1>1, <1>2, <3>2, <4>1, KeyStays
      <3>4. AllKept'
        BY <1>2, <3>1, <3>2, IdleKept, KeptStays
      <3>5. FilesMixed' /\ SharedKeys'
        BY <2>1, <2>4, <3>2, SharedStays
      <3> QED
        BY <3>3, <3>4, <3>5 DEF ItemsInv
    <2> QED
      BY <2>1, <2>3, <2>4
  <1> QED
    BY <1>3, <1>4

LEMMA DeleteItems ==
    ASSUME KeysInv, ItemsInv, NEW r \in Req, Delete(r)
    PROVE  ItemsInv'
  <1>1. req[r].stage = "read" /\ Finish(r) /\ UNCHANGED <<key, mixed>>
    BY DeleteDoes DEF account
  <1>2. Written(req[r]) = {} /\ Goto(r, RotIdle)
    BY <1>1, NotRewriting DEF Rewriting, Finish
  <1>3. PICK gone \in SUBSET Item :
                 /\ under' = [i \in Item |-> IF i \in gone THEN None ELSE under[i]]
                 /\ shared' = shared \ gone
    BY DeleteDoes
  <1>4. Untouched({}) /\ shared' \subseteq shared
    BY <1>1, <1>3 DEF Untouched
  <1>5. OneKey'
    BY <1>1, <1>2, <1>4, KeyStays
  <1>6. AllKept'
    BY <1>2, <1>4, IdleKept, KeptStays
  <1>7. FilesMixed' /\ SharedKeys'
    BY <1>4, SharedStays
  <1> QED
    BY <1>5, <1>6, <1>7 DEF ItemsInv

LEMMA FinalizeItems ==
    ASSUME KeysInv, ItemsInv, NEW i \in File \cup Send, FinalizePending(i)
    PROVE  ItemsInv'
  <1>1. /\ under' = [under EXCEPT ![i] = pend[i]]
        /\ mixed' = IF pend[i] # key \/ i \in FilesOf(shared) \cup UNION {Settled(req[q]) : q \in Req}
                    THEN mixed \cup {i} ELSE mixed
        /\ UNCHANGED <<key, shared, req>>
    BY DEF FinalizePending, account
  <1>2. i \in Item /\ i \notin shared
    BY KindsAssumption DEF Item, KeysInv, RotTypeOK
  <1>3. under'[i] = pend[i] /\ \A j \in Item \ {i} : under'[j] = under[j]
    BY <1>1, <1>2 DEF KeysInv, RotTypeOK
  <1>4. Untouched({i}) /\ shared' \subseteq shared
    BY <1>1, <1>3 DEF Untouched
  <1>5. FilesMixed' /\ SharedKeys'
    BY <1>1, <1>2, <1>4, SharedStays DEF FilesOf
  <1>6. i \notin mixed' => pend[i] = key /\ \A q \in Req : i \notin Settled(req[q])
    BY <1>1
  <1>7. OneKey'
    <2> SUFFICES ASSUME NEW j \in Item, under'[j] # None, j \notin mixed'
                 PROVE  \/ under'[j] = IF j \in shared THEN OrgKey ELSE key
                        \/ \E q \in Req : j \in Written(req[q]) /\ under'[j] = req[q].key
      BY <1>1 DEF OneKey, There, Proper
    <2>1. CASE j = i
      BY <1>2, <1>3, <1>6, <2>1
    <2>2. CASE j # i
      <3>1. under'[j] = under[j] /\ j \notin mixed
        BY <1>1, <1>3, <2>2
      <3> QED
        BY <3>1 DEF ItemsInv, OneKey, There, Proper
    <2> QED
      BY <2>1, <2>2
  <1>8. AllKept'
    <2> SUFFICES ASSUME NEW q \in Req, NEW j \in Settled(req[q]), under'[j] # None
                 PROVE  j \in mixed' \cup shared' \/ (j \in Written(req[q]) /\ under'[j] = req[q].key)
      BY <1>1 DEF AllKept, Kept
    <2>1. CASE j = i
      BY <1>6, <2>1
    <2>2. CASE j # i
      <3>1. j \in Item
        BY DEF Settled, Item
      <3>2. under'[j] = under[j] /\ (j \in mixed => j \in mixed') /\ shared' = shared
        BY <1>1, <1>3, <2>2, <3>1
      <3> QED
        BY <3>2 DEF ItemsInv, AllKept, Kept
    <2> QED
      BY <2>1, <2>2
  <1> QED
    BY <1>5, <1>7, <1>8 DEF ItemsInv

\* Ids are drawn once, whatever a handler does next.
LEMMA FreshStays ==
    ASSUME KeysInv, HandlersInv, NEW r \in Req, NEW g, Goto(r, g), drawn \subseteq drawn',
           g.route = "create" => \/ g.ids = {}
                                 \/ req[r].route = "create" /\ g.ids = req[r].ids
                                 \/ g.ids \cap drawn = {} /\ g.ids \subseteq drawn',
           \A c \in Cipher : under'[c] # None => \/ under[c] # None
                                                 \/ g.ids = {} /\ req[r].route = "create" /\ c \in req[r].ids,
           \A c \in shared' : under'[c] # None
    PROVE  CreateFresh'
  <1>1. \A q \in Req : req'[q] = IF q = r THEN g ELSE req[q]
    BY DEF KeysInv, RotTypeOK, Goto
  <1>2. CreateFresh
    BY DEF HandlersInv
  <1>3. \A c \in Cipher : under'[c] # None => c \in drawn'
    BY <1>2 DEF CreateFresh
  <1>4. ASSUME NEW q \in Req, req'[q].route = "create"
        PROVE  req'[q].ids \subseteq drawn' /\ \A c \in req'[q].ids \cap Cipher : under'[c] = None
    <2>1. CASE q = r
      <3>1. req'[q] = g
        BY <1>1, <2>1
      <3>2. CASE g.ids = {}
        BY <3>1, <3>2
      <3>3. CASE g.ids # {} /\ req[r].route = "create" /\ g.ids = req[r].ids
        BY <1>2, <3>1, <3>3 DEF CreateFresh
      <3>4. CASE g.ids # {} /\ g.ids \cap drawn = {} /\ g.ids \subseteq drawn'
        BY <1>2, <3>1, <3>4 DEF CreateFresh
      <3> QED
        BY <1>4, <3>1, <3>2, <3>3, <3>4
    <2>2. CASE q # r
      <3>1. req'[q] = req[q]
        BY <1>1, <2>2
      <3>2. req[q].ids \subseteq drawn /\ \A c \in req[q].ids \cap Cipher : under[c] = None
        BY <1>2, <1>4, <3>1 DEF CreateFresh
      <3>3. req[r].route = "create" => req[q].ids \cap req[r].ids = {}
        BY <1>2, <1>4, <2>2, <3>1 DEF CreateFresh
      <3> QED
        BY <3>1, <3>2, <3>3
    <2> QED
      BY <2>1, <2>2
  <1>5. ASSUME NEW q \in Req, q # r, req'[q].route = "create", g.route = "create" PROVE g.ids \cap req'[q].ids = {}
    <2>1. req'[q] = req[q] /\ req[q].ids \subseteq drawn
      BY <1>1, <1>2, <1>5 DEF CreateFresh
    <2> QED
      BY <1>2, <1>5, <2>1 DEF CreateFresh
  <1>6. ASSUME NEW p \in Req, NEW q \in Req, p # q, req'[p].route = "create", req'[q].route = "create"
        PROVE  req'[p].ids \cap req'[q].ids = {}
    <2>1. CASE p = r
      BY <1>1, <1>5, <1>6, <2>1
    <2>2. CASE q = r
      BY <1>1, <1>5, <1>6, <2>2
    <2>3. CASE p # r /\ q # r
      BY <1>1, <1>2, <1>6, <2>3 DEF CreateFresh
    <2> QED
      BY <2>1, <2>2, <2>3
  <1> QED
    BY <1>3, <1>4, <1>6 DEF CreateFresh

LEMMA HandlersStay ==
    ASSUME KeysInv, HandlersInv, NEW r \in Req, NEW g, Goto(r, g), drawn \subseteq drawn',
           UNCHANGED <<key, live, holds>>, stale \ {r} \subseteq stale',
           g.stage = "idle" \/ g.route = "rotate" \/ g.key \in {key, OrgKey} \/ r \in stale',
           g.route = "create" => \/ g.ids = {}
                                 \/ req[r].route = "create" /\ g.ids = req[r].ids
                                 \/ g.ids \cap drawn = {} /\ g.ids \subseteq drawn',
           \A c \in Cipher : under'[c] # None => \/ under[c] # None
                                                 \/ g.ids = {} /\ req[r].route = "create" /\ c \in req[r].ids,
           \A c \in shared' : under'[c] # None
    PROVE  HandlersInv'
  <1>1. \A q \in Req : req'[q] = IF q = r THEN g ELSE req[q]
    BY DEF KeysInv, RotTypeOK, Goto
  <1>2. HeldKeys'
    BY DEF HandlersInv, HeldKeys
  <1>3. Current'
    BY <1>1 DEF HandlersInv, Current
  <1>4. CreateFresh'
    BY FreshStays
  <1> QED
    BY <1>2, <1>3, <1>4 DEF HandlersInv

\* A handler ends, or goes on as it was.
LEMMA HandlerEnds ==
    ASSUME KeysInv, HandlersInv, NEW r \in Req, Finish(r), drawn \subseteq drawn', UNCHANGED <<key, live, holds>>,
           \A c \in Cipher : under'[c] # None => \/ under[c] # None
                                                 \/ req[r].route = "create" /\ c \in req[r].ids,
           \A c \in shared' : under'[c] # None
    PROVE  HandlersInv'
  <1>1. RotIdle.ids = {} /\ RotIdle.stage = "idle" /\ Goto(r, RotIdle) /\ stale \ {r} \subseteq stale'
    BY DEF RotIdle, Finish
  <1> QED
    BY <1>1, HandlersStay

LEMMA HandlerGoes ==
    ASSUME KeysInv, HandlersInv, NEW r \in Req, NEW g, Goto(r, g), req[r].stage # "idle",
           g.route = req[r].route, g.key = req[r].key, g.ids = req[r].ids,
           UNCHANGED <<key, live, holds, shared, drawn, stale>>,
           \A c \in Cipher : under'[c] # None <=> under[c] # None
    PROVE  HandlersInv'
  <1>1. g.route = "rotate" \/ g.key \in {key, OrgKey} \/ r \in stale'
    BY DEF HandlersInv, Current
  <1>2. \A c \in shared' : under'[c] # None
    BY DEF HandlersInv, CreateFresh, KeysInv, RotTypeOK
  <1> QED
    BY <1>1, <1>2, HandlersStay

LEMMA NewAccountHandlers ==
    ASSUME KeysInv, HandlersInv, NEW r \in Req, NEW k, NewAccount(r, k)
    PROVE  HandlersInv'
  <1>1. Goto(r, RotIdle) /\ UNCHANGED <<under, shared, drawn>> /\ key' = k /\ live' = {}
        /\ stale' = IF k = key THEN stale \ {r} ELSE {q \in Req \ {r} : ~At(q, "idle")}
    BY DEF NewAccount, tables
  <1>2. \A q \in Req : req'[q] = IF q = r THEN RotIdle ELSE req[q]
    BY <1>1 DEF KeysInv, RotTypeOK, Goto
  <1>3. HeldKeys'
    BY <1>1 DEF HeldKeys
  <1>4. RotIdle.ids = {} /\ RotIdle.stage = "idle"
    BY DEF RotIdle
  <1>5. Current'
    <2> SUFFICES ASSUME NEW q \in Req, req'[q].stage # "idle", req'[q].route # "rotate"
                 PROVE  req'[q].key \in {key', OrgKey} \/ q \in stale'
      BY DEF Current
    <2>1. q # r /\ req'[q] = req[q]
      BY <1>2, <1>4
    <2> QED
      BY <1>1, <2>1 DEF HandlersInv, Current, At
  <1>6. \A c \in shared' : under'[c] # None
    BY <1>1 DEF HandlersInv, CreateFresh
  <1>7. CreateFresh'
    BY <1>1, <1>4, <1>6, FreshStays
  <1> QED
    BY <1>3, <1>5, <1>7 DEF HandlersInv

LEMMA AskedHandlers ==
    ASSUME KeysInv, HandlersInv, NEW r \in Req, NEW s \in Session, Asked(r, s)
    PROVE  HandlersInv'
  <1>1. /\ s \in live /\ UNCHANGED <<key, live, holds, under, shared, stale>> /\ drawn \subseteq drawn'
    BY RequestBegins DEF account, tables
  <1>2. PICK g \in RotHandler : Goto(r, g) /\ Begun(g, s)
    BY RequestBegins
  <1>3. g.route = "rotate" \/ g.key \in {key, OrgKey}
    BY <1>1, <1>2 DEF Begun, HandlersInv, HeldKeys
  <1>4. g.route = "create" => g.ids \cap drawn = {} /\ g.ids \subseteq drawn'
    BY <1>2 DEF Begun
  <1>5. \A c \in shared' : under'[c] # None
    BY <1>1 DEF HandlersInv, CreateFresh
  <1> QED
    BY <1>1, <1>2, <1>3, <1>4, <1>5, HandlersStay

\* The steps of a rotation and of the deletion of rows: what handlers hold stays true.
LEMMA RotatingHandlers ==
    ASSUME KeysInv, HandlersInv, NEW r \in Req, Rotating(r)
    PROVE  HandlersInv'
  <1>1. \A c \in shared : under[c] # None
    BY DEF HandlersInv, CreateFresh
  <1>2. CASE ReadUser(r)
    <2>1. UNCHANGED <<key, live, holds, under, shared, drawn>> /\ req[r].stage # "idle"
      BY <1>2 DEF ReadUser, RotQuery, account, tables, At
    <2>2. CASE Finish(r)
      BY <1>1, <2>1, <2>2, HandlerEnds
    <2>3. CASE ~Finish(r)
      <3>1. PICK stage \in RotStage : Proceed(r, stage) /\ UNCHANGED stale
        BY <1>2, <2>3 DEF ReadUser, RotStage
      <3>2. PICK g \in RotHandler : Goto(r, g) /\ Same(g, req[r])
        BY <3>1, Goes
      <3> QED
        BY <2>1, <3>1, <3>2, HandlerGoes DEF Same
    <2> QED
      BY <2>2, <2>3
  <1>3. CASE Validate(r)
    <2>1. UNCHANGED <<key, live, holds, under, shared, drawn>> /\ req[r].stage # "idle"
      BY <1>3 DEF Validate, RotQuery, account, tables, At
    <2>2. CASE Finish(r)
      BY <1>1, <2>1, <2>2, HandlerEnds
    <2>3. CASE ~Finish(r)
      <3>1. PICK stage \in RotStage : Proceed(r, stage) /\ UNCHANGED stale
        BY <1>3, <2>3 DEF Validate, RotStage
      <3>2. PICK g \in RotHandler : Goto(r, g) /\ Same(g, req[r])
        BY <3>1, Goes
      <3> QED
        BY <2>1, <3>1, <3>2, HandlerGoes DEF Same
    <2> QED
      BY <2>2, <2>3
  <1>4. CASE Rewrite(r)
    <2>1. UNCHANGED <<key, live, holds, shared, drawn>> /\ req[r].stage # "idle" /\ req[r].key # None
      <3>1. req[r].stage # "idle"
        BY <1>4 DEF Rewrite
      <3>2. Busy(req[r]) /\ req[r].route = "rotate" /\ UNCHANGED <<key, live, holds, shared, drawn>>
        BY <1>4, RewriteDoes DEF account
      <3> QED
        BY <3>1, <3>2, RotKeyAssumption DEF Busy
    <2>2. CASE Finish(r) /\ UNCHANGED under
      BY <1>1, <2>1, <2>2, HandlerEnds
    <2>3. CASE ~(Finish(r) /\ UNCHANGED under)
      <3>1. PICK b \in SUBSET (req[r].left \cap KindOf(req[r].stage)), g \in RotHandler :
                    /\ \A c \in b \cap Cipher \cap There : req[r].filed[c] # None => under[req[r].filed[c]] # None
                    /\ under' = [i \in Item |-> IF i \in b \cap There THEN req[r].key ELSE under[i]]
                    /\ filed' = [c \in Cipher |-> IF c \in b \cap There THEN req[r].filed[c] ELSE filed[c]]
                    /\ mixed' = (mixed \ b) \cup (b \cap (SettledByOther(r) \cup shared \cup FilesOf(shared)))
                    /\ UNCHANGED <<knows, stale>>
                    /\ Goto(r, g)
                    /\ g.stage = req[r].stage /\ g.route = req[r].route /\ g.key = req[r].key /\ g.ids = req[r].ids
                    /\ g.left = req[r].left \ b /\ g.filed = req[r].filed /\ g.org = req[r].org
                    /\ g.stage \in {"folders", "ciphers", "files", "sends"}
        BY <1>4, <2>3, RewriteDoes
      <3>2. \A c \in Cipher : under'[c] # None <=> under[c] # None
        BY <2>1, <3>1 DEF There, Item
      <3> QED
        BY <2>1, <3>1, <3>2, HandlerGoes
    <2> QED
      BY <2>2, <2>3
  <1>5. CASE Rewritten(r)
    <2>1. UNCHANGED <<key, live, holds, under, shared, drawn, stale>> /\ req[r].stage # "idle"
      BY <1>5 DEF Rewritten, RotQuery, account, tables
    <2>2. PICK g \in RotHandler : Goto(r, g) /\ Same(g, req[r])
      BY <1>5, RewrittenGoes
    <2> QED
      BY <2>1, <2>2, HandlerGoes DEF Same
  <1>6. CASE CheckSends(r)
    <2>1. UNCHANGED <<key, live, holds, under, shared, drawn>> /\ req[r].stage # "idle"
      BY <1>6 DEF CheckSends, account, tables, At
    <2>2. CASE Finish(r)
      BY <1>1, <2>1, <2>2, HandlerEnds
    <2>3. CASE ~Finish(r)
      <3>1. Proceed(r, "sends") /\ "sends" \in RotStage /\ UNCHANGED stale
        BY <1>6, <2>3 DEF CheckSends, RotStage
      <3>2. PICK g \in RotHandler : Goto(r, g) /\ Same(g, req[r])
        BY <3>1, Goes
      <3> QED
        BY <2>1, <3>1, <3>2, HandlerGoes DEF Same
    <2> QED
      BY <2>2, <2>3
  <1>7. CASE Replace(r)
    BY <1>7, NewAccountHandlers DEF Replace
  <1> QED
    BY <1>2, <1>3, <1>4, <1>5, <1>6, <1>7 DEF Rotating

LEMMA ChangingHandlers ==
    ASSUME KeysInv, HandlersInv, NEW r \in Req, Changing(r)
    PROVE  HandlersInv'
  <1>1. \A c \in shared : under[c] # None
    BY DEF HandlersInv, CreateFresh
  <1>2. CASE ReadItem(r)
    <2>1. UNCHANGED <<key, live, holds, under, shared, drawn>> /\ req[r].stage = "read"
      BY <1>2, ReadItemDoes DEF account, tables
    <2>2. CASE Finish(r)
      BY <1>1, <2>1, <2>2, HandlerEnds
    <2>3. CASE ~Finish(r)
      <3>1. PICK i \in req[r].ids, g \in RotHandler :
                    /\ Goto(r, g)
                    /\ g.stage = "write" /\ g.route = req[r].route
                    /\ g.key = IF req[r].route = "removePassword" THEN under[i]
                               ELSE IF i \in shared THEN OrgKey ELSE req[r].key
                    /\ stale' = IF req[r].route = "removePassword" /\ under[i] # key THEN stale \cup {r} ELSE stale
        BY <1>2, <2>3, ReadItemDoes
      <3>2. req[r].route # "create" /\ req[r].route # "rotate" /\ req[r].stage # "idle"
        BY <1>2, ReadItemDoes
      <3>3. g.key \in {key, OrgKey} \/ r \in stale'
        BY <3>1, <3>2 DEF HandlersInv, Current
      <3>4. stale \ {r} \subseteq stale'
        BY <3>1
      <3> QED
        BY <1>1, <2>1, <3>1, <3>2, <3>3, <3>4, HandlersStay
    <2> QED
      BY <2>2, <2>3
  <1>3. CASE Insert(r)
    <2>1. UNCHANGED <<key, live, holds, shared, drawn>> /\ Finish(r) /\ req[r].route = "create" /\ req[r].key # None
      BY <1>3, InsertDoes, RotKeyAssumption DEF account, Busy
    <2>2. CASE UNCHANGED under
      BY <1>1, <2>1, <2>2, HandlerEnds
    <2>3. CASE ~UNCHANGED under
      <3>1. PICK i \in req[r].ids : under' = [under EXCEPT ![i] = req[r].key] /\ i \in Item
        BY <1>3, <2>3, InsertDoes
      <3>2. under'[i] # None /\ \A j \in Item \ {i} : under'[j] = under[j]
        BY <2>1, <3>1 DEF KeysInv, RotTypeOK
      <3>3. \A c \in Cipher : under'[c] # None => under[c] # None \/ c \in req[r].ids
        BY <3>1, <3>2 DEF Item
      <3>4. \A c \in shared' : under'[c] # None
        BY <1>1, <2>1, <3>2 DEF KeysInv, RotTypeOK, Item
      <3> QED
        BY <2>1, <3>3, <3>4, HandlerEnds
    <2> QED
      BY <2>2, <2>3
  <1>4. CASE Update(r)
    <2>1. UNCHANGED <<key, live, holds, drawn>> /\ Finish(r) /\ req[r].key # None
      BY <1>4, UpdateDoes DEF account
    <2>2. CASE UNCHANGED <<under, shared>>
      BY <1>1, <2>1, <2>2, HandlerEnds
    <2>3. CASE ~UNCHANGED <<under, shared>>
      <3>1. PICK i \in req[r].ids :
              /\ under' = [under EXCEPT ![i] = req[r].key] /\ i \in Item /\ under[i] # None
              /\ shared' \subseteq shared \cup {i}
        BY <1>4, <2>3, UpdateDoes
      <3>2. under'[i] # None /\ \A j \in Item \ {i} : under'[j] = under[j]
        BY <2>1, <3>1 DEF KeysInv, RotTypeOK
      <3>3. \A c \in Cipher : under'[c] # None => under[c] # None
        BY <3>1, <3>2 DEF Item
      <3>4. \A c \in shared' : under'[c] # None
        BY <1>1, <3>1, <3>2 DEF KeysInv, RotTypeOK, Item
      <3> QED
        BY <2>1, <3>3, <3>4, HandlerEnds
    <2> QED
      BY <2>2, <2>3
  <1>5. CASE Delete(r)
    <2>1. UNCHANGED <<key, live, holds, drawn>> /\ Finish(r)
      BY <1>5, DeleteDoes DEF account
    <2>2. PICK gone \in SUBSET Item :
            under' = [i \in Item |-> IF i \in gone THEN None ELSE under[i]] /\ shared' = shared \ gone
      BY <1>5, DeleteDoes
    <2>3. \A c \in Cipher : under'[c] # None => under[c] # None
      BY <2>2 DEF Item
    <2>4. \A c \in shared' : under'[c] # None
      BY <1>1, <2>2 DEF KeysInv, RotTypeOK, Item
    <2> QED
      BY <2>1, <2>3, <2>4, HandlerEnds
  <1>6. CASE Announce(r)
    <2>1. UNCHANGED <<key, live, holds, under, shared, drawn>> /\ Finish(r)
      BY <1>6 DEF Announce, account
    <2> QED
      BY <1>1, <2>1, HandlerEnds
  <1>7. CASE ChangePassword(r)
    BY <1>7, NewAccountHandlers DEF ChangePassword
  <1> QED
    BY <1>2, <1>3, <1>4, <1>5, <1>6, <1>7 DEF Changing

LEMMA FinalizeHandlers ==
    ASSUME KeysInv, HandlersInv, NEW i \in File \cup Send, FinalizePending(i)
    PROVE  HandlersInv'
  <1>1. under' = [under EXCEPT ![i] = pend[i]] /\ UNCHANGED <<key, live, holds, shared, req, drawn, stale>>
    BY DEF FinalizePending, account
  <1>2. i \notin Cipher
    BY KindsAssumption
  <1>3. \A c \in Cipher : under'[c] = under[c]
    BY <1>1, <1>2 DEF KeysInv, RotTypeOK, Item
  <1>4. shared \subseteq Cipher
    BY DEF KeysInv, RotTypeOK
  <1>5. CreateFresh'
    BY <1>1, <1>3, <1>4 DEF HandlersInv, CreateFresh
  <1> QED
    BY <1>1, <1>5 DEF HandlersInv, HeldKeys, Current

LEMMA LoginHandlers ==
    ASSUME KeysInv, HandlersInv, ItemsInv, NEW s \in Session, Login(s)
    PROVE  HandlersInv' /\ ItemsInv'
  <1>1. /\ live' = live \cup {s} /\ holds' = [holds EXCEPT ![s] = key]
        /\ UNCHANGED <<key, under, shared, req, drawn, stale, mixed>>
    BY DEF Login, tables
  <1>2. HeldKeys'
    BY <1>1 DEF HandlersInv, HeldKeys, KeysInv, RotTypeOK
  <1>3. CreateFresh' /\ Current'
    BY <1>1 DEF HandlersInv, CreateFresh, Current
  <1>4. ItemsInv'
    BY <1>1 DEF ItemsInv, FilesMixed, SharedKeys, AllKept, Kept, OneKey, There, Proper
  <1> QED
    BY <1>2, <1>3, <1>4 DEF HandlersInv

LEMMA OneKeyInit == RotInit => OneKeyInv
  <1> SUFFICES ASSUME RotInit PROVE OneKeyInv
    OBVIOUS
  <1>1. KeysInv
    BY KeysInit
  <1>2. \A r \in Req : req[r] = RotIdle
    BY DEF RotInit
  <1>3. RotIdle.ids = {} /\ RotIdle.stage = "idle"
    BY DEF RotIdle
  <1>4. \A i \in Item : under[i] = IF i \in load.first THEN FirstKey ELSE None
    BY DEF RotInit
  <1>5. CreateFresh
    BY <1>2, <1>3, <1>4 DEF RotInit, CreateFresh, Item
  <1>6. HeldKeys /\ Current
    BY <1>2, <1>3 DEF RotInit, HeldKeys, Current
  <1>7. FilesMixed /\ SharedKeys
    BY DEF RotInit, FilesMixed, SharedKeys
  <1>8. AllKept
    BY <1>2, IdleKept DEF AllKept
  <1>9. OneKey
    BY <1>4 DEF RotInit, OneKey, There, Proper
  <1> QED
    BY <1>1, <1>5, <1>6, <1>7, <1>8, <1>9 DEF OneKeyInv, HandlersInv, ItemsInv

LEMMA OneKeyNext == OneKeyInv /\ [RotNext]_rotVars => OneKeyInv'
  <1> SUFFICES ASSUME OneKeyInv, [RotNext]_rotVars PROVE OneKeyInv'
    OBVIOUS
  <1> USE DEF OneKeyInv
  <1>1. KeysInv'
    BY KeysNext
  <1>2. ASSUME NEW r \in Req, Rotating(r) PROVE HandlersInv' /\ ItemsInv'
    BY <1>2, RotatingHandlers, ReadUserItems, ValidateItems, RewriteItems, RewrittenItems, CheckSendsItems,
       ReplaceItems DEF Rotating
  <1>3. ASSUME NEW r \in Req, Changing(r) PROVE HandlersInv' /\ ItemsInv'
    BY <1>3, ChangingHandlers, ReadItemItems, InsertItems, UpdateItems, DeleteItems, AnnounceItems,
       ChangePasswordItems DEF Changing
  <1>4. ASSUME NEW r \in Req, Die(r) PROVE HandlersInv' /\ ItemsInv'
    <2>1. \A c \in shared : under[c] # None
      BY DEF HandlersInv, CreateFresh
    <2>2. UNCHANGED <<key, live, holds, under, shared, drawn>> /\ Finish(r)
      BY <1>4 DEF Die, account, tables
    <2> QED
      BY <1>4, <2>1, <2>2, HandlerEnds, DieItems
  <1>5. ASSUME NEW r \in Req, NEW s \in Session, Asked(r, s) PROVE HandlersInv' /\ ItemsInv'
    BY <1>5, AskedHandlers, AskedItems
  <1>6. ASSUME NEW i \in File \cup Send, FinalizePending(i) PROVE HandlersInv' /\ ItemsInv'
    BY <1>6, FinalizeHandlers, FinalizeItems
  <1>7. CASE UNCHANGED rotVars
    <2>1. UNCHANGED <<key, live, holds, under, shared, req, drawn, stale, mixed>>
      BY <1>7 DEF rotVars
    <2>2. HandlersInv'
      BY <2>1 DEF HandlersInv, CreateFresh, HeldKeys, Current
    <2>3. ItemsInv'
      BY <2>1 DEF ItemsInv, FilesMixed, SharedKeys, AllKept, Kept, OneKey, There, Proper
    <2> QED
      BY <1>1, <2>2, <2>3
  <1> QED
    BY <1>1, <1>2, <1>3, <1>4, <1>5, <1>6, <1>7, LoginHandlers DEF RotNext

\* Every item is under the key of the account, or of its organization once shared, or has
\* just been rewritten by a rotation still to store its key, but for the items of mixed:
\* for any number of sessions, handlers and rotations, and any batches.
THEOREM OneKeyHolds == RotSpec => []OneKey
  <1>1. OneKeyInv => OneKey
    BY DEF OneKeyInv, ItemsInv
  <1> QED
    BY OneKeyInit, OneKeyNext, <1>1, PTL DEF RotSpec
=============================================================================
