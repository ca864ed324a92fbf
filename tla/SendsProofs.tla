----------------------------- MODULE SendsProofs -----------------------------
(***************************************************************************)
(* Proofs about Sends, for any number of sends, handlers and payloads, any *)
(* clock and any subset of the routes: its types, the cap on accesses,     *)
(* what is served against what is charged, and files and their rows.       *)
(***************************************************************************)
EXTENDS Sends, FiniteSetTheorems, TLAPS

-----------------------------------------------------------------------------
\* Rows

\* A request body applied to a row gives a row.
LEMMA ConfiguredRow ==
    ASSUME NEW row \in Row, NEW p \in Payload, now \in Nat
    PROVE  Configured(row, p) \in Row
  <1>1. p \in [setPw : BOOLEAN, pw : Password \cup {None}, max : Nat \cup {None},
               exp : Nat \cup {None}, del : Nat, disabled : BOOLEAN]
    BY PayloadAssumption
  <1>2. Later(p.exp) \in Nat \cup {None}
    BY <1>1 DEF Later
  <1>3. (IF p.setPw THEN p.pw ELSE row.pw) \in Password \cup {None}
    BY <1>1 DEF Row
  <1>4. p.max \in Nat \cup {None} /\ now + p.del \in Nat /\ p.disabled \in BOOLEAN
    BY <1>1
  <1> QED
    BY <1>2, <1>3, <1>4 DEF Configured, Row

LEMMA NewRowIsRow ==
    ASSUME NEW type \in SendType, NEW p \in Payload, now \in Nat
    PROVE  NewRow(type, p) \in Row
  <1>1. [type |-> type, pw |-> None, max |-> None, count |-> 0, exp |-> None,
         del |-> 0, disabled |-> FALSE, created |-> now, updated |-> now] \in Row
    BY DEF Row
  <1> QED
    BY <1>1, ConfiguredRow DEF NewRow

\* A full-row write of a snapshot leaves a row.
LEMMA WrittenRow ==
    ASSUME NEW row \in Row, NEW snapshot \in Row, now \in Nat
    PROVE  Written(row, snapshot) \in Row
  BY DEF Written, Row

LEMMA ChargedRow ==
    ASSUME NEW row \in Row, now \in Nat
    PROVE  [row EXCEPT !.count = row.count + 1, !.updated = now] \in Row
  <1>1. row.count + 1 \in Nat
    BY DEF Row
  <1> QED
    BY <1>1 DEF Row

-----------------------------------------------------------------------------
\* Handlers

LEMMA HoldTypes ==
    ASSUME req \in [Req -> Handler], NEW r \in Req, NEW stage \in SnapshotStage,
           NEW s \in Send, NEW row \in Row, Hold(r, stage, s, row)
    PROVE  req' \in [Req -> Handler]
  BY DEF Hold, Handler

LEMMA ReplyTypes ==
    ASSUME req \in [Req -> Handler], NEW r \in Req, NEW stage \in ReplyStage,
           NEW s \in Send, NEW t \in Nat, Reply(r, stage, s, t)
    PROVE  req' \in [Req -> Handler]
  BY DEF Reply, Handler

LEMMA FinishTypes ==
    ASSUME req \in [Req -> Handler], NEW r \in Req, Finish(r)
    PROVE  req' \in [Req -> Handler]
  BY DEF Finish, Handler

\* A handler that is not idle names a send; one that holds a snapshot, a row.
LEMMA HandlerFields ==
    ASSUME req \in [Req -> Handler], NEW r \in Req
    PROVE  /\ ~At(r, "idle") => req[r].id \in Send /\ req[r].at \in Nat
           /\ req[r].stage \in SnapshotStage => req[r].row \in Row
  BY DEF Handler, Idle, At, SnapshotStage, ReplyStage

-----------------------------------------------------------------------------
\* Type correctness

\* What a creation draws and remembers.
LEMMA FreshTypes ==
    ASSUME TypeOK, NEW s \in Send, NEW p \in Payload, Fresh(s, p)
    PROVE  /\ used' \subseteq Send
           /\ cap' \in [Send -> Nat \cup {None}]
  <1>1. p.max \in Nat \cup {None}
    BY PayloadAssumption
  <1> QED
    BY <1>1 DEF TypeOK, Fresh

LEMMA WriteSnapshotTypes ==
    ASSUME TypeOK, NEW s \in Send, NEW row \in Row, WriteSnapshot(s, row)
    PROVE  sends' \in [Send -> Row \cup {None}]
  <1>1. CASE sends[s] = None
    BY <1>1 DEF TypeOK, WriteSnapshot
  <1>2. CASE sends[s] # None
    <2>1. sends[s] \in Row /\ now \in Nat
      BY <1>2 DEF TypeOK
    <2>2. Written(sends[s], row) \in Row
      BY <2>1, WrittenRow
    <2> QED
      BY <1>2, <2>2 DEF TypeOK, WriteSnapshot
  <1> QED
    BY <1>1, <1>2

LEMMA BeginTypes ==
    ASSUME TypeOK, NEW r \in Req, NEW s \in Send, Begin(r, s)
    PROVE  TypeOK'
  <1> USE DEF SnapshotStage, ReplyStage, SendType
  <1>0. now \in Nat /\ req \in [Req -> Handler]
    BY DEF TypeOK
  <1>1. ASSUME NEW p \in Payload, CreateTextSend(r, s, p)
        PROVE  TypeOK'
    <2>1. NewRow("text", p) \in Row
      BY <1>0, NewRowIsRow
    <2>2. req' \in [Req -> Handler]
      BY <1>0, <1>1, ReplyTypes DEF CreateTextSend
    <2> QED
      BY <1>1, <2>1, <2>2, FreshTypes DEF TypeOK, CreateTextSend, Fresh, tokens
  <1>2. ASSUME NEW p \in Payload, CreateFileSendV2(r, s, p)
        PROVE  TypeOK'
    <2>1. NewRow("file", p) \in Row
      BY <1>0, NewRowIsRow
    <2> QED
      BY <1>2, <2>1, FreshTypes DEF TypeOK, CreateFileSendV2, Fresh, tokens
  <1>3. ASSUME NEW p \in Payload, CreateFileSendLegacy(r, s, p)
        PROVE  TypeOK'
    <2>1. NewRow("file", p) \in Row
      BY <1>0, NewRowIsRow
    <2>2. req' \in [Req -> Handler]
      BY <1>0, <1>3, <2>1, HoldTypes DEF CreateFileSendLegacy
    <2> QED
      BY <1>3, <2>2, FreshTypes DEF TypeOK, CreateFileSendLegacy, Fresh, tokens, tables
  <1>4. ASSUME NEW p \in Payload, StartUpdate(r, s, p)
        PROVE  TypeOK'
    <2>1. Configured(sends[s], p) \in Row
      BY <1>0, <1>4, ConfiguredRow DEF TypeOK, StartUpdate
    <2>2. req' \in [Req -> Handler]
      BY <1>0, <1>4, <2>1, HoldTypes DEF StartUpdate
    <2> QED
      BY <1>4, <2>2 DEF TypeOK, StartUpdate, tables, tokens
  <1>5. CASE StartStreamUpload(r, s) \/ StartDirectUpload(r, s)
    <2>1. pending[s] \in Row
      BY <1>5 DEF TypeOK, StartStreamUpload, StartDirectUpload
    <2>2. req' \in [Req -> Handler]
      BY <1>0, <1>5, <2>1, HoldTypes DEF StartStreamUpload, StartDirectUpload
    <2>3. CountUpload(s)
      BY <1>5 DEF StartStreamUpload, StartDirectUpload
    <2>4. uploads' \in [Send -> 0..2]
      BY <2>3 DEF TypeOK, CountUpload
    <2> QED
      BY <1>5, <2>2, <2>3, <2>4
      DEF TypeOK, StartStreamUpload, StartDirectUpload, CountUpload, tables, tokens
  <1>6. CASE StartRemovePassword(r, s)
    <2>1. [sends[s] EXCEPT !.pw = None] \in Row
      BY <1>6 DEF TypeOK, StartRemovePassword, Row
    <2>2. req' \in [Req -> Handler]
      BY <1>0, <1>6, <2>1, HoldTypes DEF StartRemovePassword
    <2> QED
      BY <1>6, <2>2 DEF TypeOK, StartRemovePassword, tables, tokens, ghosts
  <1>7. CASE StartDelete(r, s)
    <2>1. sends[s] \in Row
      BY <1>7 DEF TypeOK, StartDelete
    <2>2. req' \in [Req -> Handler]
      BY <1>0, <1>7, <2>1, HoldTypes DEF StartDelete
    <2> QED
      BY <1>7, <2>2 DEF TypeOK, StartDelete, tables, tokens, ghosts
  <1>8. ASSUME NEW guess \in Password \cup {None},
               \/ StartAccess(r, s, guess) \/ StartAccessFile(r, s, guess)
               \/ StartGrant(r, s, guess) \/ StartDownload(r, s)
        PROVE  TypeOK'
    <2>1. PICK g : Opens(r, s, g)
      BY <1>8 DEF StartAccess, StartAccessFile, StartGrant, StartDownload
    <2>2. sends[s] \in Row
      BY <2>1 DEF TypeOK, Opens
    <2>3. req' \in [Req -> Handler]
      BY <1>0, <1>8, <2>2, HoldTypes
      DEF StartAccess, StartAccessFile, StartGrant, StartDownload
    <2> QED
      BY <2>1, <2>3 DEF TypeOK, Opens, tables, tokens, ghosts
  <1>9. CASE StartTokenAccess(r, s) \/ StartTokenAccessFile(r, s)
    <2>1. sends[s].updated \in Nat
      BY <1>9 DEF TypeOK, StartTokenAccess, StartTokenAccessFile, Row
    <2>2. req' \in [Req -> Handler]
      BY <1>0, <1>9, <2>1, ReplyTypes DEF StartTokenAccess, StartTokenAccessFile
    <2> QED
      BY <1>9, <2>2 DEF TypeOK, StartTokenAccess, StartTokenAccessFile, tables, tokens, ghosts
  <1> QED
    BY <1>1, <1>2, <1>3, <1>4, <1>5, <1>6, <1>7, <1>8, <1>9 DEF Begin

LEMMA ContinueTypes ==
    ASSUME TypeOK, NEW r \in Req, Continue(r)
    PROVE  TypeOK'
  <1> USE DEF SnapshotStage, ReplyStage
  <1>0. now \in Nat /\ req \in [Req -> Handler]
    BY DEF TypeOK
  <1>a. ~At(r, "idle") => req[r].id \in Send /\ req[r].at \in Nat
    BY <1>0, HandlerFields
  <1>b. req[r].stage \in SnapshotStage => req[r].row \in Row
    BY <1>0, HandlerFields
  <1>1. CASE InsertLegacy(r)
    <2>1. req[r].id \in Send /\ req[r].row \in Row /\ req[r].row.updated \in Nat
      BY <1>1, <1>a, <1>b DEF InsertLegacy, At, Row
    <2>2. req' \in [Req -> Handler]
      BY <1>0, <1>1, <2>1, ReplyTypes DEF InsertLegacy
    <2> QED
      BY <1>1, <2>1, <2>2 DEF TypeOK, InsertLegacy, tokens, ghosts
  <1>2. CASE PutObject(r)
    <2>1. req[r].id \in Send /\ req[r].row \in Row
      BY <1>2, <1>a, <1>b DEF PutObject, At
    <2>2. req' \in [Req -> Handler]
      BY <1>0, <1>2, <2>1, HoldTypes DEF PutObject
    <2> QED
      BY <1>2, <2>1, <2>2 DEF TypeOK, PutObject, tables, tokens, ghosts
  <1>3. CASE DiscardMismatch(r)
    <2>1. req' \in [Req -> Handler]
      BY <1>0, <1>3, FinishTypes DEF DiscardMismatch
    <2> QED
      BY <1>3, <2>1 DEF TypeOK, DiscardMismatch, tables, tokens, ghosts
  <1>4. CASE Finalize(r)
    <2>1. req[r].id \in Send /\ req[r].row \in Row
      BY <1>4, <1>a, <1>b DEF Finalize, At
    <2>2. [req[r].row EXCEPT !.updated = now] \in Row
      BY <1>0, <2>1 DEF Row
    <2>3. CASE sends[req[r].id] # None
      <3>1. req' \in [Req -> Handler]
        BY <1>0, <1>4, <2>3, FinishTypes DEF Finalize
      <3> QED
        BY <1>4, <2>3, <3>1 DEF TypeOK, Finalize, tables, tokens
    <2>4. CASE sends[req[r].id] = None
      <3>1. req' \in [Req -> Handler]
        BY <1>0, <1>4, <2>1, <2>4, ReplyTypes DEF Finalize
      <3> QED
        BY <1>4, <2>1, <2>2, <2>4, <3>1 DEF TypeOK, Finalize, tables, tokens
    <2> QED
      BY <2>3, <2>4
  <1>5. CASE WriteRow(r) \/ BumpRow(r)
    <2>1. req[r].id \in Send /\ req[r].row \in Row
      BY <1>5, <1>a, <1>b DEF WriteRow, BumpRow, At
    <2>2. sends' \in [Send -> Row \cup {None}]
      BY <1>5, <2>1, WriteSnapshotTypes DEF WriteRow, BumpRow
    <2>3. req' \in [Req -> Handler]
      BY <1>0, <1>5, <2>1, ReplyTypes DEF WriteRow, BumpRow
    <2> QED
      BY <1>5, <2>2, <2>3 DEF TypeOK, WriteRow, BumpRow, tokens, ghosts
  <1>6. CASE DeleteObject(r)
    <2>1. req[r].id \in Send /\ req[r].row \in Row
      BY <1>6, <1>a, <1>b DEF DeleteObject, At
    <2>2. req' \in [Req -> Handler]
      BY <1>0, <1>6, <2>1, HoldTypes DEF DeleteObject
    <2> QED
      BY <1>6, <2>2 DEF TypeOK, DeleteObject, tables, tokens, ghosts
  <1>7. CASE DeleteRow(r)
    <2>1. req[r].id \in Send
      BY <1>7, <1>a DEF DeleteRow, At
    <2>2. req' \in [Req -> Handler]
      BY <1>0, <1>7, <2>1, ReplyTypes DEF DeleteRow
    <2> QED
      BY <1>7, <2>1, <2>2 DEF TypeOK, DeleteRow, tokens, ghosts
  <1>8. CASE Charge(r)
    <2> DEFINE s == req[r].id
    <2>1. s \in Send
      BY <1>8, <1>a DEF Charge, At
    <2>2. CASE ~Chargeable(s)
      <3>1. req' \in [Req -> Handler]
        BY <1>0, <1>8, <2>2, FinishTypes DEF Charge
      <3> QED
        BY <1>8, <2>2, <3>1 DEF TypeOK, Charge
    <2>3. CASE Chargeable(s)
      <3>1. sends[s] \in Row
        BY <2>1, <2>3 DEF TypeOK, Chargeable
      <3>2. [sends[s] EXCEPT !.count = sends[s].count + 1, !.updated = now] \in Row
        BY <1>0, <3>1, ChargedRow
      <3>3. /\ sends' = [sends EXCEPT ![s] =
                            [sends[s] EXCEPT !.count = sends[s].count + 1, !.updated = now]]
            /\ charged' = [charged EXCEPT ![s] = charged[s] + 1]
        BY <1>8, <2>1, <2>3 DEF TypeOK, Charge
      <3>4. CASE At(r, "chargeGrant")
        <4>1. Finish(r) /\ access' = [access EXCEPT ![s] = now + AccessTtl]
          BY <1>8, <2>3, <3>4 DEF Charge
        <4>2. req' \in [Req -> Handler]
          BY <1>0, <4>1, FinishTypes
        <4> QED
          BY <1>8, <2>1, <3>2, <3>3, <4>1, <4>2, BoundsAssumption DEF TypeOK, Charge
      <3>5. CASE ~At(r, "chargeGrant")
        <4>1. Reply(r, AfterCharge[req[r].stage], s, now) /\ access' = access
          BY <1>8, <2>3, <3>5 DEF Charge
        <4>2. AfterCharge[req[r].stage] \in ReplyStage
          BY <1>8, <3>5 DEF Charge, At, AfterCharge
        <4>3. req' \in [Req -> Handler]
          BY <1>0, <2>1, <4>1, <4>2, ReplyTypes
        <4> QED
          BY <1>8, <2>1, <3>2, <3>3, <4>1, <4>3 DEF TypeOK, Charge
      <3> QED
        BY <3>4, <3>5
    <2> QED
      BY <2>2, <2>3
  <1>9. CASE Answer(r) \/ IssueLink(r) \/ ServeContent(r)
    <2>1. req[r].id \in Send /\ req[r].at \in Nat
      BY <1>9, <1>a DEF Answer, IssueLink, ServeContent, At
    <2>2. req' \in [Req -> Handler] /\ revision' \in Nat
      BY <1>0, <1>9, <2>1, FinishTypes DEF Answer, IssueLink, ServeContent, Touch
    <2>3. CASE Answer(r)
      BY <2>2, <2>3 DEF TypeOK, Answer, tables, tokens, ghosts
    <2>4. CASE IssueLink(r)
      BY <2>1, <2>2, <2>4, BoundsAssumption DEF TypeOK, IssueLink, tables, ghosts
    <2>5. CASE ServeContent(r)
      BY <2>1, <2>2, <2>5 DEF TypeOK, ServeContent, tables, tokens
    <2> QED
      BY <1>9, <2>3, <2>4, <2>5
  <1>10. CASE Abort(r)
    <2>1. req[r].id \in Send
      BY <1>10, <1>a DEF Abort
    <2>2. req' \in [Req -> Handler]
      BY <1>0, <1>10, FinishTypes DEF Abort
    <2> QED
      BY <1>10, <2>1, <2>2 DEF TypeOK, Abort, tables, tokens
  <1> QED
    BY <1>1, <1>2, <1>3, <1>4, <1>5, <1>6, <1>7, <1>8, <1>9, <1>10 DEF Continue

LEMMA CronTypes ==
    ASSUME TypeOK, Cron
    PROVE  TypeOK'
  <1> USE DEF CronStage
  <1>1. CASE CronFindStale
    BY <1>1 DEF TypeOK, CronFindStale, CronAt, tables, tokens, ghosts
  <1>2. CASE CronDeleteStale
    BY <1>2 DEF TypeOK, CronDeleteStale, CronAt, tokens, ghosts
  <1>3. CASE CronFindExpired
    <2> DEFINE found == {s \in Send : Expired(s, now)}
               files == {s \in found : sends[s].type = "file"}
    <2>1. cron' \in {[stage |-> "idle", found |-> {}, keys |-> {}, at |-> 0, failed |-> FALSE],
                     [stage |-> "expiredObjects", found |-> found, keys |-> files,
                      at |-> now, failed |-> FALSE]}
      BY <1>3 DEF CronFindExpired, CronIdle, CronAt
    <2>2. found \in SUBSET Send /\ files \in SUBSET Send
      OBVIOUS
    <2> HIDE DEF found, files
    <2>3. cron' \in [stage : CronStage, found : SUBSET Send, keys : SUBSET Send, at : Nat,
                    failed : BOOLEAN]
      <3>1. now \in Nat
        BY DEF TypeOK
      <3>2. [stage |-> "expiredObjects", found |-> found, keys |-> files, at |-> now,
             failed |-> FALSE]
               \in [stage : CronStage, found : SUBSET Send, keys : SUBSET Send, at : Nat,
                    failed : BOOLEAN]
        BY <2>2, <3>1
      <3>3. [stage |-> "idle", found |-> {}, keys |-> {}, at |-> 0, failed |-> FALSE]
               \in [stage : CronStage, found : SUBSET Send, keys : SUBSET Send, at : Nat,
                    failed : BOOLEAN]
        OBVIOUS
      <3> QED
        BY <2>1, <3>2, <3>3
    <2> QED
      BY <1>3, <2>3 DEF TypeOK, CronFindExpired, tables, tokens, ghosts
  <1>4. CASE CronTouch
    BY <1>4 DEF TypeOK, CronTouch, CronIdle, CronAt, tables, tokens, ghosts
  <1>5. CASE CronFail
    BY <1>5 DEF TypeOK, CronFail, tables, tokens, ghosts
  <1>6. ASSUME NEW s \in Send, CronDeleteObject(s)
        PROVE  TypeOK'
    BY <1>6 DEF TypeOK, CronDeleteObject, tables, tokens, ghosts
  <1>7. ASSUME NEW s \in Send, CronDeleteExpired(s)
        PROVE  TypeOK'
    BY <1>7 DEF TypeOK, CronDeleteExpired, tokens, ghosts
  <1> QED
    BY <1>1, <1>2, <1>3, <1>4, <1>5, <1>6, <1>7 DEF Cron

\* Every table, slot and token of a reachable state has its type: in particular
\* a handler that goes on to write, charge or delete holds a row it has read.
THEOREM TypeCorrect == Spec => []TypeOK
  <1>1. Init => TypeOK
    BY DEF Init, TypeOK, Handler, Idle, CronStage
  <1>2. TypeOK /\ [Next]_vars => TypeOK'
    <2> SUFFICES ASSUME TypeOK, [Next]_vars PROVE TypeOK'
      OBVIOUS
    <2>1. CASE Tick
      BY <2>1 DEF TypeOK, Tick, tables, tokens, ghosts
    <2>2. CASE UNCHANGED vars
      BY <2>2 DEF TypeOK, vars
    <2> QED
      BY <2>1, <2>2, BeginTypes, ContinueTypes, CronTypes DEF Next
  <1> QED
    BY <1>1, <1>2, PTL DEF Spec

-----------------------------------------------------------------------------
\* The access count of a send its owner left alone stays within its maximum

\* A handler slot changes and no row does: the slot is all there is to look at.
LEMMA SlotStep ==
    ASSUME TypeOK, CapInv, NEW r \in Req,
           UNCHANGED <<sends, pending, used, cap>>, edited \subseteq edited',
           \A q \in Req \ {r} : req'[q] = req[q],
           req'[r].id \in used \cup {None},
           \A s \in Send \ edited' : SlotCapped(s, r)'
    PROVE  CapInv'
  <1> SUFFICES ASSUME NEW s \in Send
               PROVE  /\ s \notin used' => Undrawn(s)'
                      /\ s \notin edited' => /\ RowCapped(s)' /\ PendingCapped(s)'
                                             /\ \A q \in Req : SlotCapped(s, q)'
    BY DEF CapInv
  <1>1. ASSUME s \notin used' PROVE Undrawn(s)'
    BY <1>1, NoneAssumption DEF CapInv, Undrawn
  <1>2. ASSUME s \notin edited'
        PROVE  RowCapped(s)' /\ PendingCapped(s)' /\ \A q \in Req : SlotCapped(s, q)'
    <2>1. RowCapped(s)' /\ PendingCapped(s)'
      BY <1>2 DEF CapInv, RowCapped, PendingCapped
    <2>2. ASSUME NEW q \in Req \ {r} PROVE SlotCapped(s, q)'
      BY <1>2, <2>2 DEF CapInv, SlotCapped
    <2> QED
      BY <1>2, <2>1, <2>2
  <1> QED
    BY <1>1, <1>2

\* A handler in flight, and a row in either table, belong to a drawn id.
LEMMA DrawnIds ==
    ASSUME TypeOK, CapInv
    PROVE  /\ \A r \in Req : ~At(r, "idle") => req[r].id \in used
           /\ \A s \in Send : sends[s] # None \/ pending[s] # None => s \in used
  <1>1. ASSUME NEW r \in Req, ~At(r, "idle") PROVE req[r].id \in used
    <2>1. req[r].id \in Send
      BY <1>1, HandlerFields DEF TypeOK
    <2> QED
      BY <2>1 DEF CapInv, Undrawn
  <1>2. ASSUME NEW s \in Send, sends[s] # None \/ pending[s] # None PROVE s \in used
    BY <1>2 DEF CapInv, Undrawn
  <1> QED
    BY <1>1, <1>2

\* The row of one send changes and the handler that did it gives its snapshot up.
LEMMA RowStep ==
    ASSUME TypeOK, CapInv, NEW r \in Req, NEW s \in Send \cap used,
           UNCHANGED <<used, cap, edited>>,
           \A t \in Send \ {s} : sends'[t] = sends[t] /\ pending'[t] = pending[t],
           s \notin edited => RowCapped(s)' /\ PendingCapped(s)',
           \A q \in Req \ {r} : req'[q] = req[q],
           req'[r].id \in {s, None}, req'[r].stage \notin SnapshotStage
    PROVE  CapInv'
  <1> SUFFICES ASSUME NEW t \in Send
               PROVE  /\ t \notin used' => Undrawn(t)'
                      /\ t \notin edited' => /\ RowCapped(t)' /\ PendingCapped(t)'
                                             /\ \A q \in Req : SlotCapped(t, q)'
    BY DEF CapInv
  <1>1. ASSUME t \notin used' PROVE Undrawn(t)'
    BY <1>1, NoneAssumption DEF CapInv, Undrawn
  <1>2. ASSUME t \notin edited'
        PROVE  RowCapped(t)' /\ PendingCapped(t)' /\ \A q \in Req : SlotCapped(t, q)'
    <2>1. RowCapped(t)' /\ PendingCapped(t)'
      BY <1>2 DEF CapInv, RowCapped, PendingCapped
    <2>2. ASSUME NEW q \in Req PROVE SlotCapped(t, q)'
      BY <1>2, <2>2 DEF CapInv, SlotCapped
    <2> QED
      BY <2>1, <2>2
  <1> QED
    BY <1>1, <1>2

\* An id is drawn, its row is built with the maximum remembered in cap and is
\* put in a table or in the slot of the handler that is to insert it.
LEMMA CreationStep ==
    ASSUME TypeOK, CapInv, NEW r \in Req, NEW s \in Send, NEW p \in Payload,
           \/ CreateTextSend(r, s, p) \/ CreateFileSendV2(r, s, p)
           \/ CreateFileSendLegacy(r, s, p)
    PROVE  CapInv'
  <1>1. /\ s \notin used /\ used' = used \cup {s} /\ edited' = edited
        /\ cap' = [cap EXCEPT ![s] = p.max]
    BY DEF CreateTextSend, CreateFileSendV2, CreateFileSendLegacy, Fresh
  <1>2. p.max \in Nat \cup {None}
    BY PayloadAssumption
  <1>3. \A t \in Send \ {s} : cap'[t] = cap[t]
    BY <1>1 DEF TypeOK
  <1>4. cap'[s] = p.max
    BY <1>1 DEF TypeOK
  <1>5. \A type \in SendType :
            NewRow(type, p) \in Row /\ NewRow(type, p).max = p.max /\ NewRow(type, p).count = 0
    BY NewRowIsRow DEF TypeOK, NewRow, Configured
  <1>6. Undrawn(s)
    BY <1>1 DEF CapInv
  <1>7. \A t \in Send \ {s} : sends'[t] = sends[t] /\ pending'[t] = pending[t]
    BY DEF TypeOK, CreateTextSend, CreateFileSendV2, CreateFileSendLegacy, tables
  <1>8. RowCapped(s)' /\ PendingCapped(s)'
    BY <1>2, <1>4, <1>5, <1>6
    DEF TypeOK, RowCapped, PendingCapped, Undrawn, SendType,
        CreateTextSend, CreateFileSendV2, CreateFileSendLegacy, tables
  <1>9. \A q \in Req \ {r} : req'[q] = req[q]
    BY DEF TypeOK, CreateTextSend, CreateFileSendV2, CreateFileSendLegacy, Hold, Reply
  <1>10. /\ req'[r].id \in {s, None}
         /\ req'[r].stage \in SnapshotStage =>
                req'[r].row.max = cap'[s] /\ req'[r].row.count = 0 /\ req'[r].id = s
    <2> USE DEF SnapshotStage
    <2>1. CASE CreateTextSend(r, s, p)
      BY <2>1 DEF TypeOK, CreateTextSend, Reply
    <2>2. CASE CreateFileSendV2(r, s, p)
      <3>1. req'[r] = req[r] /\ req[r].stage = "idle" /\ req[r] \in Handler
        BY <2>2 DEF TypeOK, CreateFileSendV2, At
      <3> QED
        BY <3>1 DEF Handler, Idle, ReplyStage
    <2>3. CASE CreateFileSendLegacy(r, s, p)
      BY <1>4, <1>5, <2>3 DEF TypeOK, CreateFileSendLegacy, Hold, SendType
    <2> QED
      BY <2>1, <2>2, <2>3
  <1> SUFFICES ASSUME NEW t \in Send
               PROVE  /\ t \notin used' => Undrawn(t)'
                      /\ t \notin edited' => /\ RowCapped(t)' /\ PendingCapped(t)'
                                             /\ \A q \in Req : SlotCapped(t, q)'
    BY DEF CapInv
  <1>11. ASSUME t \notin used' PROVE Undrawn(t)'
    BY <1>1, <1>7, <1>9, <1>10, <1>11, NoneAssumption DEF CapInv, Undrawn
  <1>12. ASSUME t \notin edited' PROVE RowCapped(t)' /\ PendingCapped(t)'
    BY <1>1, <1>3, <1>7, <1>8, <1>12 DEF CapInv, RowCapped, PendingCapped
  <1>13. ASSUME t \notin edited', NEW q \in Req PROVE SlotCapped(t, q)'
    <2>1. CASE q = r
      BY <1>10, <2>1, NoneAssumption DEF SlotCapped
    <2>2. CASE q # r
      BY <1>1, <1>3, <1>6, <1>9, <1>13, <2>2 DEF CapInv, SlotCapped, Undrawn
    <2> QED
      BY <2>1, <2>2
  <1> QED
    BY <1>11, <1>12, <1>13

\* A handler begins: it draws an id, or reads a row and takes a snapshot of it.
LEMMA BeginCapped ==
    ASSUME TypeOK, CapInv, NEW r \in Req, NEW s \in Send, Begin(r, s)
    PROVE  CapInv'
  <1>0. \A q \in Req \ {r} : q # r
    OBVIOUS
  <1>1. ASSUME NEW p \in Payload,
               \/ CreateTextSend(r, s, p) \/ CreateFileSendV2(r, s, p)
               \/ CreateFileSendLegacy(r, s, p)
        PROVE  CapInv'
    BY <1>1, CreationStep
  <1>2. ASSUME NEW p \in Payload, StartUpdate(r, s, p)
        PROVE  CapInv'
    <2>1. /\ s \in used
          /\ UNCHANGED <<sends, pending, used, cap>>
          /\ edited \subseteq edited' /\ s \in edited'
      BY <1>2, DrawnIds DEF StartUpdate, tables
    <2>2. /\ \A q \in Req \ {r} : req'[q] = req[q]
          /\ req'[r].id = s
      BY <1>2 DEF TypeOK, StartUpdate, Hold
    <2>3. \A t \in Send \ edited' : SlotCapped(t, r)'
      BY <2>1, <2>2 DEF SlotCapped
    <2> QED
      BY <2>1, <2>2, <2>3, SlotStep
  <1>3. CASE StartStreamUpload(r, s) \/ StartDirectUpload(r, s)
    <2>1. /\ s \in used /\ pending[s] # None
          /\ UNCHANGED <<sends, pending, used, cap, edited>>
      BY <1>3, DrawnIds DEF StartStreamUpload, StartDirectUpload, CountUpload, tables
    <2>2. /\ \A q \in Req \ {r} : req'[q] = req[q]
          /\ req'[r].id = s /\ req'[r].row = pending[s]
      BY <1>3 DEF TypeOK, StartStreamUpload, StartDirectUpload, Hold
    <2>3. \A t \in Send \ edited' : SlotCapped(t, r)'
      BY <2>1, <2>2 DEF SlotCapped, CapInv, PendingCapped
    <2> QED
      BY <2>1, <2>2, <2>3, SlotStep
  <1>4. CASE StartRemovePassword(r, s) \/ StartDelete(r, s)
    <2>1. /\ s \in used /\ sends[s] # None
          /\ UNCHANGED <<sends, pending, used, cap, edited>>
      BY <1>4, DrawnIds DEF StartRemovePassword, StartDelete, tables, ghosts
    <2>2. sends[s] \in Row
      BY <2>1 DEF TypeOK
    <2>3. /\ \A q \in Req \ {r} : req'[q] = req[q]
          /\ req'[r].id = s /\ req'[r].row.max = sends[s].max
          /\ req'[r].stage \notin Unborn
      BY <1>4, <2>2 DEF TypeOK, StartRemovePassword, StartDelete, Hold, Row, Unborn
    <2>4. \A t \in Send \ edited' : SlotCapped(t, r)'
      BY <2>1, <2>3 DEF SlotCapped, CapInv, RowCapped
    <2> QED
      BY <2>1, <2>3, <2>4, SlotStep
  <1>5. ASSUME NEW guess \in Password \cup {None},
               \/ StartAccess(r, s, guess) \/ StartAccessFile(r, s, guess)
               \/ StartGrant(r, s, guess) \/ StartDownload(r, s)
        PROVE  CapInv'
    <2>1. PICK g : Opens(r, s, g)
      BY <1>5 DEF StartAccess, StartAccessFile, StartGrant, StartDownload
    <2>2. /\ s \in used /\ sends[s] # None
          /\ UNCHANGED <<sends, pending, used, cap, edited>>
      BY <2>1, DrawnIds DEF Opens, tables, ghosts
    <2>3. /\ \A q \in Req \ {r} : req'[q] = req[q]
          /\ req'[r].id = s /\ req'[r].row = sends[s]
          /\ req'[r].stage \notin Unborn
      BY <1>5 DEF TypeOK, StartAccess, StartAccessFile, StartGrant, StartDownload, Hold, Unborn
    <2>4. \A t \in Send \ edited' : SlotCapped(t, r)'
      BY <2>2, <2>3 DEF SlotCapped, CapInv, RowCapped
    <2> QED
      BY <2>2, <2>3, <2>4, SlotStep
  <1>6. CASE StartTokenAccess(r, s) \/ StartTokenAccessFile(r, s)
    <2>1. /\ s \in used
          /\ UNCHANGED <<sends, pending, used, cap, edited>>
      BY <1>6, DrawnIds DEF StartTokenAccess, StartTokenAccessFile, tables, ghosts
    <2>2. /\ \A q \in Req \ {r} : req'[q] = req[q]
          /\ req'[r].id = s /\ req'[r].stage \notin SnapshotStage
      BY <1>6 DEF TypeOK, StartTokenAccess, StartTokenAccessFile, Reply, SnapshotStage
    <2>3. \A t \in Send \ edited' : SlotCapped(t, r)'
      BY <2>2 DEF SlotCapped
    <2> QED
      BY <2>1, <2>2, <2>3, SlotStep
  <1> QED
    BY <1>1, <1>2, <1>3, <1>4, <1>5, <1>6 DEF Begin

\* A handler takes a step: it writes its snapshot, charges the row or ends.
LEMMA ContinueCapped ==
    ASSUME TypeOK, CapInv, NEW r \in Req, Continue(r)
    PROVE  CapInv'
  <1>a. ~At(r, "idle")
    BY DEF Continue, InsertLegacy, PutObject, DiscardMismatch, Finalize, WriteRow,
           DeleteObject, DeleteRow, BumpRow, Charge, Answer, IssueLink, ServeContent,
           Abort, At
  <1>b. PICK s \in Send \cap used : req[r].id = s
    BY <1>a, DrawnIds, HandlerFields DEF TypeOK
  <1>c. s \notin edited => RowCapped(s) /\ PendingCapped(s) /\ SlotCapped(s, r)
    BY <1>b DEF CapInv
  <1>d. cap[s] \in Nat \cup {None} /\ (req[r].stage \in SnapshotStage => req[r].row \in Row)
    BY <1>b, HandlerFields DEF TypeOK
  <1>e. None \notin Row /\ req \in [Req -> Handler]
    BY NullAssumption DEF TypeOK
  <1>1. CASE PutObject(r) \/ DeleteObject(r)
    <2>1. /\ UNCHANGED <<sends, pending, used, cap, edited>>
          /\ \A q \in Req \ {r} : req'[q] = req[q]
          /\ req'[r].id = s /\ req'[r].row = req[r].row
          /\ req[r].stage \in SnapshotStage
          /\ req'[r].stage \in Unborn => req[r].stage \in Unborn
      BY <1>b, <1>1, <1>e DEF PutObject, DeleteObject, Hold, At, Unborn, SnapshotStage, tables, ghosts
    <2>2. \A t \in Send \ edited' : SlotCapped(t, r)'
      BY <1>b, <1>c, <2>1 DEF SlotCapped
    <2> QED
      BY <1>b, <2>1, <2>2, SlotStep
  <1>2. CASE DiscardMismatch(r) \/ Answer(r) \/ IssueLink(r) \/ ServeContent(r) \/ Abort(r)
    <2>1. UNCHANGED <<sends, pending, used, cap, edited>> /\ Finish(r)
      BY <1>b, <1>2 DEF DiscardMismatch, Answer, IssueLink, ServeContent, Abort, Touch, tables, ghosts
    <2>2. /\ \A q \in Req \ {r} : req'[q] = req[q]
          /\ req'[r] = Idle
      BY <1>b, <1>e, <2>1 DEF Finish
    <2>3. \A t \in Send \ edited' : SlotCapped(t, r)'
      BY <1>b, <2>2 DEF SlotCapped, Idle, SnapshotStage
    <2> QED
      BY <2>1, <2>2, <2>3, SlotStep DEF Idle
  <1>3. CASE InsertLegacy(r)
    <2>1. /\ UNCHANGED <<pending, used, cap, edited>>
          /\ sends' = [sends EXCEPT ![s] = req[r].row]
          /\ \A q \in Req \ {r} : req'[q] = req[q]
          /\ req'[r].id = s /\ req'[r].stage = "touch"
      BY <1>b, <1>3, <1>e DEF InsertLegacy, Reply, ghosts
    <2>2. s \notin edited => RowCapped(s)' /\ PendingCapped(s)'
      BY <1>3, <1>b, <1>c, <1>d, <2>1
      DEF TypeOK, InsertLegacy, At, RowCapped, PendingCapped, SlotCapped, Unborn, SnapshotStage
    <2>3. \A t \in Send \ {s} : sends'[t] = sends[t] /\ pending'[t] = pending[t]
      BY <2>1 DEF TypeOK
    <2> QED
      BY <1>b, <2>1, <2>2, <2>3, RowStep DEF SnapshotStage
  <1>4. CASE Finalize(r)
    <2>1. CASE sends[s] # None
      <3>1. UNCHANGED <<sends, pending, used, cap, edited>> /\ Finish(r)
        BY <1>b, <1>4, <2>1 DEF Finalize, tables
      <3>2. /\ \A q \in Req \ {r} : req'[q] = req[q]
            /\ req'[r] = Idle
        BY <1>b, <1>e, <3>1 DEF Finish
      <3>3. \A t \in Send \ edited' : SlotCapped(t, r)'
        BY <1>b, <3>2 DEF SlotCapped, Idle, SnapshotStage
      <3> QED
        BY <3>1, <3>2, <3>3, SlotStep DEF Idle
    <2>2. CASE sends[s] = None
      <3>1. /\ UNCHANGED <<used, cap, edited>>
            /\ sends' = [sends EXCEPT ![s] = [req[r].row EXCEPT !.updated = now]]
            /\ pending' = [pending EXCEPT ![s] = None]
            /\ \A q \in Req \ {r} : req'[q] = req[q]
            /\ req'[r].id = s /\ req'[r].stage = "touch"
        BY <1>b, <1>4, <1>e, <2>2 DEF Finalize, Reply
      <3>2. /\ [req[r].row EXCEPT !.updated = now].max = req[r].row.max
            /\ [req[r].row EXCEPT !.updated = now].count = req[r].row.count
        BY <1>b, <1>4, <1>d DEF Finalize, SnapshotStage, Row
      <3>3. s \notin edited => RowCapped(s)' /\ PendingCapped(s)'
        BY <1>4, <1>b, <1>c, <1>d, <3>1, <3>2
        DEF TypeOK, Finalize, RowCapped, PendingCapped, SlotCapped, Unborn, SnapshotStage
      <3>4. \A t \in Send \ {s} : sends'[t] = sends[t] /\ pending'[t] = pending[t]
        BY <3>1 DEF TypeOK
      <3> QED
        BY <1>b, <3>1, <3>3, <3>4, RowStep DEF SnapshotStage
    <2> QED
      BY <2>1, <2>2
  <1>5. CASE WriteRow(r) \/ BumpRow(r)
    <2>1. /\ UNCHANGED <<pending, used, cap, edited>>
          /\ WriteSnapshot(s, req[r].row)
          /\ \A q \in Req \ {r} : req'[q] = req[q]
          /\ req'[r].id = s /\ req'[r].stage \in {"touch", "serveFree"}
          /\ req[r].stage \in {"write", "bump"}
      BY <1>b, <1>5, <1>e DEF WriteRow, BumpRow, Reply, At, ghosts
    <2>2. \A t \in Send \ {s} : sends'[t] = sends[t] /\ pending'[t] = pending[t]
      BY <2>1 DEF TypeOK, WriteSnapshot
    <2>3. CASE sends[s] = None
      BY <1>b, <1>c, <2>1, <2>2, <2>3, RowStep
      DEF WriteSnapshot, RowCapped, PendingCapped, SnapshotStage
    <2>4. CASE sends[s] # None
      <3>1. sends[s] \in Row /\ req[r].row \in Row
        BY <1>b, <1>d, <2>1, <2>4 DEF TypeOK, SnapshotStage
      <3>2. sends'[s] = Written(sends[s], req[r].row)
        BY <1>b, <2>1, <2>4 DEF TypeOK, WriteSnapshot
      <3>3. sends'[s].max = req[r].row.max /\ sends'[s].count = sends[s].count
        BY <3>1, <3>2 DEF Written, Row
      <3>4. s \notin edited => RowCapped(s)' /\ PendingCapped(s)'
        BY <1>b, <1>c, <2>1, <2>4, <3>3 DEF RowCapped, PendingCapped, SlotCapped, SnapshotStage
      <3> QED
        BY <1>b, <2>1, <2>2, <3>4, RowStep DEF SnapshotStage
    <2> QED
      BY <2>3, <2>4
  <1>6. CASE DeleteRow(r)
    <2>1. /\ UNCHANGED <<pending, used, cap, edited>>
          /\ sends' = [sends EXCEPT ![s] = None]
          /\ \A q \in Req \ {r} : req'[q] = req[q]
          /\ req'[r].id = s /\ req'[r].stage = "touch"
      BY <1>b, <1>6, <1>e DEF DeleteRow, Reply, ghosts
    <2>2. s \notin edited => RowCapped(s)' /\ PendingCapped(s)'
      BY <1>b, <1>c, <2>1 DEF TypeOK, RowCapped, PendingCapped
    <2>3. \A t \in Send \ {s} : sends'[t] = sends[t] /\ pending'[t] = pending[t]
      BY <2>1 DEF TypeOK
    <2> QED
      BY <1>b, <2>1, <2>2, <2>3, RowStep DEF SnapshotStage
  <1>7. CASE Charge(r)
    <2>1. CASE ~Chargeable(s)
      <3>1. UNCHANGED <<sends, pending, used, cap, edited>> /\ Finish(r)
        BY <1>b, <1>7, <2>1 DEF Charge
      <3>2. /\ \A q \in Req \ {r} : req'[q] = req[q]
            /\ req'[r] = Idle
        BY <1>b, <1>e, <3>1 DEF Finish
      <3>3. \A t \in Send \ edited' : SlotCapped(t, r)'
        BY <1>b, <3>2 DEF SlotCapped, Idle, SnapshotStage
      <3> QED
        BY <3>1, <3>2, <3>3, SlotStep DEF Idle
    <2>2. CASE Chargeable(s)
      <3>1. sends[s] \in Row /\ sends[s] # None
        BY <1>b, <2>2 DEF TypeOK, Chargeable
      <3>2. /\ UNCHANGED <<pending, used, cap, edited>>
            /\ sends' = [sends EXCEPT ![s] =
                            [sends[s] EXCEPT !.count = sends[s].count + 1, !.updated = now]]
        BY <1>7, <1>b, <2>2 DEF TypeOK, Charge
      <3>3. /\ \A q \in Req \ {r} : req'[q] = req[q]
            /\ req'[r].id \in {s, None}
            /\ req'[r].stage \notin SnapshotStage
        BY <1>b, <1>7, <1>e, <2>2 DEF Charge, Finish, Reply, Idle, At, AfterCharge, SnapshotStage
      <3>4. sends'[s].max = sends[s].max /\ sends'[s].count = sends[s].count + 1
        BY <1>b, <3>1, <3>2 DEF TypeOK, Row
      <3>5. sends[s].count \in Nat
        BY <3>1 DEF Row
      <3>6. s \notin edited => RowCapped(s)' /\ PendingCapped(s)'
        <4> SUFFICES ASSUME s \notin edited PROVE RowCapped(s)' /\ PendingCapped(s)'
          OBVIOUS
        <4>1. sends[s].max = cap[s] /\ PendingCapped(s)
          BY <1>b, <1>c, <3>1 DEF RowCapped
        <4>2. cap[s] # None => cap[s] \in Nat /\ sends[s].count < cap[s]
          BY <1>b, <1>d, <2>2, <4>1 DEF Chargeable
        <4>3. cap[s] # None => sends[s].count + 1 <= cap[s]
          BY <3>5, <4>2
        <4>4. cap' = cap /\ pending' = pending
          BY <3>2
        <4> QED
          BY <3>4, <4>1, <4>3, <4>4 DEF RowCapped, PendingCapped
      <3>7. \A t \in Send \ {s} : sends'[t] = sends[t] /\ pending'[t] = pending[t]
        BY <3>2 DEF TypeOK
      <3>8. UNCHANGED <<used, cap, edited>>
        BY <3>2
      <3> QED
        BY <1>b, <3>3, <3>6, <3>7, <3>8, RowStep
    <2> QED
      BY <2>1, <2>2
  <1> QED
    BY <1>1, <1>2, <1>3, <1>4, <1>5, <1>6, <1>7 DEF Continue

\* The purge and the clock: rows only go away.
LEMMA CronCapped ==
    ASSUME TypeOK, CapInv, Cron \/ Tick
    PROVE  CapInv'
  <1>1. /\ UNCHANGED <<req, used, cap, edited>>
        /\ \A s \in Send : sends'[s] \in {sends[s], None} /\ pending'[s] \in {pending[s], None}
    BY DEF TypeOK, Tick, Cron, CronFindStale, CronDeleteStale, CronFindExpired, CronTouch,
           CronFail, CronDeleteObject, CronDeleteExpired, tables, ghosts
  <1> QED
    BY <1>1 DEF CapInv, Undrawn, RowCapped, PendingCapped, SlotCapped

\* Every copy of the row of a send its owner left alone keeps the maximum it was
\* created with, in the tables and in the handlers in flight.
THEOREM CapsKept == Spec => []CapInv
  <1>1. Init => CapInv
    <2> SUFFICES ASSUME Init PROVE CapInv
      OBVIOUS
    <2>1. /\ \A s \in Send : sends[s] = None /\ pending[s] = None
          /\ \A r \in Req : req[r] = Idle
      BY DEF Init
    <2> QED
      BY <2>1, NoneAssumption
      DEF CapInv, Undrawn, RowCapped, PendingCapped, SlotCapped, Idle, SnapshotStage
  <1>2. TypeOK /\ CapInv /\ [Next]_vars => CapInv'
    <2> SUFFICES ASSUME TypeOK, CapInv, [Next]_vars PROVE CapInv'
      OBVIOUS
    <2>1. CASE UNCHANGED vars
      BY <2>1 DEF vars, CapInv, Undrawn, RowCapped, PendingCapped, SlotCapped
    <2> QED
      BY <2>1, BeginCapped, ContinueCapped, CronCapped DEF Next
  <1> QED
    BY <1>1, <1>2, TypeCorrect, PTL DEF Spec

\* However many accesses were validated against the same row, the access count
\* never passes the maximum of a send whose owner has not changed it.
THEOREM CapRespected == Spec => []CountWithinCap
  <1>1. CapInv => CountWithinCap
    BY DEF CapInv, CountWithinCap, RowCapped
  <1> QED
    BY <1>1, CapsKept, PTL

-----------------------------------------------------------------------------
\* Contents never leave the server beyond the accesses charged: the handlers still
\* answering a charged access are counted together with the contents served.

Answers(r, s) == req[r].id = s /\ req[r].stage \in {"serve", "stream"}

LEMMA AnsweringFinite ==
    ASSUME NEW s \in Send
    PROVE  IsFiniteSet(Answering(s)) /\ Cardinality(Answering(s)) \in Nat
  <1>1. Answering(s) \in SUBSET Req
    BY DEF Answering
  <1>2. IsFiniteSet(Answering(s))
    BY <1>1, ReqAssumption, FS_Subset
  <1> QED
    BY <1>2, FS_CardinalityType

\* One handler moves: it alone joins or leaves those that are answering.
LEMMA AnsweringMoves ==
    ASSUME NEW r \in Req, NEW s \in Send, \A q \in Req \ {r} : req'[q] = req[q]
    PROVE  Cardinality(Answering(s)') =
              Cardinality(Answering(s))
                + (IF Answers(r, s)' THEN 1 ELSE 0) - (IF Answers(r, s) THEN 1 ELSE 0)
  <1> DEFINE Old == Answering(s)
             New == Answering(s)'
             Others == Old \ {r}
  <1>1. r \in Old <=> Answers(r, s)
    BY DEF Answering, Answers
  <1>2. New = IF Answers(r, s)' THEN Others \cup {r} ELSE Others
    BY DEF Answering, Answers
  <1>3. IsFiniteSet(Old) /\ Cardinality(Old) \in Nat
    BY AnsweringFinite
  <1> HIDE DEF Old, New
  <1>4. /\ IsFiniteSet(Others)
        /\ Cardinality(Others) = Cardinality(Old) - (IF Answers(r, s) THEN 1 ELSE 0)
    BY <1>1, <1>3, FS_RemoveElement
  <1>5. Cardinality(Others \cup {r}) = Cardinality(Others) + 1
    BY <1>4, FS_AddElement
  <1>6. Cardinality(New) =
           Cardinality(Others) + (IF Answers(r, s)' THEN 1 ELSE 0)
    <2>1. Cardinality(Others) \in Int
      BY <1>3, <1>4
    <2> QED
      BY <1>2, <1>5, <2>1
  <1> QED
    BY <1>3, <1>4, <1>6 DEF Old, New

\* Only Charge adds to what was charged, and only it lets a handler answer.
LEMMA QuietStep ==
    ASSUME TypeOK, ServedWasPaid, NEW r \in Req,
           UNCHANGED <<charged, served>>,
           \A q \in Req \ {r} : req'[q] = req[q],
           req'[r].stage \notin {"serve", "stream"} \/ req' = req
    PROVE  ServedWasPaid'
  <1> SUFFICES ASSUME NEW s \in Send
               PROVE  served'[s] + Cardinality(Answering(s)') <= charged'[s]
    BY DEF ServedWasPaid
  <1>1. Cardinality(Answering(s)') <= Cardinality(Answering(s))
    <2>1. CASE req' = req
      <3>1. Answering(s)' = Answering(s)
        BY <2>1 DEF Answering
      <3> QED
        BY <3>1, AnsweringFinite
    <2>2. CASE req'[r].stage \notin {"serve", "stream"}
      <3>1. ~Answers(r, s)'
        BY <2>2 DEF Answers
      <3> QED
        BY <3>1, AnsweringMoves, AnsweringFinite
    <2> QED
      BY <2>1, <2>2
  <1>2. Cardinality(Answering(s)') \in Int
    <2>1. Cardinality(Answering(s)') = Cardinality(Answering(s))
             + (IF Answers(r, s)' THEN 1 ELSE 0) - (IF Answers(r, s) THEN 1 ELSE 0)
      BY AnsweringMoves
    <2> QED
      BY <2>1, AnsweringFinite
  <1>3. served[s] + Cardinality(Answering(s)) <= charged[s]
    BY DEF ServedWasPaid
  <1> QED
    BY <1>1, <1>2, <1>3, AnsweringFinite DEF TypeOK

LEMMA BeginPaid ==
    ASSUME TypeOK, ServedWasPaid, NEW r \in Req, NEW s \in Send, Begin(r, s)
    PROVE  ServedWasPaid'
  <1>1. UNCHANGED <<charged, served>>
    BY DEF Begin, CreateTextSend, CreateFileSendV2, CreateFileSendLegacy, Fresh, StartUpdate,
           StartStreamUpload, StartDirectUpload, CountUpload, StartRemovePassword, StartDelete,
           StartAccess, StartAccessFile, StartGrant, StartDownload, Opens,
           StartTokenAccess, StartTokenAccessFile, ghosts
  <1>2. /\ \A q \in Req \ {r} : req'[q] = req[q]
        /\ req'[r].stage \notin {"serve", "stream"} \/ req' = req
    BY DEF TypeOK, Begin, CreateTextSend, CreateFileSendV2, CreateFileSendLegacy, StartUpdate,
           StartStreamUpload, StartDirectUpload, StartRemovePassword, StartDelete,
           StartAccess, StartAccessFile, StartGrant, StartDownload,
           StartTokenAccess, StartTokenAccessFile, Hold, Reply
  <1> QED
    BY <1>1, <1>2, QuietStep

LEMMA ContinuePaid ==
    ASSUME TypeOK, ServedWasPaid, NEW r \in Req, Continue(r)
    PROVE  ServedWasPaid'
  <1>0. \A q \in Req \ {r} : req'[q] = req[q]
    BY DEF TypeOK, Continue, InsertLegacy, PutObject, DiscardMismatch, Finalize, WriteRow,
           DeleteObject, DeleteRow, BumpRow, Charge, Answer, IssueLink, ServeContent,
           Abort, Touch, Hold, Reply, Finish
  <1>1. CASE Charge(r)
    <2>1. CASE ~Chargeable(req[r].id)
      <3>1. UNCHANGED <<charged, served>> /\ Finish(r)
        BY <1>1, <2>1 DEF Charge
      <3>2. req'[r].stage = "idle"
        BY <3>1 DEF TypeOK, Finish, Idle
      <3> QED
        BY <1>0, <3>1, <3>2, QuietStep
    <2>2. CASE Chargeable(req[r].id)
      <3> SUFFICES ASSUME NEW s \in Send
                   PROVE  served'[s] + Cardinality(Answering(s)') <= charged'[s]
        BY DEF ServedWasPaid
      <3>1. /\ served' = served
            /\ charged'[s] = charged[s] + (IF req[r].id = s THEN 1 ELSE 0)
        BY <1>1, <2>2 DEF TypeOK, Charge
      <3>2. ~Answers(r, s)
        BY <1>1 DEF Charge, Answers
      <3>3. Answers(r, s)' => req[r].id = s
        BY <1>1, <2>2, NoneAssumption DEF TypeOK, Charge, Answers, Finish, Reply, Idle
      <3>4. Cardinality(Answering(s)') =
               Cardinality(Answering(s)) + (IF Answers(r, s)' THEN 1 ELSE 0)
        BY <1>0, <3>2, AnsweringMoves, AnsweringFinite
      <3>5. served[s] + Cardinality(Answering(s)) <= charged[s]
        BY DEF ServedWasPaid
      <3> QED
        BY <3>1, <3>3, <3>4, <3>5, AnsweringFinite DEF TypeOK
    <2> QED
      BY <2>1, <2>2
  <1>2. CASE ServeContent(r)
    <2> SUFFICES ASSUME NEW s \in Send
                 PROVE  served'[s] + Cardinality(Answering(s)') <= charged'[s]
      BY DEF ServedWasPaid
    <2>1. /\ charged' = charged
          /\ served'[s] \in {served[s], served[s] + (IF req[r].id = s THEN 1 ELSE 0)}
      BY <1>2 DEF TypeOK, ServeContent
    <2>2. Answers(r, s) <=> req[r].id = s
      BY <1>2 DEF ServeContent, Answers
    <2>3. ~Answers(r, s)'
      BY <1>2 DEF TypeOK, ServeContent, Touch, Finish, Idle, Answers
    <2>4. Cardinality(Answering(s)') =
             Cardinality(Answering(s)) - (IF Answers(r, s) THEN 1 ELSE 0)
      BY <1>0, <2>3, AnsweringMoves, AnsweringFinite
    <2>5. served[s] + Cardinality(Answering(s)) <= charged[s]
      BY DEF ServedWasPaid
    <2> QED
      BY <2>1, <2>2, <2>4, <2>5, AnsweringFinite DEF TypeOK
  <1>3. CASE ~Charge(r) /\ ~ServeContent(r)
    <2>1. UNCHANGED <<charged, served>>
      BY <1>3 DEF Continue, InsertLegacy, PutObject, DiscardMismatch, Finalize, WriteRow,
         DeleteObject, DeleteRow, BumpRow, Answer, IssueLink, Abort, ghosts
    <2>2. req'[r].stage \notin {"serve", "stream"}
      BY <1>3 DEF TypeOK, Continue, InsertLegacy, PutObject, DiscardMismatch, Finalize,
         WriteRow, DeleteObject, DeleteRow, BumpRow, Answer, IssueLink,
         Abort, Touch, Hold, Reply, Finish, Idle
    <2> QED
      BY <1>0, <2>1, <2>2, QuietStep
  <1> QED
    BY <1>1, <1>2, <1>3

LEMMA CronPaid ==
    ASSUME ServedWasPaid, UNCHANGED <<req, charged, served>>
    PROVE  ServedWasPaid'
  BY DEF ServedWasPaid, Answering

\* Every text or file that left the server against no access token was charged
\* to the access count first, and no two accesses shared a charge.
THEOREM Paid == Spec => []ServedWasPaid
  <1>1. Init => ServedWasPaid
    <2> SUFFICES ASSUME Init, NEW s \in Send
                 PROVE  served[s] + Cardinality(Answering(s)) <= charged[s]
      BY DEF ServedWasPaid
    <2>1. Answering(s) = {}
      BY DEF Init, Idle, Answering
    <2> QED
      BY <2>1, FS_EmptySet DEF Init
  <1>2. TypeOK /\ ServedWasPaid /\ [Next]_vars => ServedWasPaid'
    <2> SUFFICES ASSUME TypeOK, ServedWasPaid, [Next]_vars PROVE ServedWasPaid'
      OBVIOUS
    <2>1. CASE Cron \/ Tick \/ UNCHANGED vars
      <3>1. UNCHANGED <<req, charged, served>>
        BY <2>1 DEF vars, Tick, Cron, CronFindStale, CronDeleteStale, CronFindExpired, CronTouch,
           CronFail, CronDeleteObject, CronDeleteExpired, ghosts
      <3> QED
        BY <3>1, CronPaid
    <2> QED
      BY <2>1, BeginPaid, ContinuePaid DEF Next
  <1> QED
    BY <1>1, <1>2, TypeCorrect, PTL DEF Spec

-----------------------------------------------------------------------------
\* The files of the object store and the rows of the tables

\* A handler that uploads the file of s, or is about to insert its row.
UploadStage == {"putStream", "putBytes", "streamed", "stored"}
Uploading(r, s) == req[r].id = s /\ req[r].stage \in UploadStage

\* The purge has found the row of s expired.
Purging(s) == s \in cron.found /\ cron.stage \in {"expiredObjects", "expiredRows"}

\* The upload of s is over: no row of it waits and no handler is about to insert one.
Settled(s) ==
    pending[s] = None /\ \A r \in Req : req[r].id = s => req[r].stage \notin Unborn

\* What the purge remembers fits the stage it is at.
PurgeSound ==
    /\ cron.keys \subseteq cron.found
    /\ cron.stage = "staleObjects" => cron.at <= now
    /\ cron.stage \in {"idle", "expired"} => cron.found = {}
    /\ cron.stage = "expiredRows" => cron.keys = {}

\* An id not drawn yet has no file and the purge has not seen it.
FreshId(s) == s \notin used => s \notin store /\ s \notin cron.found

\* Rows that wait for a file are of file sends; a legacy upload has its id to
\* itself; an upload holds the row that waits.
FileRows(s) ==
    /\ pending[s] # None => pending[s].type = "file"
    /\ \A r \in Req : req[r].id = s =>
          /\ req[r].stage \in Unborn => req[r].row.type = "file"
          /\ req[r].stage = "insert" =>
                /\ sends[s] = None /\ pending[s] = None /\ s \notin cron.found
                /\ \A q \in Req \ {r} : req[q].id # s
          /\ req[r].stage \in UploadStage /\ pending[s] # None =>
                req[r].row.created = pending[s].created

\* With one upload begun: no other is in flight, and once the row is in sends,
\* or is on its way out of it, the upload is over.
OneUpload(s) ==
    /\ \A r \in Req : Uploading(r, s) =>
          uploads[s] = 1 /\ \A q \in Req \ {r} : ~Uploading(q, s)
    /\ sends[s] # None \/ Purging(s) => Settled(s)
    /\ \A r \in Req : req[r].id = s /\ req[r].stage \notin Unborn => Settled(s)
    /\ sends[s] # None /\ sends[s].type = "text" => s \notin store

\* Where the file of s is while a handler or the purge works on s.
FileKept(s) ==
    /\ \A r \in Req : req[r].id = s =>
          /\ req[r].stage = "deleteRow" => s \notin store
          /\ req[r].stage = "insert" => s \in store
          /\ req[r].stage \in {"streamed", "stored"} =>
                s \in store \cup late \/ req[r].row.created + StaleAfter < now
    /\ Purging(s) /\ s \notin cron.keys => s \notin store
    /\ pending[s] # None /\ s \in store =>
          \E r \in Req : req[r].id = s /\ req[r].stage \in {"streamed", "stored"}
    /\ cron.stage = "staleObjects" /\ s \in cron.found =>
          s \in late \/ (pending[s] # None /\ pending[s].created + StaleAfter < cron.at)

\* What FilesPresent and NoOrphanFiles say of s.
FileThere(s) == HasFile(s) \/ BeingDeleted(s) \/ s \in late
RowThere(s) ==
    s \in store =>
        \/ sends[s] # None \/ pending[s] # None
        \/ \E r \in Req : req[r].id = s /\ req[r].stage \in {"insert", "streamed", "stored"}

FileOf(s) ==
    /\ FreshId(s)
    /\ FileRows(s)
    /\ uploads[s] # 2 => OneUpload(s)
    /\ uploads[s] # 2 /\ s \notin cut => FileKept(s) /\ FileThere(s) /\ RowThere(s)
FileInv == PurgeSound /\ \A s \in Send : FileOf(s)

\* A handler moves on one send: the others are as they were.
LEMMA FileStep ==
    ASSUME TypeOK, FileInv, NEW r \in Req, NEW s \in Send, UNCHANGED <<now, cron>>,
           \A q \in Req \ {r} : req'[q] = req[q],
           req[r].id \in {s, None}, req'[r].id \in {s, None},
           \A t \in Send \ {s} : /\ sends'[t] = sends[t] /\ pending'[t] = pending[t]
                                 /\ uploads'[t] = uploads[t] /\ (t \in store' <=> t \in store),
           used \subseteq used', cut \subseteq cut', late \subseteq late',
           FileOf(s)'
    PROVE  FileInv'
  <1>1. PurgeSound'
    BY DEF FileInv, PurgeSound
  <1>2. ASSUME NEW t \in Send \ {s} PROVE FileOf(t)'
    <2>1. FileOf(t)
      BY DEF FileInv
    <2>2. \A q \in Req : /\ req'[q].id = t <=> req[q].id = t
                         /\ req[q].id = t => req'[q] = req[q]
      BY NoneAssumption
    <2>3. /\ sends'[t] = sends[t] /\ pending'[t] = pending[t] /\ uploads'[t] = uploads[t]
          /\ t \in store' <=> t \in store
          /\ t \in used => t \in used'
          /\ t \in cut => t \in cut'
          /\ t \in late => t \in late'
          /\ now' = now /\ cron' = cron
      OBVIOUS
    <2>4. FreshId(t)'
      BY <2>1, <2>3 DEF FileOf, FreshId
    <2>5. FileRows(t)'
      BY <2>1, <2>2, <2>3 DEF FileOf, FileRows
    <2>6. ASSUME uploads'[t] # 2 PROVE OneUpload(t)'
      <3>1. OneUpload(t)
        BY <2>1, <2>3, <2>6 DEF FileOf
      <3>2. Settled(t)' <=> Settled(t)
        BY <2>2, <2>3 DEF Settled
      <3>3. Purging(t)' <=> Purging(t)
        BY <2>3 DEF Purging
      <3>4. \A q \in Req : Uploading(q, t)' <=> Uploading(q, t)
        BY <2>2 DEF Uploading
      <3> QED
        BY <2>2, <2>3, <3>1, <3>2, <3>3, <3>4 DEF OneUpload
    <2>7. ASSUME uploads'[t] # 2, t \notin cut'
          PROVE  FileKept(t)' /\ FileThere(t)' /\ RowThere(t)'
      <3>1. FileKept(t) /\ FileThere(t) /\ RowThere(t)
        BY <2>1, <2>3, <2>7 DEF FileOf
      <3>2. FileKept(t)'
        BY <2>2, <2>3, <3>1 DEF FileKept, Purging
      <3>3. FileThere(t)'
        BY <2>2, <2>3, <3>1 DEF FileThere, HasFile, BeingDeleted, At
      <3>4. RowThere(t)'
        BY <2>2, <2>3, <3>1 DEF RowThere
      <3> QED
        BY <3>2, <3>3, <3>4
    <2> QED
      BY <2>4, <2>5, <2>6, <2>7 DEF FileOf
  <1> QED
    BY <1>1, <1>2 DEF FileInv

\* A handler begins on a row that is there: its upload is over.
LEMMA FilesOnRow ==
    ASSUME TypeOK, FileInv, NEW r \in Req, NEW s \in Send,
           UNCHANGED <<now, cron, sends, pending, store, uploads, used, cut, late>>,
           At(r, "idle"), sends[s] # None,
           \A q \in Req \ {r} : req'[q] = req[q],
           req'[r].id = s, req'[r].stage \notin Unborn,
           req'[r].stage = "deleteRow" => sends[s].type = "text"
    PROVE  FileInv'
  <1>1. FileOf(s)
    BY DEF FileInv
  <1>2. req[r].id = None
    BY DEF TypeOK, At, Handler, Idle, SnapshotStage, ReplyStage
  <1>3. req'[r].stage \notin {"insert", "streamed", "stored"} /\ req'[r].stage \notin UploadStage
    BY DEF Unborn, UploadStage
  <1>4. FreshId(s)'
    BY <1>1 DEF FileOf, FreshId
  <1>5. FileRows(s)'
    <2>1. \A q \in Req : req[q].id = s => req[q].stage # "insert"
      BY <1>1 DEF FileOf, FileRows
    <2> QED
      BY <1>1, <1>3, <2>1 DEF FileOf, FileRows
  <1>6. ASSUME uploads'[s] # 2 PROVE OneUpload(s)'
    <2>1. OneUpload(s)
      BY <1>1, <1>6 DEF FileOf
    <2>2. Settled(s)
      BY <2>1 DEF OneUpload
    <2>3. Settled(s)'
      BY <2>2 DEF Settled
    <2>4. \A q \in Req : ~Uploading(q, s)'
      BY <2>3 DEF Settled, Uploading, Unborn, UploadStage
    <2>5. sends'[s] # None /\ sends'[s].type = "text" => s \notin store'
      BY <2>1 DEF OneUpload
    <2> QED
      BY <2>3, <2>4, <2>5 DEF OneUpload
  <1>7. ASSUME uploads'[s] # 2, s \notin cut'
        PROVE  FileKept(s)' /\ FileThere(s)' /\ RowThere(s)'
    <2>1. FileKept(s) /\ FileThere(s) /\ RowThere(s)
      BY <1>1, <1>7 DEF FileOf
    <2>2. OneUpload(s)
      BY <1>1, <1>7 DEF FileOf
    <2>3. FileKept(s)'
      BY <1>2, <1>3, <2>1, <2>2, NoneAssumption DEF FileKept, OneUpload, Purging, Settled
    <2>4. FileThere(s)'
      BY <1>2, <2>1, NoneAssumption DEF FileThere, HasFile, BeingDeleted, At
    <2>5. RowThere(s)'
      BY DEF RowThere
    <2> QED
      BY <2>3, <2>4, <2>5
  <1>8. FileOf(s)'
    BY <1>4, <1>5, <1>6, <1>7 DEF FileOf
  <1> QED
    BY <1>2, <1>8, FileStep

\* A handler begins to upload the file of a row that waits.
LEMMA FilesOnUpload ==
    ASSUME TypeOK, FileInv, NEW r \in Req, NEW s \in Send,
           StartStreamUpload(r, s) \/ StartDirectUpload(r, s)
    PROVE  FileInv'
  <1>1. FileOf(s)
    BY DEF FileInv
  <1>2. At(r, "idle") /\ pending[s] # None /\ CountUpload(s)
    BY DEF StartStreamUpload, StartDirectUpload
  <1>3. req[r].id = None
    BY <1>2 DEF TypeOK, At, Handler, Idle, SnapshotStage, ReplyStage
  <1>4. /\ UNCHANGED <<now, cron, sends, pending, store, used, cut, late>>
        /\ \A q \in Req \ {r} : req'[q] = req[q]
        /\ req'[r].id = s /\ req'[r].row = pending[s]
        /\ req'[r].stage \in {"putStream", "putBytes"}
    BY DEF TypeOK, StartStreamUpload, StartDirectUpload, Hold, CountUpload, tables
  <1>5. /\ \A t \in Send \ {s} : uploads'[t] = uploads[t]
        /\ uploads[s] \in 0..2
        /\ uploads'[s] = IF uploads[s] = 2 THEN 2 ELSE uploads[s] + 1
    BY <1>2 DEF TypeOK, CountUpload
  <1>6. FreshId(s)'
    BY <1>1, <1>4 DEF FileOf, FreshId
  <1>7. FileRows(s)'
    <2>1. \A q \in Req : req[q].id = s => req[q].stage # "insert"
      BY <1>1, <1>2 DEF FileOf, FileRows
    <2> QED
      BY <1>1, <1>2, <1>4, <2>1 DEF FileOf, FileRows, Unborn, UploadStage
  <1>8. ASSUME uploads'[s] # 2 PROVE OneUpload(s)'
    <2>1. OneUpload(s) /\ uploads[s] = 0 /\ uploads'[s] = 1
      BY <1>1, <1>5, <1>8 DEF FileOf
    <2>2. \A q \in Req : ~Uploading(q, s)
      BY <2>1 DEF OneUpload
    <2>3. \A q \in Req \ {r} : ~Uploading(q, s)'
      BY <1>4, <2>2 DEF Uploading
    <2>4. \A q \in Req : req[q].id = s => req[q].stage \in Unborn
      BY <1>2, <2>1 DEF OneUpload, Settled
    <2>5. sends[s] = None /\ ~Purging(s)
      BY <1>2, <2>1 DEF OneUpload, Settled
    <2>6. \A q \in Req : req'[q].id = s => req'[q].stage \in Unborn
      BY <1>4, <2>4 DEF Unborn
    <2> QED
      BY <1>4, <2>1, <2>3, <2>5, <2>6 DEF OneUpload, Purging
  <1>9. ASSUME uploads'[s] # 2, s \notin cut'
        PROVE  FileKept(s)' /\ FileThere(s)' /\ RowThere(s)'
    <2>1. FileKept(s) /\ FileThere(s) /\ RowThere(s)
      BY <1>1, <1>4, <1>5, <1>9 DEF FileOf
    <2>2. FileKept(s)'
      BY <1>3, <1>4, <2>1, NoneAssumption DEF FileKept, Purging
    <2>3. FileThere(s)'
      BY <1>3, <1>4, <2>1, NoneAssumption DEF FileThere, HasFile, BeingDeleted, At
    <2>4. RowThere(s)'
      BY <1>2, <1>4 DEF RowThere
    <2> QED
      BY <2>2, <2>3, <2>4
  <1>10. FileOf(s)'
    BY <1>6, <1>7, <1>8, <1>9 DEF FileOf
  <1>11. \A t \in Send \ {s} : /\ sends'[t] = sends[t] /\ pending'[t] = pending[t]
                               /\ uploads'[t] = uploads[t] /\ (t \in store' <=> t \in store)
    BY <1>4, <1>5
  <1> QED
    BY <1>3, <1>4, <1>10, <1>11, FileStep

\* A send is created: its id is in no table, no slot, no key and no purge.
LEMMA FilesOnCreate ==
    ASSUME TypeOK, CapInv, FileInv, NEW r \in Req, NEW s \in Send, NEW p \in Payload,
           \/ CreateTextSend(r, s, p) \/ CreateFileSendV2(r, s, p)
           \/ CreateFileSendLegacy(r, s, p)
    PROVE  FileInv'
  <1>1. FileOf(s)
    BY DEF FileInv
  <1>2. /\ s \notin used /\ used' = used \cup {s} /\ At(r, "idle")
        /\ UNCHANGED <<now, cron, uploads, cut, late>>
    BY DEF CreateTextSend, CreateFileSendV2, CreateFileSendLegacy, Fresh
  <1>3. Undrawn(s) /\ s \notin store /\ s \notin cron.found
    BY <1>1, <1>2 DEF CapInv, FileOf, FreshId
  <1>4. req[r].id = None /\ req[r].stage = "idle"
    BY <1>2 DEF TypeOK, At, Handler, Idle, SnapshotStage, ReplyStage
  <1>5. \A type \in SendType : NewRow(type, p) \in Row /\ NewRow(type, p).type = type
    BY NewRowIsRow DEF TypeOK, NewRow, Configured
  <1>6. \A q \in Req \ {r} : req'[q] = req[q] /\ req'[q].id # s
    BY <1>3 DEF TypeOK, Undrawn, CreateTextSend, CreateFileSendV2, CreateFileSendLegacy, Hold, Reply
  <1>7. \A t \in Send \ {s} : /\ sends'[t] = sends[t] /\ pending'[t] = pending[t]
                              /\ uploads'[t] = uploads[t] /\ (t \in store' <=> t \in store)
    BY <1>2 DEF TypeOK, CreateTextSend, CreateFileSendV2, CreateFileSendLegacy, tables
  <1>8. \/ /\ sends'[s] # None /\ sends'[s].type = "text" /\ pending'[s] = None /\ s \notin store'
           /\ req'[r].id = s /\ req'[r].stage = "touch"
        \/ /\ sends'[s] = None /\ pending'[s] # None /\ pending'[s].type = "file"
           /\ s \notin store' /\ req'[r].id = None
        \/ /\ sends'[s] = None /\ pending'[s] = None /\ s \in store'
           /\ req'[r].id = s /\ req'[r].stage = "insert" /\ req'[r].row.type = "file"
    <2>1. CASE CreateTextSend(r, s, p)
      BY <1>3, <1>5, <2>1, NullAssumption DEF TypeOK, CreateTextSend, Reply, Undrawn, SendType
    <2>2. CASE CreateFileSendV2(r, s, p)
      BY <1>3, <1>4, <1>5, <2>2, NullAssumption DEF TypeOK, CreateFileSendV2, Undrawn, SendType
    <2>3. CASE CreateFileSendLegacy(r, s, p)
      BY <1>3, <1>5, <2>3 DEF TypeOK, CreateFileSendLegacy, Hold, Undrawn, SendType, tables
    <2> QED
      BY <2>1, <2>2, <2>3
  <1>9. ~Purging(s)' /\ \A q \in Req : ~Uploading(q, s)'
    BY <1>2, <1>3, <1>6, <1>8, NoneAssumption DEF Purging, Uploading, UploadStage
  <1>10. FreshId(s)'
    BY <1>2 DEF FreshId
  <1>11. FileRows(s)'
    BY <1>2, <1>3, <1>6, <1>8, NoneAssumption DEF FileRows, UploadStage, Unborn
  <1>12. OneUpload(s)'
    <2>1. sends'[s] # None \/ (req'[r].stage = "touch" /\ req'[r].id = s) => Settled(s)'
      BY <1>6, <1>8, NoneAssumption DEF Settled, Unborn
    <2> QED
      BY <1>6, <1>8, <1>9, <2>1, NoneAssumption DEF OneUpload, Unborn
  <1>13. FileKept(s)'
    BY <1>2, <1>3, <1>6, <1>8, <1>9, NoneAssumption DEF FileKept
  <1>14. FileThere(s)' /\ RowThere(s)'
    BY <1>8 DEF FileThere, HasFile, RowThere
  <1>15. FileOf(s)'
    BY <1>10, <1>11, <1>12, <1>13, <1>14 DEF FileOf
  <1> QED
    BY <1>2, <1>4, <1>6, <1>7, <1>8, <1>15, FileStep

LEMMA BeginFiles ==
    ASSUME TypeOK, CapInv, FileInv, NEW r \in Req, NEW s \in Send, Begin(r, s)
    PROVE  FileInv'
  <1>1. CASE \E p \in Payload : \/ CreateTextSend(r, s, p) \/ CreateFileSendV2(r, s, p)
                                \/ CreateFileSendLegacy(r, s, p)
    BY <1>1, FilesOnCreate
  <1>2. CASE StartStreamUpload(r, s) \/ StartDirectUpload(r, s)
    BY <1>2, FilesOnUpload
  <1>3. CASE /\ ~\E p \in Payload : \/ CreateTextSend(r, s, p) \/ CreateFileSendV2(r, s, p)
                                    \/ CreateFileSendLegacy(r, s, p)
             /\ ~(StartStreamUpload(r, s) \/ StartDirectUpload(r, s))
    <2>1. /\ At(r, "idle") /\ sends[s] # None
          /\ UNCHANGED <<now, cron, sends, pending, store, uploads, used, cut, late>>
      BY <1>3 DEF Begin, StartUpdate, StartRemovePassword, StartDelete, StartAccess,
         StartAccessFile, StartGrant, StartDownload, Opens, StartTokenAccess,
         StartTokenAccessFile, tables, ghosts
    <2>2. \A q \in Req \ {r} : req'[q] = req[q]
      BY <1>3 DEF TypeOK, Begin, StartUpdate, StartRemovePassword, StartDelete, StartAccess,
         StartAccessFile, StartGrant, StartDownload, StartTokenAccess,
         StartTokenAccessFile, Hold, Reply
    <2>3. req'[r].id = s /\ req'[r].stage \notin Unborn
      BY <1>3 DEF TypeOK, Begin, StartUpdate, StartRemovePassword, StartDelete, StartAccess,
         StartAccessFile, StartGrant, StartDownload, StartTokenAccess,
         StartTokenAccessFile, Hold, Reply, Unborn
    <2>4. req'[r].stage = "deleteRow" => sends[s].type = "text"
      <3>1. sends[s].type \in SendType
        BY <2>1 DEF TypeOK, Row
      <3> QED
        BY <1>3, <3>1 DEF TypeOK, Begin, StartUpdate, StartRemovePassword, StartDelete,
           StartAccess, StartAccessFile, StartGrant, StartDownload, StartTokenAccess,
           StartTokenAccessFile, Hold, Reply, SendType
    <2> QED
      BY <2>1, <2>2, <2>3, <2>4, FilesOnRow
  <1> QED
    BY <1>1, <1>2, <1>3

\* A handler whose upload is over goes on or ends, or an upload that stored
\* nothing yet ends: neither store nor sends_pending changes, and no row comes,
\* goes or changes its type.
LEMMA FilesQuiet ==
    ASSUME TypeOK, FileInv, NEW r \in Req, NEW s \in Send,
           UNCHANGED <<now, cron, pending, store, uploads, used, cut, late>>,
           req[r].id = s, req[r].stage \notin HalfDone,
           \A q \in Req \ {r} : req'[q] = req[q],
           \/ req'[r].id = None
           \/ req'[r].id = s /\ req'[r].stage \in ReplyStage /\ req[r].stage \notin Unborn,
           \A t \in Send \ {s} : sends'[t] = sends[t],
           sends'[s] = None <=> sends[s] = None,
           sends[s] # None => sends'[s].type = sends[s].type
    PROVE  FileInv'
  <1>1. FileOf(s)
    BY DEF FileInv
  <1>2. req'[r].id = s =>
           /\ req'[r].stage \notin Unborn /\ req'[r].stage \notin UploadStage
           /\ req'[r].stage # "deleteRow"
    BY NoneAssumption DEF Unborn, UploadStage, ReplyStage
  <1>3. req[r].stage \notin {"insert", "streamed", "stored", "deleteRow"}
    BY DEF HalfDone
  <1>4. FreshId(s)'
    BY <1>1 DEF FileOf, FreshId
  <1>5. FileRows(s)'
    <2>1. \A q \in Req : req[q].id = s => req[q].stage # "insert"
      BY <1>1, <1>3 DEF FileOf, FileRows
    <2> QED
      BY <1>1, <1>2, <2>1 DEF FileOf, FileRows, UploadStage, Unborn
  <1>6. ASSUME uploads'[s] # 2 PROVE OneUpload(s)'
    <2>1. OneUpload(s)
      BY <1>1, <1>6 DEF FileOf
    <2>2. Settled(s) => Settled(s)'
      BY <1>2 DEF Settled
    <2>3. \A q \in Req : Uploading(q, s)' => Uploading(q, s)
      BY <1>2 DEF Uploading
    <2>4. req'[r].id = s => Settled(s)
      BY <2>1, NoneAssumption DEF OneUpload
    <2> QED
      BY <1>2, <2>1, <2>2, <2>3, <2>4 DEF OneUpload, Purging
  <1>7. ASSUME uploads'[s] # 2, s \notin cut'
        PROVE  FileKept(s)' /\ FileThere(s)' /\ RowThere(s)'
    <2>1. FileKept(s) /\ FileThere(s) /\ RowThere(s)
      BY <1>1, <1>7 DEF FileOf
    <2>2. FileKept(s)'
      BY <1>2, <1>3, <2>1 DEF FileKept, Purging, Unborn
    <2>3. FileThere(s)'
      BY <1>3, <2>1 DEF FileThere, HasFile, BeingDeleted, At
    <2>4. RowThere(s)'
      BY <1>3, <2>1 DEF RowThere
    <2> QED
      BY <2>2, <2>3, <2>4
  <1>8. FileOf(s)'
    BY <1>4, <1>5, <1>6, <1>7 DEF FileOf
  <1> QED
    BY <1>8, FileStep

\* A handler dies half done: the send is one of cut from here on.
LEMMA FilesCut ==
    ASSUME TypeOK, FileInv, NEW r \in Req, Abort(r), req[r].stage \in HalfDone
    PROVE  FileInv'
  <1>1. PICK s \in Send : req[r].id = s
    BY HandlerFields DEF TypeOK, Abort
  <1>2. FileOf(s)
    BY DEF FileInv
  <1>3. /\ UNCHANGED <<now, cron, sends, pending, store, uploads, used, late>>
        /\ cut' = cut \cup {s}
        /\ \A q \in Req \ {r} : req'[q] = req[q]
        /\ req'[r].id = None
    BY <1>1 DEF TypeOK, Abort, Finish, Idle, tables
  <1>4. FreshId(s)'
    BY <1>2, <1>3 DEF FileOf, FreshId
  <1>5. FileRows(s)'
    BY <1>2, <1>3, NoneAssumption DEF FileOf, FileRows
  <1>6. ASSUME uploads'[s] # 2 PROVE OneUpload(s)'
    <2>1. OneUpload(s)
      BY <1>2, <1>3, <1>6 DEF FileOf
    <2>2. Settled(s) => Settled(s)'
      BY <1>3, NoneAssumption DEF Settled
    <2>3. \A q \in Req : Uploading(q, s)' => Uploading(q, s)
      BY <1>3, NoneAssumption DEF Uploading
    <2> QED
      BY <1>3, <2>1, <2>2, <2>3, NoneAssumption DEF OneUpload, Purging
  <1>7. FileOf(s)'
    BY <1>3, <1>4, <1>5, <1>6 DEF FileOf
  <1> QED
    BY <1>1, <1>3, <1>7, FileStep

\* The legacy upload inserts the row of the file it stored.
LEMMA FilesInsert ==
    ASSUME TypeOK, FileInv, NEW r \in Req, InsertLegacy(r)
    PROVE  FileInv'
  <1>1. PICK s \in Send : req[r].id = s
    BY HandlerFields DEF TypeOK, InsertLegacy, At
  <1>2. FileOf(s)
    BY DEF FileInv
  <1>3. req[r].stage = "insert" /\ req[r].row \in Row
    BY HandlerFields DEF TypeOK, InsertLegacy, At, SnapshotStage
  <1>4. /\ UNCHANGED <<now, cron, pending, store, uploads, used, cut, late>>
        /\ sends'[s] = req[r].row
        /\ \A t \in Send \ {s} : sends'[t] = sends[t]
        /\ \A q \in Req \ {r} : req'[q] = req[q]
        /\ req'[r].id = s /\ req'[r].stage = "touch"
    BY <1>1 DEF TypeOK, InsertLegacy, Reply, ghosts
  <1>5. /\ pending[s] = None /\ s \notin cron.found /\ req[r].row.type = "file"
        /\ \A q \in Req \ {r} : req[q].id # s
    BY <1>1, <1>2, <1>3 DEF FileOf, FileRows, Unborn
  <1>6. Settled(s)' /\ \A q \in Req : ~Uploading(q, s)'
    BY <1>4, <1>5 DEF Settled, Unborn, Uploading, UploadStage
  <1>7. FreshId(s)'
    BY <1>2, <1>4 DEF FileOf, FreshId
  <1>8. FileRows(s)'
    BY <1>4, <1>5 DEF FileRows, Unborn, UploadStage
  <1>9. OneUpload(s)'
    BY <1>4, <1>5, <1>6 DEF OneUpload
  <1>10. ASSUME uploads'[s] # 2, s \notin cut'
         PROVE  FileKept(s)' /\ FileThere(s)' /\ RowThere(s)'
    <2>1. FileKept(s)
      BY <1>2, <1>4, <1>10 DEF FileOf
    <2>2. s \in store
      BY <1>1, <1>3, <2>1 DEF FileKept
    <2>3. FileKept(s)'
      BY <1>4, <1>5 DEF FileKept, Purging
    <2>4. FileThere(s)'
      BY <1>4, <2>2 DEF FileThere, HasFile
    <2>5. RowThere(s)'
      BY <1>3, <1>4, NullAssumption DEF RowThere
    <2> QED
      BY <2>3, <2>4, <2>5
  <1>11. FileOf(s)'
    BY <1>7, <1>8, <1>9, <1>10 DEF FileOf
  <1> QED
    BY <1>1, <1>4, <1>11, FileStep

\* While an upload of s is in flight nothing else than uploads works on s.
LEMMA UploadAlone ==
    ASSUME TypeOK, FileInv, NEW r \in Req, NEW s \in Send, Uploading(r, s), uploads[s] # 2
    PROVE  /\ sends[s] = None /\ ~Purging(s)
           /\ \A q \in Req \ {r} : req[q].id # s
  <1>1. FileRows(s) /\ OneUpload(s)
    BY DEF FileInv, FileOf
  <1>2. req[r].id = s /\ req[r].stage \in Unborn
    BY DEF Uploading, UploadStage, Unborn
  <1>3. ~Settled(s)
    BY <1>2 DEF Settled
  <1>4. ASSUME NEW q \in Req \ {r}, req[q].id = s PROVE FALSE
    <2>1. req[q].stage \in Unborn
      BY <1>1, <1>3, <1>4 DEF OneUpload
    <2>2. req[q].stage \notin UploadStage
      BY <1>1, <1>4 DEF OneUpload, Uploading
    <2>3. req[q].stage = "insert"
      BY <2>1, <2>2 DEF Unborn, UploadStage
    <2> QED
      BY <1>1, <1>2, <1>4, <2>3 DEF FileRows
  <1> QED
    BY <1>1, <1>3, <1>4 DEF OneUpload

\* An upload stores the file.
LEMMA FilesPut ==
    ASSUME TypeOK, CapInv, FileInv, NEW r \in Req, PutObject(r)
    PROVE  FileInv'
  <1>0. req[r].stage \in {"putStream", "putBytes"}
    BY DEF PutObject
  <1>1. PICK s \in Send : req[r].id = s
    BY <1>0, HandlerFields DEF TypeOK, At
  <1>2. FileOf(s)
    BY DEF FileInv
  <1>3. /\ UNCHANGED <<now, cron, sends, pending, uploads, used, cut, late>>
        /\ s \in store' /\ \A t \in Send \ {s} : t \in store' <=> t \in store
        /\ \A q \in Req \ {r} : req'[q] = req[q]
        /\ req'[r].id = s /\ req'[r].stage \in {"streamed", "stored"}
        /\ req'[r].row = req[r].row
    BY <1>1 DEF TypeOK, PutObject, Hold, ghosts, tables
  <1>4. s \in used
    BY <1>0, <1>1, DrawnIds DEF At
  <1>5. FreshId(s)'
    BY <1>3, <1>4 DEF FreshId
  <1>6. FileRows(s)'
    <2>1. \A q \in Req : req[q].id = s => req[q].stage # "insert"
      BY <1>0, <1>1, <1>2 DEF FileOf, FileRows
    <2> QED
      BY <1>0, <1>1, <1>2, <1>3, <2>1 DEF FileOf, FileRows, UploadStage, Unborn
  <1>7. ASSUME uploads[s] # 2
        PROVE  /\ sends[s] = None /\ ~Purging(s) /\ OneUpload(s)
               /\ \A q \in Req \ {r} : req[q].id # s
    <2>1. Uploading(r, s)
      BY <1>0, <1>1 DEF Uploading, UploadStage
    <2> QED
      BY <1>2, <1>7, <2>1, UploadAlone DEF FileOf
  <1>8. ASSUME uploads'[s] # 2 PROVE OneUpload(s)'
    <2>1. \A q \in Req : Uploading(q, s)' <=> Uploading(q, s)
      BY <1>0, <1>1, <1>3 DEF Uploading, UploadStage
    <2> QED
      BY <1>3, <1>7, <1>8, <2>1 DEF OneUpload, Purging, Unborn
  <1>9. ASSUME uploads'[s] # 2, s \notin cut'
        PROVE  FileKept(s)' /\ FileThere(s)' /\ RowThere(s)'
    <2>1. FileKept(s)
      BY <1>2, <1>3, <1>9 DEF FileOf
    <2>2. FileKept(s)'
      BY <1>3, <1>7, <1>9, <2>1 DEF FileKept, Purging
    <2>3. FileThere(s)'
      BY <1>3 DEF FileThere, HasFile
    <2>4. RowThere(s)'
      BY <1>3 DEF RowThere
    <2> QED
      BY <2>2, <2>3, <2>4
  <1>10. FileOf(s)'
    BY <1>5, <1>6, <1>8, <1>9 DEF FileOf
  <1> QED
    BY <1>1, <1>3, <1>10, FileStep

\* An upload of the wrong size takes its file back and ends.
LEMMA FilesDiscard ==
    ASSUME TypeOK, FileInv, NEW r \in Req, DiscardMismatch(r)
    PROVE  FileInv'
  <1>0. req[r].stage = "streamed"
    BY DEF DiscardMismatch, At
  <1>1. PICK s \in Send : req[r].id = s
    BY <1>0, HandlerFields DEF TypeOK, At
  <1>2. FileOf(s)
    BY DEF FileInv
  <1>3. /\ UNCHANGED <<now, cron, sends, pending, uploads, used, cut, late>>
        /\ s \notin store' /\ \A t \in Send \ {s} : t \in store' <=> t \in store
        /\ \A q \in Req \ {r} : req'[q] = req[q]
        /\ req'[r].id = None
    BY <1>1 DEF TypeOK, DiscardMismatch, Finish, Idle, ghosts, tables
  <1>4. FreshId(s)'
    BY <1>2, <1>3 DEF FileOf, FreshId
  <1>5. FileRows(s)'
    BY <1>2, <1>3, NoneAssumption DEF FileOf, FileRows
  <1>6. ASSUME uploads[s] # 2
        PROVE  /\ sends[s] = None /\ ~Purging(s) /\ OneUpload(s)
               /\ \A q \in Req \ {r} : req[q].id # s
    <2>1. Uploading(r, s)
      BY <1>0, <1>1 DEF Uploading, UploadStage
    <2> QED
      BY <1>2, <1>6, <2>1, UploadAlone DEF FileOf
  <1>7. \A q \in Req : uploads[s] # 2 => req'[q].id # s
    BY <1>3, <1>6, NoneAssumption
  <1>8. ASSUME uploads'[s] # 2 PROVE OneUpload(s)'
    BY <1>3, <1>6, <1>7, <1>8 DEF OneUpload, Uploading, Purging
  <1>9. ASSUME uploads'[s] # 2, s \notin cut'
        PROVE  FileKept(s)' /\ FileThere(s)' /\ RowThere(s)'
    <2>1. FileKept(s)
      BY <1>2, <1>3, <1>9 DEF FileOf
    <2>2. FileKept(s)'
      BY <1>3, <1>7, <1>9, <2>1 DEF FileKept, Purging
    <2>3. FileThere(s)'
      BY <1>3, <1>6, <1>9 DEF FileThere, HasFile
    <2>4. RowThere(s)'
      BY <1>3 DEF RowThere
    <2> QED
      BY <2>2, <2>3, <2>4
  <1>10. FileOf(s)'
    BY <1>4, <1>5, <1>8, <1>9 DEF FileOf
  <1> QED
    BY <1>1, <1>3, <1>10, FileStep

\* An upload promotes its row, or finds the id taken and ends.
LEMMA FilesFinalize ==
    ASSUME TypeOK, FileInv, NEW r \in Req, Finalize(r)
    PROVE  FileInv'
  <1>0. req[r].stage \in {"streamed", "stored"}
    BY DEF Finalize
  <1>1. PICK s \in Send : req[r].id = s
    BY <1>0, HandlerFields DEF TypeOK, At
  <1>2. FileOf(s) /\ Uploading(r, s)
    BY <1>0, <1>1 DEF FileInv, Uploading, UploadStage
  <1>3. req[r].row \in Row
    BY <1>0, HandlerFields DEF TypeOK, SnapshotStage
  <1>4. /\ UNCHANGED <<now, cron, store, uploads, used, cut>>
        /\ \A t \in Send \ {s} : sends'[t] = sends[t] /\ pending'[t] = pending[t]
        /\ late \subseteq late'
    BY <1>1 DEF TypeOK, Finalize, tables
  <1>5. \A q \in Req \ {r} : req'[q] = req[q]
    BY DEF TypeOK, Finalize, Finish, Reply
  <1>6. CASE sends[s] # None
    <2>1. req'[r].id = None /\ UNCHANGED <<sends, pending, late>>
      BY <1>1, <1>6 DEF TypeOK, Finalize, Finish, Idle, tables
    <2>2. uploads'[s] = 2
      BY <1>2, <1>4, <1>6, UploadAlone
    <2>3. FreshId(s)'
      BY <1>2, <1>4 DEF FileOf, FreshId
    <2>4. FileRows(s)'
      BY <1>2, <1>4, <1>5, <2>1, NoneAssumption DEF FileOf, FileRows
    <2>5. FileOf(s)'
      BY <2>2, <2>3, <2>4 DEF FileOf
    <2> QED
      BY <1>1, <1>4, <1>5, <2>1, <2>5, FileStep
  <1>7. CASE sends[s] = None
    <2>1. /\ req'[r].id = s /\ req'[r].stage = "touch"
          /\ pending'[s] = None /\ sends'[s] # None
          /\ sends'[s].type = req[r].row.type
          /\ now > req[r].row.created + StaleAfter => s \in late'
      <3>1. [req[r].row EXCEPT !.updated = now] \in Row
        BY <1>3 DEF TypeOK, Row
      <3> QED
        BY <1>1, <1>3, <1>7, <3>1, NullAssumption DEF TypeOK, Finalize, Reply, Row
    <2>2. req[r].row.type = "file"
      BY <1>0, <1>1, <1>2 DEF FileOf, FileRows, Unborn
    <2>3. \A q \in Req : req[q].id = s => req[q].stage # "insert"
      BY <1>0, <1>1, <1>2 DEF FileOf, FileRows
    <2>4. FreshId(s)'
      BY <1>2, <1>4 DEF FileOf, FreshId
    <2>5. FileRows(s)'
      BY <1>2, <1>5, <2>1, <2>3 DEF FileOf, FileRows, Unborn, UploadStage
    <2>6. ASSUME uploads[s] # 2
          PROVE  ~Purging(s) /\ \A q \in Req \ {r} : req[q].id # s
      BY <1>2, <2>6, UploadAlone
    <2>7. ASSUME uploads'[s] # 2 PROVE OneUpload(s)'
      <3>1. Settled(s)' /\ \A q \in Req : ~Uploading(q, s)'
        BY <1>4, <1>5, <2>1, <2>6, <2>7 DEF Settled, Uploading, Unborn, UploadStage
      <3> QED
        BY <2>1, <2>2, <3>1 DEF OneUpload
    <2>8. ASSUME uploads'[s] # 2, s \notin cut'
          PROVE  FileKept(s)' /\ FileThere(s)' /\ RowThere(s)'
      <3>1. FileKept(s)
        BY <1>2, <1>4, <2>8 DEF FileOf
      <3>2. s \in store' \cup late'
        BY <1>0, <1>1, <1>3, <1>4, <2>1, <3>1 DEF FileKept, TypeOK, Row
      <3>3. /\ now > req[r].row.created + StaleAfter <=> req[r].row.created + StaleAfter < now
            /\ req[r].row.created \in Nat /\ now \in Nat /\ StaleAfter \in Nat
        BY <1>3, BoundsAssumption DEF TypeOK, Row
      <3>4. cron.stage = "staleObjects" /\ s \in cron.found => s \in late'
        <4>1. ASSUME cron.stage = "staleObjects", s \in cron.found, s \notin late
              PROVE  now > req[r].row.created + StaleAfter
          <5>1. pending[s] # None /\ pending[s].created + StaleAfter < cron.at
            BY <3>1, <4>1 DEF FileKept
          <5>2. req[r].row.created = pending[s].created
            BY <1>0, <1>1, <1>2, <5>1 DEF FileOf, FileRows, UploadStage
          <5>3. cron.at \in Nat /\ cron.at <= now
            BY <4>1 DEF FileInv, PurgeSound, TypeOK
          <5> QED
            BY <3>3, <5>1, <5>2, <5>3
        <4> QED
          BY <1>4, <2>1, <4>1
      <3>5. FileKept(s)'
        <4>1. \A q \in Req : req'[q].id = s => req'[q].stage = "touch"
          BY <1>4, <1>5, <2>1, <2>6, <2>8
        <4>2. ~Purging(s)'
          BY <1>4, <2>6, <2>8 DEF Purging
        <4> QED
          BY <1>4, <2>1, <3>4, <4>1, <4>2 DEF FileKept
      <3>6. FileThere(s)'
        BY <3>2 DEF FileThere, HasFile
      <3>7. RowThere(s)'
        BY <2>1 DEF RowThere
      <3> QED
        BY <3>5, <3>6, <3>7
    <2>9. FileOf(s)'
      BY <2>4, <2>5, <2>7, <2>8 DEF FileOf
    <2> QED
      BY <1>1, <1>4, <1>5, <2>1, <2>9, FileStep
  <1> QED
    BY <1>6, <1>7

\* A deletion takes the file out of the store, then the row out of the table.
LEMMA FilesDelete ==
    ASSUME TypeOK, FileInv, NEW r \in Req, DeleteObject(r) \/ DeleteRow(r)
    PROVE  FileInv'
  <1>0. req[r].stage \in {"deleteObject", "deleteRow"}
    BY DEF DeleteObject, DeleteRow, At
  <1>1. PICK s \in Send : req[r].id = s
    BY <1>0, HandlerFields DEF TypeOK, At
  <1>2. FileOf(s)
    BY DEF FileInv
  <1>3. /\ UNCHANGED <<now, cron, pending, uploads, used, cut, late>>
        /\ \A t \in Send \ {s} : sends'[t] = sends[t] /\ (t \in store' <=> t \in store)
        /\ \A q \in Req \ {r} : req'[q] = req[q]
        /\ req'[r].id = s /\ req'[r].stage \in {"deleteRow", "touch"}
    BY <1>1 DEF TypeOK, DeleteObject, DeleteRow, Hold, Reply, ghosts, tables
  <1>4. \/ sends' = sends /\ s \notin store' /\ req'[r].stage = "deleteRow"
        \/ /\ sends'[s] = None /\ store' = store
           /\ req[r].stage = "deleteRow" /\ req'[r].stage = "touch"
    BY <1>1 DEF TypeOK, DeleteObject, DeleteRow, Hold, Reply, At, tables
  <1>5. FreshId(s)'
    BY <1>2, <1>3, <1>4 DEF FileOf, FreshId
  <1>6. FileRows(s)'
    <2>1. \A q \in Req : req[q].id = s => req[q].stage # "insert"
      BY <1>0, <1>1, <1>2 DEF FileOf, FileRows
    <2> QED
      BY <1>2, <1>3, <2>1 DEF FileOf, FileRows, UploadStage, Unborn
  <1>7. ASSUME uploads[s] # 2
        PROVE  Settled(s) /\ Settled(s)' /\ \A q \in Req : ~Uploading(q, s)'
    <2>1. req[r].stage \notin Unborn
      BY <1>0 DEF Unborn
    <2>2. Settled(s)
      BY <1>1, <1>2, <1>7, <2>1 DEF FileOf, OneUpload
    <2>3. Settled(s)'
      BY <1>3, <2>2 DEF Settled, Unborn
    <2> QED
      BY <2>2, <2>3 DEF Settled, Unborn, Uploading, UploadStage
  <1>8. ASSUME uploads'[s] # 2 PROVE OneUpload(s)'
    <2>1. OneUpload(s)
      BY <1>2, <1>3, <1>8 DEF FileOf
    <2> QED
      BY <1>3, <1>4, <1>7, <1>8, <2>1 DEF OneUpload
  <1>9. ASSUME uploads'[s] # 2, s \notin cut'
        PROVE  FileKept(s)' /\ FileThere(s)' /\ RowThere(s)'
    <2>1. FileKept(s) /\ FileThere(s) /\ RowThere(s)
      BY <1>2, <1>3, <1>9 DEF FileOf
    <2>2. s \notin store'
      BY <1>1, <1>4, <2>1 DEF FileKept
    <2>3. \A q \in Req : req'[q].id = s => req'[q].stage \notin {"insert", "streamed", "stored"}
      BY <1>3, <1>7, <1>9 DEF Settled, Unborn
    <2>4. cron.stage = "staleObjects" /\ s \in cron.found => s \in late
      BY <1>3, <1>7, <1>9, <2>1 DEF FileKept, Settled
    <2>5. FileKept(s)'
      BY <1>3, <2>2, <2>3, <2>4 DEF FileKept
    <2>6. FileThere(s)'
      BY <1>3, <1>4 DEF FileThere, HasFile, BeingDeleted, At
    <2> QED
      BY <2>2, <2>5, <2>6 DEF RowThere
  <1>10. FileOf(s)'
    BY <1>5, <1>6, <1>8, <1>9 DEF FileOf
  <1> QED
    BY <1>1, <1>3, <1>10, FileStep

LEMMA ContinueFiles ==
    ASSUME TypeOK, CapInv, FileInv, NEW r \in Req, Continue(r)
    PROVE  FileInv'
  <1>1. CASE \/ WriteRow(r) \/ BumpRow(r) \/ Charge(r) \/ Answer(r) \/ IssueLink(r)
             \/ ServeContent(r) \/ (Abort(r) /\ req[r].stage \notin HalfDone)
    <2>0. ~At(r, "idle")
      BY <1>1 DEF WriteRow, BumpRow, Charge, Answer, IssueLink, ServeContent, Abort, At
    <2>1. PICK s \in Send : req[r].id = s
      BY <2>0, HandlerFields DEF TypeOK
    <2>2. UNCHANGED <<now, cron, pending, store, uploads, used, cut, late>>
      BY <1>1 DEF WriteRow, BumpRow, Charge, Answer, IssueLink, ServeContent, Abort,
         tables, ghosts
    <2>3. req[r].stage \notin HalfDone
      BY <1>1 DEF WriteRow, BumpRow, Charge, Answer, IssueLink, ServeContent, At, HalfDone
    <2>4. \A q \in Req \ {r} : req'[q] = req[q]
      BY <1>1 DEF TypeOK, WriteRow, BumpRow, Charge, Answer, IssueLink, ServeContent, Abort,
         Touch, Finish, Reply
    <2>5. \/ req'[r].id = None
          \/ req'[r].id = s /\ req'[r].stage \in ReplyStage /\ req[r].stage \notin Unborn
      BY <1>1, <2>1 DEF TypeOK, WriteRow, BumpRow, Charge, Answer, IssueLink, ServeContent, Abort,
         Touch, Finish, Reply, Idle, At, AfterCharge, ReplyStage, Unborn
    <2>6. /\ \A t \in Send \ {s} : sends'[t] = sends[t]
          /\ sends'[s] = None <=> sends[s] = None
          /\ sends[s] # None => sends'[s].type = sends[s].type
      <3>1. CASE WriteRow(r) \/ BumpRow(r)
        <4>1. req[r].row \in Row /\ WriteSnapshot(s, req[r].row)
          BY <2>1, <3>1, HandlerFields DEF TypeOK, WriteRow, BumpRow, At, SnapshotStage
        <4>2. ASSUME sends[s] # None
              PROVE  /\ Written(sends[s], req[r].row) \in Row
                     /\ Written(sends[s], req[r].row).type = sends[s].type
          <5>1. sends[s] \in Row
            BY <4>2 DEF TypeOK
          <5> QED
            BY <4>1, <5>1, WrittenRow DEF TypeOK, Written, Row
        <4> QED
          BY <4>1, <4>2, NullAssumption DEF TypeOK, WriteSnapshot
      <3>2. CASE Charge(r)
        <4>1. CASE ~Chargeable(s)
          BY <2>1, <3>2, <4>1 DEF Charge
        <4>2. CASE Chargeable(s)
          <5>1. sends[s] \in Row
            BY <4>2 DEF TypeOK, Chargeable
          <5>2. sends' = [sends EXCEPT ![s] = [sends[s] EXCEPT !.count = sends[s].count + 1,
                                                               !.updated = now]]
            BY <2>1, <3>2, <4>2 DEF Charge
          <5>3. [sends[s] EXCEPT !.count = sends[s].count + 1, !.updated = now] \in Row
            BY <5>1, ChargedRow DEF TypeOK
          <5> QED
            BY <4>2, <5>1, <5>2, <5>3, NullAssumption DEF TypeOK, Row, Chargeable
        <4> QED
          BY <4>1, <4>2
      <3>3. CASE Answer(r) \/ IssueLink(r) \/ ServeContent(r) \/ Abort(r)
        BY <3>3 DEF Answer, IssueLink, ServeContent, Abort, tables
      <3> QED
        BY <1>1, <3>1, <3>2, <3>3
    <2> QED
      BY <2>1, <2>2, <2>3, <2>4, <2>5, <2>6, FilesQuiet
  <1>2. CASE Abort(r) /\ req[r].stage \in HalfDone
    BY <1>2, FilesCut
  <1>3. CASE InsertLegacy(r)
    BY <1>3, FilesInsert
  <1>4. CASE PutObject(r)
    BY <1>4, FilesPut
  <1>5. CASE DiscardMismatch(r)
    BY <1>5, FilesDiscard
  <1>6. CASE Finalize(r)
    BY <1>6, FilesFinalize
  <1>7. CASE DeleteObject(r) \/ DeleteRow(r)
    BY <1>7, FilesDelete
  <1> QED
    BY <1>1, <1>2, <1>3, <1>4, <1>5, <1>6, <1>7 DEF Continue

\* The purge forgets what it found, and counts what it had not finished as cut.
LEMMA FilesForgotten ==
    ASSUME TypeOK, FileInv,
           UNCHANGED <<sends, pending, store, req, uploads, used, late>>, cut \subseteq cut',
           now' >= now, now' \in Nat,
           cron' = cron \/ (cron'.found = {} /\ cron'.keys = {} /\ cron'.stage # "staleObjects"
                            /\ \A s \in Send : Purging(s) => s \in cut')
    PROVE  FileInv'
  <1>1. PurgeSound'
    <2>1. cron.at \in Nat /\ now \in Nat
      BY DEF TypeOK
    <2> QED
      BY <2>1 DEF FileInv, PurgeSound
  <1>2. ASSUME NEW s \in Send PROVE FileOf(s)'
    <2>1. FileOf(s)
      BY DEF FileInv
    <2>2. FreshId(s)'
      BY <2>1 DEF FileOf, FreshId
    <2>3. FileRows(s)'
      BY <2>1 DEF FileOf, FileRows
    <2>4. /\ s \in cron'.found => cron' = cron
          /\ Purging(s)' => Purging(s)
      BY DEF Purging
    <2>5. ASSUME uploads'[s] # 2 PROVE OneUpload(s)'
      BY <2>1, <2>4, <2>5 DEF FileOf, OneUpload, Settled, Uploading
    <2>6. ASSUME uploads'[s] # 2, s \notin cut'
          PROVE  FileKept(s)' /\ FileThere(s)' /\ RowThere(s)'
      <3>1. FileKept(s) /\ FileThere(s) /\ RowThere(s) /\ OneUpload(s)
        BY <2>1, <2>6 DEF FileOf
      <3>2. ASSUME NEW r \in Req, req[r].id = s, req[r].stage \in {"streamed", "stored"}
            PROVE  s \in store \cup late \/ req[r].row.created + StaleAfter < now'
        <4>1. req[r].row.created \in Nat
          BY <3>2, HandlerFields DEF TypeOK, SnapshotStage, Row
        <4> QED
          BY <3>1, <3>2, <4>1, BoundsAssumption DEF FileKept, TypeOK
      <3>3. ASSUME NEW r \in Req, req[r].id = s
            PROVE  /\ req[r].stage = "deleteRow" => s \notin store
                   /\ req[r].stage = "insert" => s \in store
        BY <3>1, <3>3 DEF FileKept
      <3>4. Purging(s)' /\ s \notin cron'.keys => s \notin store
        BY <2>4, <3>1 DEF FileKept, Purging
      <3>5. cron'.stage = "staleObjects" /\ s \in cron'.found =>
               s \in late \/ (pending[s] # None /\ pending[s].created + StaleAfter < cron'.at)
        BY <2>4, <3>1 DEF FileKept
      <3>6. FileKept(s)'
        BY <3>1, <3>2, <3>3, <3>4, <3>5 DEF FileKept
      <3>7. FileThere(s)'
        <4>1. CASE cron' = cron
          BY <3>1, <4>1 DEF FileThere, HasFile, BeingDeleted, At
        <4>2. CASE cron' # cron
          <5>1. ~Purging(s)
            BY <2>6, <4>2
          <5> QED
            BY <3>1, <5>1 DEF FileThere, HasFile, BeingDeleted, At, Purging
        <4> QED
          BY <4>1, <4>2
      <3>8. RowThere(s)'
        BY <3>1 DEF RowThere
      <3> QED
        BY <3>6, <3>7, <3>8
    <2> QED
      BY <2>2, <2>3, <2>5, <2>6 DEF FileOf
  <1> QED
    BY <1>1, <1>2 DEF FileInv

\* The purge looks for stale rows that wait, or for expired sends.
LEMMA FilesFound ==
    ASSUME TypeOK, CapInv, FileInv,
           CronFindStale \/ (CronFindExpired /\ cron'.stage = "expiredObjects")
    PROVE  FileInv'
  <1>1. /\ UNCHANGED <<now, sends, pending, store, req, uploads, used, cut, late>>
        /\ cron.stage \in {"idle", "expired"}
    BY DEF CronFindStale, CronFindExpired, tables, ghosts
  <1>2. \/ /\ cron'.stage = "staleObjects" /\ cron'.at = now
           /\ cron'.found = {s \in Send : Stale(s, now)} /\ cron'.keys = cron'.found
        \/ /\ cron'.stage = "expiredObjects"
           /\ cron'.found = {s \in Send : Expired(s, now)}
           /\ cron'.keys = {s \in cron'.found : sends[s].type = "file"}
    <2>1. CASE CronFindStale
      BY <2>1 DEF CronFindStale, CronAt
    <2>2. CASE CronFindExpired /\ cron'.stage = "expiredObjects"
      BY <2>2 DEF CronFindExpired, CronIdle, CronAt
    <2> QED
      BY <2>1, <2>2
  <1>3. PurgeSound'
    BY <1>1, <1>2 DEF PurgeSound, TypeOK
  <1>4. ASSUME NEW s \in Send PROVE FileOf(s)'
    <2>1. FileOf(s)
      BY DEF FileInv
    <2>2. /\ s \in cron'.found => sends[s] # None \/ pending[s] # None
          /\ Purging(s)' => sends[s] # None
          /\ ~Purging(s)
          /\ Purging(s)' /\ s \notin cron'.keys => sends[s].type # "file"
      BY <1>1, <1>2 DEF Stale, Expired, Purging
    <2>3. FreshId(s)'
      BY <1>1, <2>1, <2>2, DrawnIds DEF FileOf, FreshId
    <2>4. FileRows(s)'
      BY <1>1, <2>1, <2>2 DEF FileOf, FileRows
    <2>5. ASSUME uploads'[s] # 2 PROVE OneUpload(s)'
      BY <1>1, <2>1, <2>2, <2>5 DEF FileOf, OneUpload, Settled, Uploading
    <2>6. ASSUME uploads'[s] # 2, s \notin cut'
          PROVE  FileKept(s)' /\ FileThere(s)' /\ RowThere(s)'
      <3>1. FileKept(s) /\ FileThere(s) /\ RowThere(s) /\ OneUpload(s)
        BY <1>1, <2>1, <2>6 DEF FileOf
      <3>2. Purging(s)' /\ s \notin cron'.keys => s \notin store
        <4>1. sends[s] # None => sends[s].type \in {"text", "file"}
          BY DEF TypeOK, Row, SendType
        <4> QED
          BY <2>2, <3>1, <4>1 DEF OneUpload
      <3>3. cron'.stage = "staleObjects" /\ s \in cron'.found =>
               pending[s] # None /\ pending[s].created + StaleAfter < cron'.at
        BY <1>2 DEF Stale
      <3>4. FileKept(s)'
        BY <1>1, <3>1, <3>2, <3>3 DEF FileKept
      <3>5. FileThere(s)'
        BY <1>1, <2>2, <3>1 DEF FileThere, HasFile, BeingDeleted, At, Purging
      <3>6. RowThere(s)'
        BY <1>1, <3>1 DEF RowThere
      <3> QED
        BY <3>4, <3>5, <3>6
    <2> QED
      BY <2>3, <2>4, <2>5, <2>6 DEF FileOf
  <1> QED
    BY <1>3, <1>4 DEF FileInv

\* The purge deletes the file of one send it found.
LEMMA FilesPurged ==
    ASSUME TypeOK, FileInv, NEW c \in Send, CronDeleteObject(c)
    PROVE  FileInv'
  <1>1. /\ UNCHANGED <<now, sends, pending, req, uploads, used, cut, late>>
        /\ store' = store \ {c}
        /\ cron'.stage = cron.stage /\ cron'.found = cron.found /\ cron'.at = cron.at
        /\ cron'.keys = cron.keys \ {c}
    BY DEF TypeOK, CronDeleteObject, tables, ghosts
  <1>2. cron.stage \in {"staleObjects", "expiredObjects"} /\ c \in cron.keys /\ c \in cron.found
    BY DEF CronDeleteObject, FileInv, PurgeSound
  <1>3. PurgeSound'
    BY <1>1, <1>2 DEF FileInv, PurgeSound
  <1>4. ASSUME NEW s \in Send PROVE FileOf(s)'
    <2>1. FileOf(s)
      BY DEF FileInv
    <2>2. FreshId(s)'
      BY <1>1, <2>1 DEF FileOf, FreshId
    <2>3. FileRows(s)'
      BY <1>1, <2>1 DEF FileOf, FileRows
    <2>4. Purging(s)' <=> Purging(s)
      BY <1>1 DEF Purging
    <2>5. ASSUME uploads'[s] # 2 PROVE OneUpload(s)'
      BY <1>1, <2>1, <2>4, <2>5 DEF FileOf, OneUpload, Settled, Uploading
    <2>6. ASSUME uploads'[s] # 2, s \notin cut'
          PROVE  FileKept(s)' /\ FileThere(s)' /\ RowThere(s)'
      <3>1. FileKept(s) /\ FileThere(s) /\ RowThere(s) /\ OneUpload(s)
        BY <1>1, <2>1, <2>6 DEF FileOf
      <3>2. s # c => (s \in store' <=> s \in store) /\ (s \in cron'.keys <=> s \in cron.keys)
        BY <1>1
      <3>3. s = c => s \notin store' /\ s \notin cron'.keys
        BY <1>1
      <3>4. s = c => \A r \in Req : req[r].id = s => req[r].stage # "insert"
        BY <1>2, <2>1 DEF FileOf, FileRows
      <3>5. ASSUME s = c, NEW r \in Req, req[r].id = s, req[r].stage \in {"streamed", "stored"}
            PROVE  s \in late \/ req[r].row.created + StaleAfter < now
        <4>1. req[r].stage \in Unborn /\ req[r].stage \in UploadStage
          BY <3>5 DEF Unborn, UploadStage
        <4>2. ~Purging(s)
          BY <3>1, <3>5, <4>1 DEF OneUpload, Settled
        <4>3. cron.stage = "staleObjects" /\ s \in cron.found
          BY <1>2, <3>5, <4>2 DEF Purging
        <4>4. ASSUME s \notin late PROVE req[r].row.created + StaleAfter < now
          <5>1. pending[s] # None /\ pending[s].created + StaleAfter < cron.at
            BY <3>1, <4>3, <4>4 DEF FileKept
          <5>2. req[r].row.created = pending[s].created
            BY <2>1, <3>5, <4>1, <5>1 DEF FileOf, FileRows
          <5>3. cron.at \in Nat /\ now \in Nat /\ cron.at <= now
            BY <4>3 DEF FileInv, PurgeSound, TypeOK
          <5>4. req[r].row.created + StaleAfter \in Nat
            BY <3>5, HandlerFields, BoundsAssumption DEF TypeOK, SnapshotStage, Row
          <5> QED
            BY <5>1, <5>2, <5>3, <5>4
        <4> QED
          BY <4>4
      <3>6. FileKept(s)'
        <4>1. CASE s = c
          BY <1>1, <3>1, <3>3, <3>4, <3>5, <4>1 DEF FileKept
        <4>2. CASE s # c
          BY <1>1, <2>4, <3>1, <3>2, <4>2 DEF FileKept
        <4> QED
          BY <4>1, <4>2
      <3>7. FileThere(s)'
        <4>1. CASE s # c
          BY <1>1, <3>1, <3>2, <4>1 DEF FileThere, HasFile, BeingDeleted, At
        <4>2. CASE s = c /\ cron.stage = "expiredObjects"
          BY <1>1, <1>2, <3>3, <4>2 DEF FileThere, BeingDeleted
        <4>3. CASE s = c /\ cron.stage = "staleObjects"
          <5>1. s \in late \/ pending[s] # None
            BY <1>2, <3>1, <4>3 DEF FileKept
          <5>2. s \in late \/ sends[s] = None
            BY <3>1, <5>1 DEF OneUpload, Settled
          <5> QED
            BY <1>1, <5>2 DEF FileThere, HasFile
        <4> QED
          BY <1>2, <4>1, <4>2, <4>3
      <3>8. RowThere(s)'
        BY <1>1, <3>1 DEF RowThere
      <3> QED
        BY <3>6, <3>7, <3>8
    <2> QED
      BY <2>2, <2>3, <2>5, <2>6 DEF FileOf
  <1> QED
    BY <1>3, <1>4 DEF FileInv

\* The purge deletes the rows that wait and are stale, or one expired row.
LEMMA FilesRowsPurged ==
    ASSUME TypeOK, FileInv, CronDeleteStale \/ \E c \in Send : CronDeleteExpired(c)
    PROVE  FileInv'
  <1>1. /\ UNCHANGED <<now, store, req, uploads, used, cut, late>>
        /\ \A s \in Send : pending'[s] \in {pending[s], None}
        /\ \A s \in Send : sends'[s] \in {sends[s], None}
        /\ cron.keys = {} /\ cron'.keys = {}
        /\ cron'.found \subseteq cron.found
        /\ cron'.stage \in {"expired", "expiredRows"}
    <2>1. CASE CronDeleteStale
      BY <2>1 DEF TypeOK, CronDeleteStale, CronAt, ghosts
    <2>2. ASSUME NEW c \in Send, CronDeleteExpired(c)
          PROVE  /\ cron.keys = {} /\ cron'.keys = {} /\ cron'.stage = "expiredRows"
                 /\ cron'.found = cron.found \ {c}
                 /\ \A s \in Send : sends'[s] \in {sends[s], None}
                 /\ UNCHANGED <<now, pending, store, req, uploads, used, cut, late>>
      BY <2>2 DEF TypeOK, CronDeleteExpired, ghosts
    <2> QED
      BY <2>1, <2>2
  <1>2. PurgeSound'
    <2>1. CASE CronDeleteStale
      BY <2>1 DEF PurgeSound, CronDeleteStale, CronAt
    <2>2. CASE \E c \in Send : CronDeleteExpired(c)
      <3>1. cron'.stage = "expiredRows" /\ cron'.keys = {}
        BY <2>2 DEF TypeOK, CronDeleteExpired
      <3> QED
        BY <3>1 DEF PurgeSound
    <2> QED
      BY <2>1, <2>2
  <1>3. ASSUME NEW s \in Send PROVE FileOf(s)'
    <2>1. FileOf(s)
      BY DEF FileInv
    <2>2. /\ Purging(s)' => Purging(s) /\ sends'[s] = sends[s]
          /\ Purging(s) /\ ~Purging(s)' => sends'[s] = None
      <3>1. CASE CronDeleteStale
        BY <3>1 DEF Purging, CronDeleteStale, CronAt
      <3>2. ASSUME NEW c \in Send, CronDeleteExpired(c)
            PROVE  /\ Purging(s)' => Purging(s) /\ sends'[s] = sends[s]
                   /\ Purging(s) /\ ~Purging(s)' => sends'[s] = None
        <4>1. /\ cron.stage \in {"expiredObjects", "expiredRows"} /\ cron'.stage = "expiredRows"
              /\ cron'.found = cron.found \ {c}
              /\ sends' = [sends EXCEPT ![c] = None]
          BY <3>2 DEF TypeOK, CronDeleteExpired
        <4> QED
          BY <4>1 DEF TypeOK, Purging
      <3> QED
        BY <3>1, <3>2
    <2>3. sends'[s] # sends[s] => Purging(s)
      <3>1. CASE CronDeleteStale
        BY <3>1 DEF CronDeleteStale
      <3>2. ASSUME NEW c \in Send, CronDeleteExpired(c)
            PROVE  sends'[s] # sends[s] => Purging(s)
        BY <3>2 DEF TypeOK, CronDeleteExpired, Purging
      <3> QED
        BY <3>1, <3>2
    <2>4. FreshId(s)'
      BY <1>1, <2>1 DEF FileOf, FreshId
    <2>5. FileRows(s)'
      BY <1>1, <2>1 DEF FileOf, FileRows
    <2>6. Settled(s) => Settled(s)'
      BY <1>1 DEF Settled
    <2>7. ASSUME uploads'[s] # 2 PROVE OneUpload(s)'
      <3>1. OneUpload(s)
        BY <1>1, <2>1, <2>7 DEF FileOf
      <3> QED
        BY <1>1, <2>2, <2>6, <3>1 DEF OneUpload, Uploading
    <2>8. ASSUME uploads'[s] # 2, s \notin cut'
          PROVE  FileKept(s)' /\ FileThere(s)' /\ RowThere(s)'
      <3>1. FileKept(s) /\ FileThere(s) /\ RowThere(s) /\ OneUpload(s)
        BY <1>1, <2>1, <2>8 DEF FileOf
      <3>2. FileKept(s)'
        BY <1>1, <2>2, <3>1 DEF FileKept
      <3>3. FileThere(s)'
        <4>1. CASE sends'[s] = None
          BY <4>1 DEF FileThere, HasFile
        <4>2. CASE sends'[s] # None
          <5>1. sends'[s] = sends[s] /\ (Purging(s)' <=> Purging(s))
            BY <1>1, <2>2, <4>2
          <5> QED
            BY <1>1, <3>1, <5>1 DEF FileThere, HasFile, BeingDeleted, At, Purging
        <4> QED
          BY <4>1, <4>2
      <3>4. RowThere(s)'
        <4>1. CASE s \in store
          <5>1. sends'[s] = sends[s]
            BY <1>1, <2>3, <3>1, <4>1 DEF FileKept
          <5>2. pending[s] # None =>
                   \E r \in Req : req[r].id = s /\ req[r].stage \in {"streamed", "stored"}
            BY <3>1, <4>1 DEF FileKept
          <5> QED
            BY <1>1, <3>1, <5>1, <5>2 DEF RowThere
        <4>2. CASE s \notin store
          BY <1>1, <4>2 DEF RowThere
        <4> QED
          BY <4>1, <4>2
      <3> QED
        BY <3>2, <3>3, <3>4
    <2> QED
      BY <2>4, <2>5, <2>7, <2>8 DEF FileOf
  <1> QED
    BY <1>2, <1>3 DEF FileInv

LEMMA CronFiles ==
    ASSUME TypeOK, CapInv, FileInv, Cron \/ Tick \/ UNCHANGED vars
    PROVE  FileInv'
  <1>1. CASE Tick \/ UNCHANGED vars
    <2>1. /\ UNCHANGED <<cron, sends, pending, store, req, uploads, used, cut, late>>
          /\ now' \in Nat /\ now' >= now
      BY <1>1 DEF TypeOK, Tick, vars, tables, ghosts
    <2> QED
      BY <2>1, FilesForgotten
  <1>2. CASE CronTouch \/ CronFail \/ (CronFindExpired /\ cron'.stage # "expiredObjects")
    <2>1. UNCHANGED <<now, sends, pending, store, req, uploads, used, late>> /\ cut \subseteq cut'
      BY <1>2 DEF CronTouch, CronFail, CronFindExpired, tables, ghosts
    <2>2. /\ cron'.found = {} /\ cron'.keys = {} /\ cron'.stage # "staleObjects"
          /\ \A s \in Send : Purging(s) => s \in cut'
      <3>1. CASE CronTouch
        BY <3>1 DEF CronTouch, CronIdle, CronAt, Purging
      <3>2. CASE CronFail
        BY <3>2 DEF CronFail, Purging
      <3>3. CASE CronFindExpired /\ cron'.stage # "expiredObjects"
        BY <3>3 DEF CronFindExpired, CronIdle, CronAt, Purging
      <3> QED
        BY <1>2, <3>1, <3>2, <3>3
    <2>3. now' \in Nat /\ now' >= now
      BY <2>1 DEF TypeOK
    <2> QED
      BY <2>1, <2>2, <2>3, FilesForgotten
  <1> QED
    BY <1>1, <1>2, FilesFound, FilesPurged, FilesRowsPurged DEF Cron

\* What relates the store, the tables, the handlers and the purge.
THEOREM FilesKept == Spec => []FileInv
  <1>1. Init => FileInv
    <2> SUFFICES ASSUME Init PROVE FileInv
      OBVIOUS
    <2>1. /\ \A s \in Send : sends[s] = None /\ pending[s] = None
          /\ \A r \in Req : req[r] = Idle
          /\ store = {} /\ cron.stage = "idle" /\ cron.found = {} /\ cron.keys = {}
      BY DEF Init
    <2>2. \A s \in Send : \A r \in Req : req[r].id # s
      BY <2>1, NoneAssumption DEF Idle
    <2> QED
      BY <2>1, <2>2
      DEF FileInv, PurgeSound, FileOf, FreshId, FileRows, OneUpload, FileKept, FileThere,
          RowThere, HasFile, Settled, Purging, Uploading
  <1>2. TypeOK /\ CapInv /\ FileInv /\ [Next]_vars => FileInv'
    BY BeginFiles, ContinueFiles, CronFiles DEF Next
  <1> QED
    BY <1>1, <1>2, TypeCorrect, CapsKept, PTL DEF Spec

\* A finalized file send has its file, unless it is being deleted, a handler or
\* the purge died half done on it, it was uploaded twice, or it was promoted when
\* it was already due for the purge.
THEOREM FilesStay == Spec => []FilesPresent
  <1>1. FileInv => FilesPresent
    BY DEF FileInv, FileOf, FileThere, FilesPresent
  <1> QED
    BY <1>1, FilesKept, PTL

\* A stored file has a row, or a handler about to insert one, unless a handler
\* died half done on the send or it was uploaded twice.
THEOREM FilesOwned == Spec => []NoOrphanFiles
  <1>1. TypeOK /\ FileInv => NoOrphanFiles
    <2> SUFFICES ASSUME TypeOK, FileInv, NEW s \in store, s \notin cut, uploads[s] # 2
                 PROVE  \/ sends[s] # None \/ pending[s] # None
                        \/ \E r \in Req :
                              req[r].id = s /\ req[r].stage \in {"insert", "streamed", "stored"}
      BY DEF NoOrphanFiles
    <2> QED
      BY DEF FileInv, FileOf, RowThere, TypeOK
  <1> QED
    BY <1>1, FilesKept, TypeCorrect, PTL
=============================================================================
