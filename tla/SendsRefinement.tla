--------------------------- MODULE SendsRefinement ---------------------------
(***************************************************************************)
(* Proof that Sends implements SendBudget: under the mapping of Budget,    *)
(* every step of a handler, of the purge or of the clock opens, changes,   *)
(* closes, charges or releases one send, or leaves all of them alone.      *)
(***************************************************************************)
EXTENDS SendsProofs

-----------------------------------------------------------------------------
\* Rows enter the table with a count of zero

\* One handler moves and the rows of one send change at most.
LEMMA BirthStep ==
    ASSUME TypeOK, BirthInv, NEW r \in Req, NEW s \in Send,
           \A q \in Req \ {r} : req'[q] = req[q],
           \A t \in Send \ {s} : sends'[t] = sends[t] /\ pending'[t] = pending[t],
           req'[r].id \in {s, None},
           \A q \in Req \ {r} : ~(req[q].id = s /\ At(q, "insert")),
           pending'[s] # None => pending'[s].count = 0,
           req'[r].stage \in Unborn => req'[r].row.count = 0,
           req'[r].stage = "insert" =>
              sends'[s] = None /\ pending'[s] = None /\ \A q \in Req \ {r} : req[q].id # s
    PROVE  BirthInv'
  <1> SUFFICES ASSUME NEW t \in Send
               PROVE  /\ pending'[t] # None => pending'[t].count = 0
                      /\ \A q \in Req : req'[q].id = t =>
                            /\ req'[q].stage \in Unborn => req'[q].row.count = 0
                            /\ req'[q].stage = "insert" =>
                                  /\ sends'[t] = None /\ pending'[t] = None
                                  /\ \A p \in Req \ {q} : req'[p].id # t
    BY DEF BirthInv, At
  <1>1. pending'[t] # None => pending'[t].count = 0
    BY DEF BirthInv
  <1>2. ASSUME NEW q \in Req, req'[q].id = t
        PROVE  req'[q].stage \in Unborn => req'[q].row.count = 0
    BY <1>2 DEF BirthInv
  <1>3. ASSUME NEW q \in Req, req'[q].id = t, req'[q].stage = "insert"
        PROVE  sends'[t] = None /\ pending'[t] = None /\ \A p \in Req \ {q} : req'[p].id # t
    <2>1. CASE q = r
      BY <1>3, <2>1, NoneAssumption
    <2>2. CASE q # r
      <3>1. req[q].id = t /\ At(q, "insert") /\ t # s
        BY <1>3, <2>2 DEF At
      <3>2. sends[t] = None /\ pending[t] = None /\ \A p \in Req \ {q} : req[p].id # t
        BY <3>1 DEF BirthInv
      <3>3. \A p \in Req \ {q} : req'[p].id # t
        BY <3>1, <3>2, NoneAssumption
      <3> QED
        BY <3>1, <3>2, <3>3
    <2> QED
      BY <2>1, <2>2
  <1> QED
    BY <1>1, <1>2, <1>3

LEMMA BeginBirth ==
    ASSUME TypeOK, CapInv, BirthInv, NEW r \in Req, NEW s \in Send, Begin(r, s)
    PROVE  BirthInv'
  <1> USE DEF Unborn
  <1>1. ASSUME NEW p \in Payload,
               \/ CreateTextSend(r, s, p) \/ CreateFileSendV2(r, s, p)
               \/ CreateFileSendLegacy(r, s, p)
        PROVE  BirthInv'
    <2>1. Undrawn(s)
      BY <1>1 DEF CapInv, CreateTextSend, CreateFileSendV2, CreateFileSendLegacy, Fresh
    <2>2. \A type \in SendType : NewRow(type, p) \in Row /\ NewRow(type, p).count = 0
      BY NewRowIsRow DEF TypeOK, NewRow, Configured
    <2>3. \A t \in Send \ {s} : sends'[t] = sends[t] /\ pending'[t] = pending[t]
      BY <1>1 DEF TypeOK, CreateTextSend, CreateFileSendV2, CreateFileSendLegacy, tables
    <2>4. pending'[s] # None => pending'[s].count = 0
      BY <1>1, <2>1, <2>2
      DEF TypeOK, CreateTextSend, CreateFileSendV2, CreateFileSendLegacy, tables, Undrawn, SendType
    <2>5. \A q \in Req \ {r} : req'[q] = req[q]
      BY <1>1 DEF TypeOK, CreateTextSend, CreateFileSendV2, CreateFileSendLegacy, Hold, Reply
    <2>6. /\ req'[r].id \in {s, None}
          /\ req'[r].stage \in Unborn => req'[r].row.count = 0
          /\ req'[r].stage = "insert" => sends'[s] = None /\ pending'[s] = None
      <3>1. CASE CreateTextSend(r, s, p)
        BY <3>1 DEF TypeOK, CreateTextSend, Reply
      <3>2. CASE CreateFileSendV2(r, s, p)
        <4>1. req'[r] = req[r] /\ req[r].stage = "idle" /\ req[r] \in Handler
          BY <3>2 DEF TypeOK, CreateFileSendV2, At
        <4> QED
          BY <4>1 DEF Handler, Idle, ReplyStage, SnapshotStage
      <3>3. CASE CreateFileSendLegacy(r, s, p)
        BY <2>1, <2>2, <3>3 DEF TypeOK, CreateFileSendLegacy, Hold, SendType, Undrawn, tables
      <3> QED
        BY <1>1, <3>1, <3>2, <3>3
    <2> QED
      BY <2>1, <2>3, <2>4, <2>5, <2>6, BirthStep DEF Undrawn
  <1>2. CASE ~\E p \in Payload : \/ CreateTextSend(r, s, p) \/ CreateFileSendV2(r, s, p)
                                 \/ CreateFileSendLegacy(r, s, p)
    <2>1. UNCHANGED tables /\ (sends[s] # None \/ pending[s] # None)
      BY <1>2 DEF Begin, StartUpdate, StartStreamUpload, StartDirectUpload,
         StartRemovePassword, StartDelete, StartAccess, StartAccessFile, StartGrant,
         StartDownload, Opens, StartTokenAccess, StartTokenAccessFile
    <2>2. \A q \in Req \ {r} : req'[q] = req[q]
      BY <1>2 DEF TypeOK, Begin, StartUpdate, StartStreamUpload, StartDirectUpload,
         StartRemovePassword, StartDelete, StartAccess, StartAccessFile, StartGrant,
         StartDownload, StartTokenAccess, StartTokenAccessFile, Hold, Reply
    <2>3. /\ req'[r].id = s /\ req'[r].stage # "insert"
          /\ req'[r].stage \in Unborn => pending[s] # None /\ req'[r].row = pending[s]
      BY <1>2 DEF TypeOK, Begin, StartUpdate, StartStreamUpload, StartDirectUpload,
         StartRemovePassword, StartDelete, StartAccess, StartAccessFile, StartGrant,
         StartDownload, StartTokenAccess, StartTokenAccessFile, Hold, Reply
    <2>4. \A q \in Req : ~(req[q].id = s /\ At(q, "insert"))
      BY <2>1 DEF BirthInv
    <2>5. pending[s] # None => pending[s].count = 0
      BY DEF BirthInv
    <2>6. sends' = sends /\ pending' = pending
      BY <2>1 DEF tables
    <2> QED
      BY <2>2, <2>3, <2>4, <2>5, <2>6, BirthStep
  <1> QED
    BY <1>1, <1>2

LEMMA ContinueBirth ==
    ASSUME TypeOK, CapInv, BirthInv, NEW r \in Req, Continue(r)
    PROVE  BirthInv'
  <1> USE DEF Unborn
  <1>a. ~At(r, "idle")
    BY DEF Continue, InsertLegacy, PutObject, DiscardMismatch, Finalize, WriteRow,
           DeleteObject, DeleteRow, BumpRow, Charge, Answer, IssueLink, ServeContent,
           Abort, At
  <1>b. PICK s \in Send : req[r].id = s
    BY <1>a, HandlerFields DEF TypeOK
  <1>1. \A q \in Req \ {r} : req'[q] = req[q]
    BY DEF TypeOK, Continue, InsertLegacy, PutObject, DiscardMismatch, Finalize, WriteRow,
           DeleteObject, DeleteRow, BumpRow, Charge, Answer, IssueLink, ServeContent,
           Abort, Touch, Hold, Reply, Finish
  <1>2. \A q \in Req \ {r} : ~(req[q].id = s /\ At(q, "insert"))
    BY <1>b DEF BirthInv
  <1>3. \A t \in Send \ {s} : sends'[t] = sends[t] /\ pending'[t] = pending[t]
    BY <1>b DEF TypeOK, Continue, InsertLegacy, PutObject, DiscardMismatch, Finalize, WriteRow,
           DeleteObject, DeleteRow, BumpRow, Charge, Answer, IssueLink, ServeContent,
           Abort, WriteSnapshot, tables
  <1>4. pending'[s] \in {pending[s], None}
    BY <1>b DEF TypeOK, Continue, InsertLegacy, PutObject, DiscardMismatch, Finalize, WriteRow,
           DeleteObject, DeleteRow, BumpRow, Charge, Answer, IssueLink, ServeContent,
           Abort, tables
  <1>5. pending'[s] # None => pending'[s].count = 0
    BY <1>4 DEF BirthInv
  <1>6. req'[r].id \in {s, None} /\ req'[r].stage # "insert"
    BY <1>b DEF TypeOK, Continue, InsertLegacy, PutObject, DiscardMismatch, Finalize, WriteRow,
           DeleteObject, DeleteRow, BumpRow, Charge, AfterCharge, Answer, IssueLink,
           ServeContent, Abort, Touch, Hold, Reply, Finish, Idle, At
  <1>7. req'[r].stage \in Unborn => req[r].stage \in Unborn /\ req'[r].row = req[r].row
    BY DEF TypeOK, Continue, InsertLegacy, PutObject, DiscardMismatch, Finalize, WriteRow,
           DeleteObject, DeleteRow, BumpRow, Charge, AfterCharge, Answer, IssueLink,
           ServeContent, Abort, Touch, Hold, Reply, Finish, Idle, At
  <1>8. req'[r].stage \in Unborn => req'[r].row.count = 0
    BY <1>b, <1>7 DEF BirthInv
  <1> QED
    BY <1>1, <1>2, <1>3, <1>5, <1>6, <1>8, BirthStep

\* No access is counted on a row before it is in the table.
THEOREM BornUncounted == Spec => []BirthInv
  <1>1. Init => BirthInv
    BY DEF Init, BirthInv, Idle, Unborn, At
  <1>2. TypeOK /\ CapInv /\ BirthInv /\ [Next]_vars => BirthInv'
    <2> SUFFICES ASSUME TypeOK, CapInv, BirthInv, [Next]_vars PROVE BirthInv'
      OBVIOUS
    <2>1. CASE Cron \/ Tick \/ UNCHANGED vars
      <3>1. /\ req' = req
            /\ \A s \in Send : sends'[s] \in {sends[s], None} /\ pending'[s] \in {pending[s], None}
        BY <2>1 DEF TypeOK, vars, Tick, Cron, CronFindStale, CronDeleteStale, CronFindExpired,
           CronTouch, CronFail, CronDeleteObject, CronDeleteExpired, tables
      <3> QED
        BY <3>1 DEF BirthInv, At
    <2> QED
      BY <2>1, BeginBirth, ContinueBirth DEF Next
  <1> QED
    BY <1>1, <1>2, TypeCorrect, CapsKept, PTL DEF Spec

-----------------------------------------------------------------------------
\* Steps of the rows, as steps of the budget

BudgetStep == [Budget!BudgetNext]_(Budget!budgetVars)

LEMMA StutterStep ==
    ASSUME UNCHANGED <<sends, charged, served>>
    PROVE  BudgetStep
  BY DEF BudgetStep, Budget!budgetVars, Counts, Maxima

\* What the mapped count and maximum become when the row of one send changes.
LEMMA MappedRow ==
    ASSUME TypeOK, NEW s \in Send, NEW row \in Row, sends' = [sends EXCEPT ![s] = row]
    PROVE  /\ Counts' = [Counts EXCEPT ![s] = row.count]
           /\ Maxima' = [Maxima EXCEPT ![s] = row.max]
           /\ Maxima'[s] = row.max
  BY NullAssumption DEF TypeOK, Counts, Maxima

LEMMA MappedNone ==
    ASSUME TypeOK, NEW s \in Send, sends' = [sends EXCEPT ![s] = None]
    PROVE  /\ Counts' = [Counts EXCEPT ![s] = None]
           /\ Maxima' = [Maxima EXCEPT ![s] = None]
  BY DEF TypeOK, Counts, Maxima

LEMMA MappedFields ==
    ASSUME NEW s \in Send
    PROVE  /\ Counts[s] = IF sends[s] = None THEN None ELSE sends[s].count
           /\ Maxima[s] = IF sends[s] = None THEN None ELSE sends[s].max
           /\ Counts = [Counts EXCEPT ![s] = Counts[s]]
           /\ Maxima = [Maxima EXCEPT ![s] = Maxima[s]]
  BY DEF Counts, Maxima

LEMMA OpenStep ==
    ASSUME TypeOK, NEW s \in Send, NEW row \in Row, sends[s] = None, row.count = 0,
           sends' = [sends EXCEPT ![s] = row], UNCHANGED <<charged, served>>
    PROVE  BudgetStep
  <1>1. row # None /\ row.max \in Nat \cup {None}
    BY NullAssumption DEF Row
  <1>2. Budget!NewMax(s)
    BY <1>1, MappedRow DEF Budget!NewMax
  <1>3. Counts[s] = None /\ Counts' = [Counts EXCEPT ![s] = 0]
    BY <1>1, MappedRow, MappedFields
  <1>4. Budget!Open(s)
    BY <1>2, <1>3 DEF Budget!Open
  <1> QED
    BY <1>4 DEF BudgetStep, Budget!BudgetNext

LEMMA ReconfigureStep ==
    ASSUME TypeOK, NEW s \in Send, NEW row \in Row, sends[s] # None,
           row.count = sends[s].count,
           sends' = [sends EXCEPT ![s] = row], UNCHANGED <<charged, served>>
    PROVE  BudgetStep
  <1>1. row # None /\ row.max \in Nat \cup {None}
    BY NullAssumption DEF Row
  <1>2. Budget!NewMax(s)
    BY <1>1, MappedRow DEF Budget!NewMax
  <1>3. sends[s].count \in Nat
    BY DEF TypeOK, Row
  <1>4. Counts[s] = sends[s].count /\ Counts = [Counts EXCEPT ![s] = Counts[s]]
    BY MappedFields
  <1>5. Counts' = [Counts EXCEPT ![s] = sends[s].count]
    BY <1>1, MappedRow
  <1>6. Counts[s] # None /\ Counts' = Counts
    BY <1>3, <1>4, <1>5, NoneAssumption
  <1>7. Budget!Reconfigure(s)
    BY <1>2, <1>6 DEF Budget!Reconfigure
  <1> QED
    BY <1>7 DEF BudgetStep, Budget!BudgetNext

LEMMA CloseStep ==
    ASSUME TypeOK, NEW s \in Send, sends' = [sends EXCEPT ![s] = None],
           UNCHANGED <<charged, served>>
    PROVE  BudgetStep
  <1>1. CASE sends[s] = None
    <2>1. sends' = sends
      BY <1>1 DEF TypeOK
    <2> QED
      BY <2>1, StutterStep
  <1>2. CASE sends[s] # None
    <2>1. sends[s].count \in Nat
      BY <1>2 DEF TypeOK, Row
    <2>2. Counts[s] = sends[s].count
      BY <1>2, MappedFields
    <2>3. Counts' = [Counts EXCEPT ![s] = None] /\ Maxima' = [Maxima EXCEPT ![s] = None]
      BY MappedNone
    <2>4. Budget!Close(s)
      BY <2>1, <2>2, <2>3, NoneAssumption DEF Budget!Close
    <2> QED
      BY <2>4 DEF BudgetStep, Budget!BudgetNext
  <1> QED
    BY <1>1, <1>2

LEMMA ChargeStep ==
    ASSUME TypeOK, NEW s \in Send, NEW row \in Row, Chargeable(s),
           row.count = sends[s].count + 1, row.max = sends[s].max,
           sends' = [sends EXCEPT ![s] = row],
           charged' = [charged EXCEPT ![s] = @ + 1], served' = served
    PROVE  BudgetStep
  <1>1. row # None /\ sends[s] # None
    BY NullAssumption DEF Chargeable
  <1>2. sends[s].count \in Nat
    BY <1>1 DEF TypeOK, Row
  <1>3. Counts[s] = sends[s].count /\ Maxima[s] = sends[s].max
    BY <1>1, MappedFields
  <1>4. Counts' = [Counts EXCEPT ![s] = sends[s].count + 1]
    BY <1>1, MappedRow
  <1>5. Maxima' = Maxima
    <2>1. Maxima = [Maxima EXCEPT ![s] = sends[s].max]
      BY <1>3, MappedFields
    <2>2. Maxima' = [Maxima EXCEPT ![s] = sends[s].max]
      BY <1>1, MappedRow
    <2> QED
      BY <2>1, <2>2
  <1>6. Counts[s] # None /\ (Maxima[s] # None => Counts[s] < Maxima[s])
    BY <1>2, <1>3, NoneAssumption DEF Chargeable
  <1>7. Counts' = [Counts EXCEPT ![s] = @ + 1]
    BY <1>3, <1>4
  <1>8. Budget!Charge(s)
    BY <1>5, <1>6, <1>7 DEF Budget!Charge
  <1> QED
    BY <1>8 DEF BudgetStep, Budget!BudgetNext

LEMMA ReleaseStep ==
    ASSUME NEW s \in Send, served[s] < charged[s],
           served' = [served EXCEPT ![s] = @ + 1], UNCHANGED <<sends, charged>>
    PROVE  BudgetStep
  <1>1. Budget!Release(s)
    BY DEF Budget!Release, Counts, Maxima
  <1> QED
    BY <1>1 DEF BudgetStep, Budget!BudgetNext

-----------------------------------------------------------------------------
\* Every step of Sends is one of them

LEMMA BeginRefines ==
    ASSUME TypeOK, CapInv, NEW r \in Req, NEW s \in Send, Begin(r, s)
    PROVE  BudgetStep
  <1>1. ASSUME NEW p \in Payload, CreateTextSend(r, s, p)
        PROVE  BudgetStep
    <2>1. NewRow("text", p) \in Row /\ NewRow("text", p).count = 0
      BY NewRowIsRow DEF TypeOK, NewRow, Configured, SendType
    <2>2. sends[s] = None
      BY <1>1 DEF CapInv, CreateTextSend, Fresh, Undrawn
    <2>3. sends' = [sends EXCEPT ![s] = NewRow("text", p)] /\ UNCHANGED <<charged, served>>
      BY <1>1 DEF CreateTextSend, Fresh
    <2> QED
      BY <2>1, <2>2, <2>3, OpenStep
  <1>2. CASE ~\E p \in Payload : CreateTextSend(r, s, p)
    <2>1. UNCHANGED <<sends, charged, served>>
      BY <1>2 DEF Begin, CreateFileSendV2, CreateFileSendLegacy, Fresh, StartUpdate,
         StartStreamUpload, StartDirectUpload, CountUpload, StartRemovePassword, StartDelete,
         StartAccess, StartAccessFile, StartGrant, StartDownload, Opens,
         StartTokenAccess, StartTokenAccessFile, tables, ghosts
    <2> QED
      BY <2>1, StutterStep
  <1> QED
    BY <1>1, <1>2

LEMMA ContinueRefines ==
    ASSUME TypeOK, BirthInv, ServedWasPaid, NEW r \in Req, Continue(r)
    PROVE  BudgetStep
  <1>a. ~At(r, "idle")
    BY DEF Continue, InsertLegacy, PutObject, DiscardMismatch, Finalize, WriteRow,
           DeleteObject, DeleteRow, BumpRow, Charge, Answer, IssueLink, ServeContent,
           Abort, At
  <1>b. PICK s \in Send : req[r].id = s
    BY <1>a, HandlerFields DEF TypeOK
  <1>c. req[r].stage \in SnapshotStage => req[r].row \in Row
    BY HandlerFields DEF TypeOK
  <1>d. now \in Nat
    BY DEF TypeOK
  <1>1. CASE PutObject(r) \/ DiscardMismatch(r) \/ DeleteObject(r) \/ Answer(r)
             \/ IssueLink(r) \/ Abort(r)
    <2>1. UNCHANGED <<sends, charged, served>>
      BY <1>1 DEF PutObject, DiscardMismatch, DeleteObject, Answer, IssueLink, Abort,
         tables, ghosts
    <2> QED
      BY <2>1, StutterStep
  <1>2. CASE InsertLegacy(r)
    <2>1. /\ req[r].row \in Row /\ req[r].row.count = 0 /\ sends[s] = None
          /\ sends' = [sends EXCEPT ![s] = req[r].row] /\ UNCHANGED <<charged, served>>
      BY <1>2, <1>b, <1>c DEF InsertLegacy, At, BirthInv, Unborn, SnapshotStage, ghosts
    <2> QED
      BY <2>1, OpenStep
  <1>3. CASE Finalize(r)
    <2>1. CASE sends[s] # None
      <3>1. UNCHANGED <<sends, charged, served>>
        BY <1>3, <1>b, <2>1 DEF Finalize, tables
      <3> QED
        BY <3>1, StutterStep
    <2>2. CASE sends[s] = None
      <3> DEFINE row == [req[r].row EXCEPT !.updated = now]
      <3>1. req[r].row \in Row /\ req[r].row.count = 0
        BY <1>3, <1>b, <1>c DEF Finalize, BirthInv, Unborn, SnapshotStage
      <3>2. row \in Row /\ row.count = 0
        BY <1>d, <3>1 DEF Row
      <3>3. sends' = [sends EXCEPT ![s] = row] /\ UNCHANGED <<charged, served>>
        BY <1>3, <1>b, <2>2 DEF Finalize
      <3> QED
        BY <2>2, <3>2, <3>3, OpenStep
    <2> QED
      BY <2>1, <2>2
  <1>4. CASE WriteRow(r) \/ BumpRow(r)
    <2>1. WriteSnapshot(s, req[r].row) /\ UNCHANGED <<charged, served>>
      BY <1>4, <1>b DEF WriteRow, BumpRow, ghosts
    <2>2. CASE sends[s] = None
      BY <2>1, <2>2, StutterStep DEF WriteSnapshot
    <2>3. CASE sends[s] # None
      <3> DEFINE row == Written(sends[s], req[r].row)
      <3>1. sends[s] \in Row /\ req[r].row \in Row
        BY <1>4, <1>c, <2>3 DEF TypeOK, WriteRow, BumpRow, At, SnapshotStage
      <3>2. row \in Row /\ row.count = sends[s].count
        BY <1>d, <3>1, WrittenRow DEF Written, Row
      <3>3. sends' = [sends EXCEPT ![s] = row]
        BY <2>1, <2>3 DEF WriteSnapshot
      <3> QED
        BY <2>1, <2>3, <3>2, <3>3, ReconfigureStep
    <2> QED
      BY <2>2, <2>3
  <1>5. CASE DeleteRow(r)
    <2>1. sends' = [sends EXCEPT ![s] = None] /\ UNCHANGED <<charged, served>>
      BY <1>5, <1>b DEF DeleteRow, ghosts
    <2> QED
      BY <2>1, CloseStep
  <1>6. CASE Charge(r)
    <2>1. CASE ~Chargeable(s)
      <3>1. UNCHANGED <<sends, charged, served>>
        BY <1>6, <1>b, <2>1 DEF Charge
      <3> QED
        BY <3>1, StutterStep
    <2>2. CASE Chargeable(s)
      <3> DEFINE row == [sends[s] EXCEPT !.count = sends[s].count + 1, !.updated = now]
      <3>1. sends[s] \in Row
        BY <2>2 DEF TypeOK, Chargeable
      <3>2. row \in Row /\ row.count = sends[s].count + 1 /\ row.max = sends[s].max
        BY <1>d, <3>1, ChargedRow DEF Row
      <3>3. /\ sends' = [sends EXCEPT ![s] = row]
            /\ charged' = [charged EXCEPT ![s] = @ + 1] /\ served' = served
        BY <1>6, <1>b, <2>2 DEF TypeOK, Charge
      <3> QED
        BY <2>2, <3>2, <3>3, ChargeStep
    <2> QED
      BY <2>1, <2>2
  <1>7. CASE ServeContent(r)
    <2>1. UNCHANGED <<sends, charged>>
          /\ (served' = served \/ served' = [served EXCEPT ![s] = @ + 1])
      BY <1>7, <1>b DEF ServeContent, tables
    <2>2. served[s] < charged[s]
      <3>1. r \in Answering(s)
        BY <1>7, <1>b DEF ServeContent, Answering
      <3>2. Cardinality(Answering(s)) > 0
        BY <3>1, AnsweringFinite, FS_EmptySet
      <3>3. served[s] + Cardinality(Answering(s)) <= charged[s]
        BY DEF ServedWasPaid
      <3> QED
        BY <3>2, <3>3, AnsweringFinite DEF TypeOK
    <2> QED
      BY <2>1, <2>2, StutterStep, ReleaseStep
  <1> QED
    BY <1>1, <1>2, <1>3, <1>4, <1>5, <1>6, <1>7 DEF Continue

LEMMA CronRefines ==
    ASSUME TypeOK, Cron
    PROVE  BudgetStep
  <1>1. ASSUME NEW s \in Send, CronDeleteExpired(s)
        PROVE  BudgetStep
    <2>1. sends' = [sends EXCEPT ![s] = None] /\ UNCHANGED <<charged, served>>
      BY <1>1 DEF CronDeleteExpired, ghosts
    <2> QED
      BY <2>1, CloseStep
  <1>2. CASE ~\E s \in Send : CronDeleteExpired(s)
    <2>1. UNCHANGED <<sends, charged, served>>
      BY <1>2 DEF Cron, CronFindStale, CronDeleteStale, CronFindExpired, CronTouch, CronFail,
         CronDeleteObject, tables, ghosts
    <2> QED
      BY <2>1, StutterStep
  <1> QED
    BY <1>1, <1>2

\* The handlers, the purge and every stale snapshot in flight implement the
\* access counter of SendBudget.
THEOREM Refinement == Spec => ImplementsBudget
  <1>1. Init => Budget!BudgetInit
    BY DEF Init, Budget!BudgetInit, Counts, Maxima
  <1>2. TypeOK /\ CapInv /\ BirthInv /\ ServedWasPaid /\ [Next]_vars => BudgetStep
    <2> SUFFICES ASSUME TypeOK, CapInv, BirthInv, ServedWasPaid, [Next]_vars
                 PROVE  BudgetStep
      OBVIOUS
    <2>1. CASE Tick \/ UNCHANGED vars
      BY <2>1, StutterStep DEF Tick, vars, tables, ghosts
    <2> QED
      BY <2>1, BeginRefines, ContinueRefines, CronRefines DEF Next
  <1>3. TypeOK /\ CapInv /\ BirthInv /\ ServedWasPaid /\ [Next]_vars
           => [Budget!BudgetNext]_(Budget!budgetVars)
    BY <1>2 DEF BudgetStep
  <1> QED
    BY <1>1, <1>3, TypeCorrect, CapsKept, BornUncounted, Paid, PTL
    DEF Spec, ImplementsBudget, Budget!BudgetSpec
=============================================================================
