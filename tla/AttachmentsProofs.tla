------------------------- MODULE AttachmentsProofs -------------------------
(***************************************************************************)
(* Proofs about Attachments, for any finite number of files and handlers   *)
(* and any users, ciphers, limit and workloads: its types, the bound on    *)
(* how far concurrent uploads overshoot the storage limit, by whose rights *)
(* files are touched, rows and their objects, and who is told.             *)
(***************************************************************************)
EXTENDS Attachments, FunctionTheorems, FiniteSetTheorems, TLAPS

-----------------------------------------------------------------------------
\* What a handler holds

\* The routes that name a file, and the stages at which a handler has one.
FileRoutes == {"upload", "stream", "get", "download", "delete"}
FileStages == {"insertPending", "insertRow", "pending", "dropPending", "put", "cleanUp",
               "finalize", "attachment", "read", "deleteRow"}

\* A handler knows its caller, has vetted the ciphers it does not list in vet, and
\* carries a file that belongs to a cipher.
Sound(h) ==
    /\ h.stage # "idle" => h.user \in User
    /\ h.stage # "access" => h.vet = {}
    /\ \A c \in h.cs \ h.vet : c \in Shared \/ Creator[c] = h.user
    /\ h.stage = "access" => h.route \in FileRoutes \cup {"create", "legacy", "hardDelete"}
    /\ h.stage = "cipher" => h.route \in FileRoutes \cup {"create", "legacy"}
    /\ h.stage \in FileStages \/ h.route \in FileRoutes => h.att \in Att /\ home[h.att] # None

AllSound == \A r \in Req : Sound(req[r])

\* Constants that no step changes, and what is known of them.
LEMMA Constants ==
    /\ Creator \in [Cipher -> User] /\ Shared \subseteq Cipher
    /\ None \notin User \cup Cipher \cup Att \cup AttachRoutes
    /\ Limit \in Nat /\ IsFiniteSet(Att) /\ IsFiniteSet(Req) /\ Req # {}
  BY AttachFinite, CipherAssumption, LimitAssumption, AttachNoneAssumption

\* A step of one handler that draws no id.
LEMMA HandlerStep ==
    ASSUME AttachTypeOK, AllSound, NEW r \in Req, NEW h,
           h \in Handler, Sound(h), Goto(r, h), home' = home
    PROVE  /\ req' \in [Req -> Handler] /\ AllSound'
           /\ \A s \in Req : req'[s] = IF s = r THEN h ELSE req[s]
  <1>1. req \in [Req -> Handler] /\ req' = [req EXCEPT ![r] = h]
    BY DEF AttachTypeOK, Goto
  <1>2. \A s \in Req : req'[s] = IF s = r THEN h ELSE req[s]
    BY <1>1
  <1>3. req' \in [Req -> Handler]
    BY <1>1
  <1>4. ASSUME NEW s \in Req
        PROVE  Sound(req[s])'
    <2>1. CASE s = r
      BY <1>2, <2>1 DEF Sound
    <2>2. CASE s # r
      BY <1>2, <2>2 DEF AllSound, Sound
    <2> QED
      BY <2>1, <2>2
  <1> QED
    BY <1>2, <1>3, <1>4 DEF AllSound

LEMMA IdleSound == Idle \in Handler /\ Sound(Idle)
  <1>1. None \notin FileRoutes
    BY AttachNoneAssumption DEF FileRoutes, AttachRoutes
  <1>2. Idle \in Handler
    BY DEF Idle, Handler, Stage
  <1> QED
    BY <1>1, <1>2 DEF Idle, Sound, FileStages

LEMMA FinishStep ==
    ASSUME AttachTypeOK, AllSound, NEW r \in Req, Finish(r), home' = home
    PROVE  req' \in [Req -> Handler] /\ AllSound'
           /\ \A s \in Req : req'[s] = IF s = r THEN Idle ELSE req[s]
  BY IdleSound, HandlerStep DEF Finish

\* A handler that only moves on to another stage.
LEMMA ProceedStep ==
    ASSUME AttachTypeOK, AllSound, NEW r \in Req, NEW stage \in Stage, Proceed(r, stage),
           home' = home, ~At(r, "access"), ~At(r, "idle"), stage \notin {"idle", "access"},
           stage = "cipher" => req[r].route \in FileRoutes \cup {"create", "legacy"},
           stage \in FileStages => req[r].att \in Att /\ home[req[r].att] # None
    PROVE  req' \in [Req -> Handler] /\ AllSound'
           /\ \A s \in Req : req'[s] = IF s = r THEN [req[r] EXCEPT !.stage = stage] ELSE req[s]
  <1> DEFINE h == [req[r] EXCEPT !.stage = stage]
  <1>1. req[r] \in Handler
    BY DEF AttachTypeOK
  <1>2. h \in Handler
    BY <1>1 DEF Handler
  <1>3. /\ h.stage = stage /\ h.route = req[r].route /\ h.user = req[r].user
        /\ h.cs = req[r].cs /\ h.vet = req[r].vet /\ h.att = req[r].att
    BY <1>1 DEF Handler
  <1>4. Sound(h)
    BY <1>3 DEF AllSound, Sound, At
  <1> QED
    BY <1>2, <1>4, HandlerStep DEF Proceed

\* A file that has a row, or that a handler is about to give one.
CarriedStages == {"insertPending", "insertRow", "put", "finalize"}
Present(a) ==
    \/ a \in row \/ pend[a] # "no"
    \/ \E r \in Req : req[r].stage \in CarriedStages /\ req[r].att = a

\* What every step but the one that draws an id keeps.
Kept == AttachTypeOK' /\ AllSound' /\ home' = home /\ \A a \in Att : Present(a)' => Present(a)

\* A step of r that gives no row but to the file r holds, and takes up none but
\* such as are present.
LEMMA PresentStep ==
    ASSUME NEW r \in Req, NEW h,
           \A s \in Req : req'[s] = IF s = r THEN h ELSE req[s],
           \A a \in Att : a \in row' \/ pend'[a] # "no" => Present(a),
           h.stage \in CarriedStages => Present(h.att)
    PROVE  \A a \in Att : Present(a)' => Present(a)
  <1> SUFFICES ASSUME NEW a \in Att, Present(a)'
               PROVE  Present(a)
    OBVIOUS
  <1>1. CASE a \in row' \/ pend'[a] # "no"
    BY <1>1
  <1>2. CASE ~(a \in row' \/ pend'[a] # "no")
    <2>1. PICK s \in Req : req'[s].stage \in CarriedStages /\ req'[s].att = a
      BY <1>2 DEF Present
    <2>2. CASE s = r
      BY <2>1, <2>2
    <2>3. CASE s # r
      BY <2>1, <2>3 DEF Present
    <2> QED
      BY <2>2, <2>3
  <1> QED
    BY <1>1, <1>2

\* The same when no row changes.
LEMMA QuietStep ==
    ASSUME NEW r \in Req, NEW h, row' = row, pend' = pend,
           \A s \in Req : req'[s] = IF s = r THEN h ELSE req[s],
           h.stage \in CarriedStages =>
              h.att \in row \/ pend[h.att] # "no"
              \/ (req[r].stage \in CarriedStages /\ req[r].att = h.att)
    PROVE  \A a \in Att : Present(a)' => Present(a)
  BY PresentStep DEF Present

LEMMA QueryTypes ==
    ASSUME AttachTypeOK, Query, req' \in [Req -> Handler]
    PROVE  AttachTypeOK' /\ home' = home /\ row' = row /\ pend' = pend
  BY DEF AttachTypeOK, Query, tables, history

LEMMA QueryHome == ASSUME Query PROVE home' = home /\ row' = row /\ pend' = pend
  BY DEF Query, tables

\* A query of r after which it holds h.
LEMMA QueryStep ==
    ASSUME AttachTypeOK, AllSound, NEW r \in Req, NEW h, h \in Handler, Sound(h), Goto(r, h), Query,
           h.stage \in CarriedStages =>
              h.att \in row \/ pend[h.att] # "no"
              \/ (req[r].stage \in CarriedStages /\ req[r].att = h.att)
    PROVE  Kept
  BY HandlerStep, QuietStep, QueryTypes, QueryHome DEF Kept

LEMMA QueryFinish ==
    ASSUME AttachTypeOK, AllSound, NEW r \in Req, Finish(r), Query
    PROVE  Kept
  <1>1. Idle.stage \notin CarriedStages
    BY DEF Idle, CarriedStages
  <1> QED
    BY <1>1, IdleSound, QueryStep DEF Finish

\* A query of r after which it goes on to stage.
LEMMA QueryProceed ==
    ASSUME AttachTypeOK, AllSound, NEW r \in Req, NEW stage \in Stage, Proceed(r, stage), Query,
           ~At(r, "access"), ~At(r, "idle"), stage \notin {"idle", "access"},
           stage = "cipher" => req[r].route \in FileRoutes \cup {"create", "legacy"},
           stage \in FileStages => req[r].att \in Att /\ home[req[r].att] # None,
           stage \in CarriedStages =>
              req[r].att \in row \/ pend[req[r].att] # "no" \/ req[r].stage \in CarriedStages
    PROVE  Kept
  <1> DEFINE h == [req[r] EXCEPT !.stage = stage]
  <1>1. req[r] \in Handler
    BY DEF AttachTypeOK
  <1>2. h.stage = stage /\ h.att = req[r].att
    BY <1>1 DEF Handler
  <1>3. home' = home /\ row' = row /\ pend' = pend
    BY QueryHome
  <1>4. req' \in [Req -> Handler] /\ AllSound'
        /\ \A s \in Req : req'[s] = IF s = r THEN h ELSE req[s]
    BY <1>3, ProceedStep
  <1>5. h.stage \in CarriedStages =>
           h.att \in row \/ pend[h.att] # "no"
           \/ (req[r].stage \in CarriedStages /\ req[r].att = h.att)
    BY <1>2
  <1> HIDE DEF h
  <1>6. \A a \in Att : Present(a)' => Present(a)
    BY <1>3, <1>4, <1>5, QuietStep
  <1> QED
    BY <1>3, <1>4, <1>6, QueryTypes DEF Kept

-----------------------------------------------------------------------------
\* Requests

LEMMA BeginKept ==
    ASSUME AttachTypeOK, AllSound, NEW r \in Req, NEW h \in Handler, Sound(h), Begin(r, h),
           h.stage \notin CarriedStages
    PROVE  Kept
  <1> DEFINE w == [read |-> {c \in Cipher : CanRead(h.user, c)},
                   write |-> {c \in Cipher : CanWrite(h.user, c)}]
  <1>1. /\ Goto(r, h) /\ home' = home /\ row' = row /\ pend' = pend
        /\ could' = [could EXCEPT ![r] = w]
        /\ UNCHANGED <<tables, object, link, cron, lost, stray, untold, excused>>
    BY DEF Begin, tables
  <1>2. req' \in [Req -> Handler] /\ AllSound'
        /\ \A s \in Req : req'[s] = IF s = r THEN h ELSE req[s]
    BY <1>1, HandlerStep
  <1>3. w \in [read : SUBSET Cipher, write : SUBSET Cipher]
    OBVIOUS
  <1> HIDE DEF w
  <1>4. could' \in [Req -> [read : SUBSET Cipher, write : SUBSET Cipher]]
    BY <1>1, <1>3 DEF AttachTypeOK
  <1>5. AttachTypeOK'
    BY <1>1, <1>2, <1>4 DEF AttachTypeOK, tables
  <1>6. \A a \in Att : Present(a)' => Present(a)
    BY <1>1, <1>2, QuietStep
  <1> QED
    BY <1>1, <1>2, <1>5, <1>6 DEF Kept

\* A request that names ciphers it has still to vet.
LEMMA AskingKept ==
    ASSUME AttachTypeOK, AllSound, NEW r \in Req, NEW route \in AttachRoutes, NEW u \in User,
           NEW cs \in SUBSET Cipher, NEW a \in Att \cup {None},
           route \in FileRoutes => a \in Att /\ home[a] # None,
           route \in FileRoutes \cup {"create", "legacy", "hardDelete"},
           Begin(r, Asking(route, u, cs, a))
    PROVE  Kept
  <1> DEFINE h == Asking(route, u, cs, a)
  <1>1. h \in Handler /\ Sound(h) /\ h.stage \notin CarriedStages
    BY DEF Asking, Handler, Sound, Stage, FileStages, CarriedStages
  <1> HIDE DEF h
  <1> QED
    BY <1>1, BeginKept DEF h

LEMMA StartUploadKept ==
    ASSUME AttachTypeOK, AllSound, NEW r \in Req, NEW u \in User, NEW c \in Cipher,
           StartUpload(r, u, c)
    PROVE  Kept
  <1>1. PICK route \in {"create", "legacy"} : Begin(r, Asking(route, u, {c}, None))
    BY DEF StartUpload
  <1>2. route \in AttachRoutes /\ route \notin FileRoutes /\ {c} \in SUBSET Cipher
    BY DEF AttachRoutes, FileRoutes
  <1> QED
    BY <1>1, <1>2, AskingKept

LEMMA StartFileKept ==
    ASSUME AttachTypeOK, AllSound, NEW r \in Req, NEW u \in User, NEW c \in Cipher, NEW a \in Att,
           StartFile(r, u, c, a)
    PROVE  Kept
  <1>1. PICK route \in {"upload", "get", "delete"} :
           home[a] # None /\ Begin(r, Asking(route, u, {c}, a))
    BY DEF StartFile
  <1>2. route \in AttachRoutes /\ route \in FileRoutes /\ {c} \in SUBSET Cipher
    BY DEF AttachRoutes, FileRoutes
  <1> QED
    BY <1>1, <1>2, AskingKept

\* A token names a file that has been drawn.
LEMMA StartLinkKept ==
    ASSUME AttachTypeOK, AllSound, NEW r \in Req, NEW u \in User, NEW a \in Att, StartLink(r, u, a)
    PROVE  Kept
  <1>1. PICK route \in {"stream", "download"} :
           <<u, a>> \in link /\ Begin(r, Asking(route, u, {home[a]}, a))
    BY DEF StartLink
  <1>2. route \in AttachRoutes /\ route \in FileRoutes
    BY DEF AttachRoutes, FileRoutes
  <1>3. home[a] # None
    BY <1>1 DEF AttachTypeOK
  <1>4. {home[a]} \in SUBSET Cipher
    BY <1>3 DEF AttachTypeOK
  <1> QED
    BY <1>1, <1>2, <1>3, <1>4, AskingKept

LEMMA StartHardDeleteKept ==
    ASSUME AttachTypeOK, AllSound, NEW r \in Req, NEW u \in User, NEW cs \in SUBSET Cipher,
           StartHardDelete(r, u, cs)
    PROVE  Kept
  <1>1. Begin(r, Asking("hardDelete", u, cs, None))
    BY DEF StartHardDelete
  <1>2. "hardDelete" \in AttachRoutes /\ "hardDelete" \notin FileRoutes
    BY DEF AttachRoutes, FileRoutes
  <1> QED
    BY <1>1, <1>2, AskingKept

LEMMA StartPurgeKept ==
    ASSUME AttachTypeOK, AllSound, NEW r \in Req, NEW u \in User, StartPurge(r, u)
    PROVE  Kept
  <1>1. PICK route \in {"purgeVault", "deleteAccount"} : Begin(r, Sweeping(route, u))
    BY DEF StartPurge
  <1>2. route \in AttachRoutes /\ route \notin FileRoutes
    BY DEF AttachRoutes, FileRoutes
  <1> DEFINE g == Sweeping(route, u)
  <1>3. g \in Handler /\ Sound(g) /\ g.stage \notin CarriedStages
    BY <1>2 DEF Sweeping, Handler, Stage, Sound, FileStages, CarriedStages
  <1> HIDE DEF g
  <1> QED
    BY <1>1, <1>3, BeginKept DEF g

-----------------------------------------------------------------------------
\* Handlers between their first query and the store

LEMMA AccessKept ==
    ASSUME AttachTypeOK, AllSound, NEW r \in Req, Access(r)
    PROVE  Kept
  <1> DEFINE h == req[r]
  <1>1. h \in Handler /\ Sound(h) /\ h.stage = "access" /\ Query
    BY DEF Access, At, AttachTypeOK, AllSound
  <1>2. PICK c \in h.vet :
           IF ~(IF h.route \in {"get", "download"} THEN CanRead(h.user, c) ELSE CanWrite(h.user, c))
           THEN Finish(r)
           ELSE Goto(r, [h EXCEPT !.vet = @ \ {c},
                                  !.stage = IF h.vet # {c} THEN "access"
                                            ELSE IF h.route = "hardDelete" THEN "list" ELSE "cipher"])
    BY DEF Access
  <1>3. CASE Finish(r)
    BY <1>1, <1>3, QueryFinish
  <1>4. CASE ~Finish(r)
    <2> DEFINE g == [h EXCEPT !.vet = @ \ {c},
                              !.stage = IF h.vet # {c} THEN "access"
                                        ELSE IF h.route = "hardDelete" THEN "list" ELSE "cipher"]
    <2>1. Goto(r, g) /\ (c \in Shared \/ Creator[c] = h.user)
      BY <1>2, <1>4 DEF CanRead, CanWrite
    <2>2. /\ g.stage = (IF h.vet # {c} THEN "access"
                        ELSE IF h.route = "hardDelete" THEN "list" ELSE "cipher")
          /\ g.vet = h.vet \ {c} /\ g.cs = h.cs /\ g.user = h.user /\ g.route = h.route
          /\ g.att = h.att
      BY <1>1 DEF Handler
    <2>3. g \in Handler
      BY <1>1 DEF Handler, Stage
    <2>4. g.stage \in {"access", "list", "cipher"} /\ g.stage \notin FileStages \cup CarriedStages
      BY <2>2 DEF FileStages, CarriedStages
    <2> HIDE DEF g
    <2>5. \A d \in g.cs \ g.vet : d \in Shared \/ Creator[d] = g.user
      BY <1>1, <2>1, <2>2 DEF Sound
    <2>6. Sound(g)
      BY <1>1, <2>2, <2>4, <2>5 DEF Sound
    <2> QED
      BY <1>1, <2>1, <2>3, <2>4, <2>6, QueryStep
  <1> QED
    BY <1>3, <1>4

LEMMA FetchCipherKept ==
    ASSUME AttachTypeOK, AllSound, NEW r \in Req, FetchCipher(r)
    PROVE  Kept
  <1> DEFINE h == req[r]
             stage == CASE h.route \in {"create", "legacy"} -> "limits"
                        [] h.route \in {"upload", "stream"} -> "pending"
                        [] OTHER -> "attachment"
  <1>1. Sound(h) /\ h.stage = "cipher" /\ Query
    BY DEF FetchCipher, At, AllSound
  <1>2. Finish(r) \/ Proceed(r, stage)
    BY DEF FetchCipher
  <1>3. stage \in {"limits", "pending", "attachment"}
        /\ (stage \in {"pending", "attachment"} => h.route \in FileRoutes)
    BY <1>1 DEF Sound, FileRoutes
  <1>4. stage \in Stage /\ stage \notin CarriedStages /\ stage \notin {"idle", "access", "cipher"}
        /\ (stage \in FileStages => stage \in {"pending", "attachment"})
    BY <1>3 DEF Stage, CarriedStages, FileStages
  <1>5. h.route \in FileRoutes => h.att \in Att /\ home[h.att] # None
    BY <1>1 DEF Sound
  <1> HIDE DEF stage
  <1> QED
    BY <1>1, <1>2, <1>3, <1>4, <1>5, QueryFinish, QueryProceed DEF At

LEMMA FetchPendingKept ==
    ASSUME AttachTypeOK, AllSound, NEW r \in Req, FetchPending(r)
    PROVE  Kept
  <1>1. Sound(req[r]) /\ req[r].stage = "pending" /\ Query
    BY DEF FetchPending, At, AllSound
  <1>2. req[r].att \in Att /\ home[req[r].att] # None
    BY <1>1 DEF Sound, FileStages
  <1>3. Finish(r) \/ (pend[req[r].att] # "no" /\ (Proceed(r, "put") \/ Proceed(r, "dropPending")))
    BY DEF FetchPending
  <1>4. {"put", "dropPending"} \subseteq Stage
    BY DEF Stage
  <1> QED
    BY <1>1, <1>2, <1>3, <1>4, QueryFinish, QueryProceed DEF At, CarriedStages

LEMMA FetchAttachmentKept ==
    ASSUME AttachTypeOK, AllSound, NEW r \in Req, FetchAttachment(r)
    PROVE  Kept
  <1> DEFINE h == req[r]
             g == [h EXCEPT !.stage = "objects", !.files = {h.att}, !.left = {h.att}]
             p == [h EXCEPT !.stage = "read"]
  <1>1. h \in Handler /\ Sound(h) /\ h.stage = "attachment" /\ home' = home /\ row' = row /\ pend' = pend
    BY DEF FetchAttachment, At, AllSound, AttachTypeOK, tables
  <1>2. h.att \in Att /\ home[h.att] # None /\ h.user \in User
    BY <1>1 DEF Sound, FileStages
  <1>3. /\ Goto(r, Idle) \/ Goto(r, p) \/ Goto(r, g)
        /\ link' = link \/ link' = link \cup {<<h.user, h.att>>}
    BY DEF FetchAttachment, Finish, Proceed
  <1>4. p \in Handler /\ Sound(p) /\ p.stage \notin CarriedStages
    BY <1>1, <1>2 DEF Handler, Stage, Sound, FileStages, CarriedStages
  <1>5. g \in Handler /\ Sound(g) /\ g.stage \notin CarriedStages
    BY <1>1, <1>2 DEF Handler, Stage, Sound, FileStages, CarriedStages
  <1>6. Idle.stage \notin CarriedStages
    BY DEF Idle, CarriedStages
  <1> HIDE DEF p, g
  <1>7. PICK k \in Handler : Goto(r, k) /\ Sound(k) /\ k.stage \notin CarriedStages
    BY <1>3, <1>4, <1>5, <1>6, IdleSound
  <1>8. req' \in [Req -> Handler] /\ AllSound'
        /\ \A s \in Req : req'[s] = IF s = r THEN k ELSE req[s]
    BY <1>1, <1>7, HandlerStep
  <1>9. \A a \in Att : Present(a)' => Present(a)
    BY <1>1, <1>7, <1>8, QuietStep
  <1>10. link' \subseteq User \X Att /\ \A l \in link' : home[l[2]] # None
    BY <1>2, <1>3 DEF AttachTypeOK
  <1>11. AttachTypeOK'
    BY <1>8, <1>10 DEF AttachTypeOK, FetchAttachment, tables, history
  <1> QED
    BY <1>1, <1>8, <1>9, <1>11 DEF Kept

LEMMA ReadKept ==
    ASSUME AttachTypeOK, AllSound, NEW r \in Req, Read(r)
    PROVE  Kept
  BY QueryFinish DEF Read

-----------------------------------------------------------------------------
\* Uploads

LEMMA InsertPendingKept ==
    ASSUME AttachTypeOK, AllSound, NEW r \in Req, InsertPending(r)
    PROVE  Kept
  <1> DEFINE h == req[r]
  <1>1. h \in Handler /\ Sound(h) /\ h.stage = "insertPending" /\ home' = home /\ row' = row /\ Finish(r)
        /\ UNCHANGED <<people, trash, object, cron, history>>
    BY DEF InsertPending, At, AllSound, AttachTypeOK
  <1>2. h.att \in Att /\ home[h.att] # None /\ h.user \in User
    BY <1>1 DEF Sound, FileStages
  <1>3. \/ pend' = pend /\ link' = link
        \/ /\ trash[home[h.att]] # "gone"
           /\ pend' = [pend EXCEPT ![h.att] = "new"] /\ link' = link \cup {<<h.user, h.att>>}
    BY DEF InsertPending
  <1>4. req' \in [Req -> Handler] /\ AllSound'
        /\ \A s \in Req : req'[s] = IF s = r THEN Idle ELSE req[s]
    BY <1>1, FinishStep
  <1>5. \A a \in Att : a \in row' \/ pend'[a] # "no" => Present(a)
    BY <1>1, <1>2, <1>3 DEF AttachTypeOK, Present, CarriedStages
  <1>6. Idle.stage \notin CarriedStages
    BY DEF Idle, CarriedStages
  <1>7. \A a \in Att : Present(a)' => Present(a)
    BY <1>4, <1>5, <1>6, PresentStep
  <1>8. link' \subseteq User \X Att /\ \A l \in link' : home[l[2]] # None
    BY <1>2, <1>3 DEF AttachTypeOK
  <1>9. pend' \in [Att -> {"no", "new", "old"}]
        /\ \A a \in Att : a \in row \/ pend'[a] # "no" => home[a] # None /\ trash[home[a]] # "gone"
    BY <1>2, <1>3 DEF AttachTypeOK
  <1>10. AttachTypeOK'
    BY <1>1, <1>4, <1>8, <1>9 DEF AttachTypeOK, people, history
  <1> QED
    BY <1>1, <1>4, <1>7, <1>10 DEF Kept

LEMMA InsertRowKept ==
    ASSUME AttachTypeOK, AllSound, NEW r \in Req, InsertRow(r)
    PROVE  Kept
  <1> DEFINE h == req[r]
             g == [h EXCEPT !.stage = "put"]
  <1>1. h \in Handler /\ Sound(h) /\ h.stage = "insertRow" /\ home' = home /\ pend' = pend
        /\ UNCHANGED <<people, trash, pend, home, object, link, cron, could, lost, excused>> /\ Noting
    BY DEF InsertRow, At, AllSound, AttachTypeOK
  <1>2. h.att \in Att /\ home[h.att] # None
    BY <1>1 DEF Sound, FileStages
  <1>3. \/ Goto(r, Idle) /\ row' = row /\ stray' = stray
        \/ /\ trash[home[h.att]] # "gone" /\ Goto(r, g)
           /\ row' = row \cup {h.att} /\ (stray' = stray \/ stray' = stray \cup {h.att})
    BY DEF InsertRow, Finish, Proceed
  <1>4. g \in Handler /\ Sound(g) /\ g.att = h.att
    BY <1>1, <1>2 DEF Handler, Stage, Sound, FileStages
  <1>5. Idle.stage \notin CarriedStages
    BY DEF Idle, CarriedStages
  <1>6. Present(h.att)
    BY <1>1 DEF Present, CarriedStages
  <1> HIDE DEF g
  <1>7. PICK k \in Handler : Goto(r, k) /\ Sound(k) /\ (k.stage \in CarriedStages => Present(k.att))
    BY <1>3, <1>4, <1>5, <1>6, IdleSound
  <1>8. req' \in [Req -> Handler] /\ AllSound'
        /\ \A s \in Req : req'[s] = IF s = r THEN k ELSE req[s]
    BY <1>1, <1>7, HandlerStep
  <1>9. \A a \in Att : a \in row' \/ pend'[a] # "no" => Present(a)
    BY <1>1, <1>3, <1>6 DEF Present
  <1>10. \A a \in Att : Present(a)' => Present(a)
    BY <1>7, <1>8, <1>9, PresentStep
  <1>11. row' \subseteq Att /\ stray' \subseteq Att
        /\ \A a \in Att : a \in row' \/ pend[a] # "no" => home[a] # None /\ trash[home[a]] # "gone"
    BY <1>2, <1>3 DEF AttachTypeOK
  <1>12. AttachTypeOK'
    BY <1>1, <1>8, <1>11 DEF AttachTypeOK, people, Noting
  <1> QED
    BY <1>1, <1>8, <1>10, <1>12 DEF Kept

LEMMA DropPendingKept ==
    ASSUME AttachTypeOK, AllSound, NEW r \in Req, DropPending(r)
    PROVE  Kept
  <1>1. req[r].att \in Att
    BY DEF DropPending, At, AllSound, Sound, FileStages
  <1>2. req' \in [Req -> Handler] /\ AllSound'
        /\ \A s \in Req : req'[s] = IF s = r THEN Idle ELSE req[s]
    BY FinishStep DEF DropPending
  <1>3. \A a \in Att : a \in row' \/ pend'[a] # "no" => a \in row \/ pend[a] # "no"
    BY <1>1 DEF DropPending, AttachTypeOK
  <1>4. Idle.stage \notin CarriedStages
    BY DEF Idle, CarriedStages
  <1>5. \A a \in Att : Present(a)' => Present(a)
    BY <1>2, <1>3, <1>4, PresentStep DEF Present
  <1>6. pend' \in [Att -> {"no", "new", "old"}]
    BY <1>1 DEF DropPending, AttachTypeOK
  <1>7. AttachTypeOK'
    BY <1>2, <1>3, <1>6 DEF AttachTypeOK, DropPending, people, history
  <1> QED
    BY <1>2, <1>5, <1>7 DEF Kept, DropPending

LEMMA PutKept ==
    ASSUME AttachTypeOK, AllSound, NEW r \in Req, Put(r)
    PROVE  Kept
  <1>1. /\ Sound(req[r]) /\ req[r].stage = "put" /\ home' = home /\ row' = row /\ pend' = pend
        /\ UNCHANGED <<tables, link, cron, could, lost, untold, excused>>
    BY DEF Put, At, AllSound, tables
  <1>2. req[r].att \in Att /\ home[req[r].att] # None
    BY <1>1 DEF Sound, FileStages
  <1>3. PICK stage \in {"touch", "finalize", "cleanUp"} : Proceed(r, stage)
    BY DEF Put
  <1>4. stage \in Stage /\ stage \notin {"idle", "access", "cipher"}
    BY <1>3 DEF Stage
  <1>5. req' \in [Req -> Handler] /\ AllSound'
        /\ \A s \in Req : req'[s] = IF s = r THEN [req[r] EXCEPT !.stage = stage] ELSE req[s]
    BY <1>1, <1>2, <1>3, <1>4, ProceedStep DEF At
  <1> DEFINE g == [req[r] EXCEPT !.stage = stage]
  <1>6. g.att = req[r].att
    BY DEF AttachTypeOK, Handler
  <1>7. req[r].stage \in CarriedStages
    BY <1>1 DEF CarriedStages
  <1> HIDE DEF g
  <1>8. \A a \in Att : Present(a)' => Present(a)
    BY <1>1, <1>5, <1>6, <1>7, QuietStep DEF g
  <1>9. object' \subseteq Att /\ stray' \subseteq Att
    BY <1>2 DEF Put, AttachTypeOK
  <1>10. AttachTypeOK'
    BY <1>1, <1>5, <1>9 DEF AttachTypeOK, tables
  <1> QED
    BY <1>1, <1>5, <1>8, <1>10 DEF Kept

LEMMA CleanUpKept ==
    ASSUME AttachTypeOK, AllSound, NEW r \in Req, CleanUp(r)
    PROVE  Kept
  <1>1. /\ home' = home /\ row' = row /\ pend' = pend /\ Finish(r) /\ req[r].att \in Att
        /\ UNCHANGED <<tables, link, cron, could, stray, untold, excused>>
    BY DEF CleanUp, tables, At, AllSound, Sound, FileStages
  <1>2. req' \in [Req -> Handler] /\ AllSound'
        /\ \A s \in Req : req'[s] = IF s = r THEN Idle ELSE req[s]
    BY <1>1, FinishStep
  <1>3. Idle.stage \notin CarriedStages
    BY DEF Idle, CarriedStages
  <1>4. \A a \in Att : Present(a)' => Present(a)
    BY <1>1, <1>2, <1>3, QuietStep
  <1>5. object' \subseteq Att /\ lost' \subseteq Att
    BY <1>1 DEF CleanUp, AttachTypeOK
  <1>6. AttachTypeOK'
    BY <1>1, <1>2, <1>5 DEF AttachTypeOK, tables
  <1> QED
    BY <1>1, <1>2, <1>4, <1>6 DEF Kept

LEMMA FinalizeKept ==
    ASSUME AttachTypeOK, AllSound, NEW r \in Req, Finalize(r)
    PROVE  Kept
  <1> DEFINE a == req[r].att
             g == [req[r] EXCEPT !.stage = "touch"]
  <1>1. /\ req[r] \in Handler /\ Sound(req[r]) /\ req[r].stage = "finalize" /\ home' = home
        /\ UNCHANGED <<people, trash, home, object, link, cron, could, lost, excused>> /\ Noting
    BY DEF Finalize, At, AllSound, AttachTypeOK
  <1>2. a \in Att /\ home[a] # None
    BY <1>1 DEF Sound, FileStages
  <1>3. \/ Goto(r, Idle) /\ row' = row /\ pend' = pend
        \/ /\ trash[home[a]] # "gone" /\ Goto(r, g)
           /\ row' = row \cup {a} /\ pend' = [pend EXCEPT ![a] = "no"]
    BY DEF Finalize, Finish, Proceed
  <1>4. g \in Handler /\ Sound(g) /\ g.stage \notin CarriedStages
    BY <1>1, <1>2 DEF Handler, Stage, Sound, FileStages, CarriedStages
  <1>5. Idle.stage \notin CarriedStages
    BY DEF Idle, CarriedStages
  <1> HIDE DEF g
  <1>6. PICK k \in Handler : Goto(r, k) /\ Sound(k) /\ k.stage \notin CarriedStages
    BY <1>3, <1>4, <1>5, IdleSound
  <1>7. req' \in [Req -> Handler] /\ AllSound'
        /\ \A s \in Req : req'[s] = IF s = r THEN k ELSE req[s]
    BY <1>1, <1>6, HandlerStep
  <1>8. \A b \in Att : b \in row' \/ pend'[b] # "no" => b = a \/ b \in row \/ pend[b] # "no"
    BY <1>2, <1>3 DEF AttachTypeOK
  <1>9. Present(a)
    BY <1>1 DEF Present, CarriedStages
  <1>10. \A b \in Att : b \in row' \/ pend'[b] # "no" => Present(b)
    BY <1>8, <1>9 DEF Present
  <1>11. \A b \in Att : Present(b)' => Present(b)
    BY <1>6, <1>7, <1>10, PresentStep
  <1>12. row' \subseteq Att /\ pend' \in [Att -> {"no", "new", "old"}]
        /\ \A b \in Att : b \in row' \/ pend'[b] # "no" => home[b] # None /\ trash[home[b]] # "gone"
    BY <1>2, <1>3, <1>8 DEF AttachTypeOK
  <1>13. stray' \subseteq Att
    BY <1>2 DEF AttachTypeOK, Finalize
  <1>14. AttachTypeOK'
    BY <1>1, <1>7, <1>12, <1>13 DEF AttachTypeOK, people, Noting
  <1> QED
    BY <1>1, <1>7, <1>11, <1>14 DEF Kept

-----------------------------------------------------------------------------
\* Removals

LEMMA ListKeysKept ==
    ASSUME AttachTypeOK, AllSound, NEW r \in Req, ListKeys(r)
    PROVE  Kept
  <1> DEFINE h == req[r]
             keys == {a \in row : home[a] \in (IF h.route = "hardDelete" THEN h.cs ELSE Personal(h.user))}
             g == [h EXCEPT !.files = keys, !.left = keys, !.stage = "objects"]
  <1>1. h \in Handler /\ Sound(h) /\ h.stage = "list" /\ Query /\ Goto(r, g)
    BY DEF ListKeys, At, AllSound, AttachTypeOK
  <1>2. keys \subseteq Att
    BY DEF AttachTypeOK
  <1> HIDE DEF keys
  <1>3. g \in Handler /\ Sound(g) /\ g.stage \notin CarriedStages
    BY <1>1, <1>2 DEF Handler, Stage, Sound, FileStages, CarriedStages
  <1> HIDE DEF g
  <1> QED
    BY <1>1, <1>3, QueryStep

LEMMA RemoveObjectKept ==
    ASSUME AttachTypeOK, AllSound, NEW r \in Req, RemoveObject(r)
    PROVE  Kept
  <1> DEFINE h == req[r]
  <1>1. /\ h \in Handler /\ Sound(h) /\ h.stage = "objects"
        /\ home' = home /\ row' = row /\ pend' = pend
        /\ UNCHANGED <<tables, link, cron, could, stray, untold, excused>>
    BY DEF RemoveObject, At, AllSound, AttachTypeOK, tables
  <1>2. PICK a \in h.left : /\ object' = object \ {a}
                            /\ lost' = IF Awaited(a) THEN lost \cup {a} ELSE lost
                            /\ Goto(r, [h EXCEPT !.left = @ \ {a}])
    BY DEF RemoveObject
  <1> DEFINE g == [h EXCEPT !.left = @ \ {a}]
  <1>3. g \in Handler /\ Sound(g) /\ g.stage \notin CarriedStages /\ a \in Att
    BY <1>1 DEF Handler, Sound, FileStages, CarriedStages
  <1> HIDE DEF g
  <1>4. Goto(r, g)
    BY <1>2 DEF g
  <1>5. req' \in [Req -> Handler] /\ AllSound'
        /\ \A s \in Req : req'[s] = IF s = r THEN g ELSE req[s]
    BY <1>1, <1>3, <1>4, HandlerStep
  <1>6. \A b \in Att : Present(b)' => Present(b)
    BY <1>1, <1>3, <1>5, QuietStep
  <1>7. object' \subseteq Att /\ lost' \subseteq Att
    BY <1>2, <1>3 DEF AttachTypeOK
  <1>8. AttachTypeOK'
    BY <1>1, <1>5, <1>7 DEF AttachTypeOK, tables
  <1> QED
    BY <1>1, <1>5, <1>6, <1>8 DEF Kept

LEMMA RemovedObjectsKept ==
    ASSUME AttachTypeOK, AllSound, NEW r \in Req, RemovedObjects(r)
    PROVE  Kept
  <1> DEFINE stage == CASE req[r].route = "delete" -> "deleteRow"
                        [] req[r].route = "hardDelete" -> "deleteCiphers"
                        [] OTHER -> "deletePersonal"
  <1>1. Sound(req[r]) /\ req[r].stage = "objects" /\ Query /\ Proceed(r, stage)
    BY DEF RemovedObjects, At, AllSound
  <1>2. /\ stage \in {"deleteRow", "deleteCiphers", "deletePersonal"}
        /\ stage = "deleteRow" => req[r].route \in FileRoutes
    BY DEF FileRoutes
  <1>3. stage \in Stage /\ stage \notin CarriedStages /\ stage \notin {"idle", "access", "cipher"}
        /\ (stage \in FileStages => stage = "deleteRow")
    BY <1>2 DEF Stage, CarriedStages, FileStages
  <1>4. stage \in FileStages => req[r].att \in Att /\ home[req[r].att] # None
    BY <1>1, <1>2, <1>3 DEF Sound
  <1> HIDE DEF stage
  <1> QED
    BY <1>1, <1>3, <1>4, QueryProceed DEF At

LEMMA DeleteRowKept ==
    ASSUME AttachTypeOK, AllSound, NEW r \in Req, DeleteRow(r)
    PROVE  Kept
  <1> DEFINE g == [req[r] EXCEPT !.stage = "touch", !.files = {}]
  <1>1. /\ req[r] \in Handler /\ Sound(req[r]) /\ req[r].stage = "deleteRow" /\ home' = home
        /\ Goto(r, g) /\ pend' = pend /\ row' \subseteq row
        /\ UNCHANGED <<people, trash, pend, home, object, link, cron, could, lost, stray, excused>> /\ Noting
    BY DEF DeleteRow, At, AllSound, AttachTypeOK
  <1>2. g \in Handler /\ Sound(g) /\ g.stage \notin CarriedStages
    BY <1>1 DEF Handler, Stage, Sound, FileStages, CarriedStages
  <1> HIDE DEF g
  <1>3. req' \in [Req -> Handler] /\ AllSound'
        /\ \A s \in Req : req'[s] = IF s = r THEN g ELSE req[s]
    BY <1>1, <1>2, HandlerStep
  <1>4. \A a \in Att : Present(a)' => Present(a)
    BY <1>1, <1>2, <1>3, PresentStep DEF Present
  <1>5. AttachTypeOK'
    BY <1>1, <1>3 DEF AttachTypeOK, people, Noting
  <1> QED
    BY <1>1, <1>3, <1>4, <1>5 DEF Kept

\* A deletion of ciphers takes the rows of their files and of no others.
LEMMA WithoutCiphersTypes ==
    ASSUME AttachTypeOK, NEW cs \in SUBSET Cipher, WithoutCiphers(cs), home' = home
    PROVE  /\ trash' \in [Cipher -> {"no", "trash", "old", "gone"}]
           /\ row' \subseteq Att
           /\ pend' \in [Att -> {"no", "new", "old"}]
           /\ \A a \in Att : a \in row' \/ pend'[a] # "no" =>
                 /\ a \in row \/ pend[a] # "no"
                 /\ home'[a] # None /\ trash'[home'[a]] # "gone"
  <1>1. /\ trash' = [c \in Cipher |-> IF c \in cs THEN "gone" ELSE trash[c]]
        /\ row' = {a \in row : home[a] \notin cs}
        /\ pend' = [a \in Att |-> IF home[a] \in cs THEN "no" ELSE pend[a]]
    BY DEF WithoutCiphers
  <1>2. trash' \in [Cipher -> {"no", "trash", "old", "gone"}] /\ row' \subseteq Att
        /\ pend' \in [Att -> {"no", "new", "old"}]
    BY <1>1 DEF AttachTypeOK
  <1>3. ASSUME NEW a \in Att, a \in row' \/ pend'[a] # "no"
        PROVE  (a \in row \/ pend[a] # "no") /\ home'[a] # None /\ trash'[home'[a]] # "gone"
    <2>1. (a \in row \/ pend[a] # "no") /\ home[a] \notin cs
      BY <1>1, <1>3
    <2>2. home[a] \in Cipher /\ home[a] # None /\ trash[home[a]] # "gone"
      BY <2>1 DEF AttachTypeOK
    <2> QED
      BY <1>1, <2>1, <2>2
  <1> QED
    BY <1>2, <1>3

LEMMA DeleteCiphersKept ==
    ASSUME AttachTypeOK, AllSound, NEW r \in Req, DeleteCiphers(r)
    PROVE  Kept
  <1> DEFINE h == req[r]
             cs == IF h.route = "hardDelete" THEN h.cs ELSE Personal(h.user)
             g == [h EXCEPT !.stage = IF h.route = "deleteAccount" THEN "dropMember" ELSE "touch",
                            !.files = {}]
  <1>1. /\ h \in Handler /\ Sound(h) /\ h.stage \in {"deleteCiphers", "deletePersonal"}
        /\ Goto(r, g) /\ WithoutCiphers(cs) /\ home' = home
        /\ UNCHANGED <<people, home, object, link, cron, could, lost, stray, excused>> /\ Noting
    BY DEF DeleteCiphers, AllSound, AttachTypeOK
  <1>2. g \in Handler /\ Sound(g) /\ g.stage \notin CarriedStages
    BY <1>1 DEF Handler, Stage, Sound, FileStages, CarriedStages
  <1>3. cs \in SUBSET Cipher
    BY <1>1 DEF Personal, Handler
  <1> HIDE DEF g, cs
  <1>4. req' \in [Req -> Handler] /\ AllSound'
        /\ \A s \in Req : req'[s] = IF s = r THEN g ELSE req[s]
    BY <1>1, <1>2, HandlerStep
  <1>5. \A a \in Att : Present(a)' => Present(a)
    BY <1>1, <1>2, <1>3, <1>4, WithoutCiphersTypes, PresentStep DEF Present
  <1>6. AttachTypeOK'
    BY <1>1, <1>3, <1>4, WithoutCiphersTypes DEF AttachTypeOK, people, Noting
  <1> QED
    BY <1>1, <1>4, <1>5, <1>6 DEF Kept

LEMMA DropMemberKept ==
    ASSUME AttachTypeOK, AllSound, NEW r \in Req, DropMember(r)
    PROVE  Kept
  <1>1. /\ Sound(req[r]) /\ req[r].stage = "dropMember"
        /\ home' = home /\ row' = row /\ pend' = pend /\ Proceed(r, "account")
        /\ UNCHANGED <<load, account, trash, row, pend, home, object, link, cron, history>>
    BY DEF DropMember, At, AllSound
  <1>2. "account" \in Stage /\ "account" \notin CarriedStages /\ "account" \notin FileStages
    BY DEF Stage, CarriedStages, FileStages
  <1>3. req' \in [Req -> Handler] /\ AllSound'
        /\ \A s \in Req : req'[s] = IF s = r THEN [req[r] EXCEPT !.stage = "account"] ELSE req[s]
    BY <1>1, <1>2, ProceedStep DEF At
  <1> DEFINE g == [req[r] EXCEPT !.stage = "account"]
  <1>4. g.stage \notin CarriedStages
    BY <1>2 DEF AttachTypeOK, Handler
  <1> HIDE DEF g
  <1>5. \A a \in Att : Present(a)' => Present(a)
    BY <1>1, <1>3, <1>4, QuietStep DEF g
  <1>6. member' \in [User -> {"no", "read", "write"}]
    BY DEF DropMember, AttachTypeOK
  <1>7. AttachTypeOK'
    BY <1>1, <1>3, <1>6 DEF AttachTypeOK, history
  <1> QED
    BY <1>1, <1>3, <1>5, <1>7 DEF Kept

LEMMA DeleteAccountKept ==
    ASSUME AttachTypeOK, AllSound, NEW r \in Req, DeleteAccount(r)
    PROVE  Kept
  <1> DEFINE u == req[r].user
             cs == {c \in Cipher : Creator[c] = u}
  <1>1. /\ Finish(r) /\ WithoutCiphers(cs) /\ home' = home
        /\ account' = account \ {u} /\ untold' = untold \ {u}
        /\ stray' = stray \cup {a \in Att : home[a] \in cs} /\ excused' = excused \cup {"cascade"}
        /\ UNCHANGED <<load, member, home, object, link, cron, could, lost>>
    BY DEF DeleteAccount
  <1>2. cs \in SUBSET Cipher
    OBVIOUS
  <1> HIDE DEF cs
  <1>3. req' \in [Req -> Handler] /\ AllSound'
        /\ \A s \in Req : req'[s] = IF s = r THEN Idle ELSE req[s]
    BY <1>1, FinishStep
  <1>4. Idle.stage \notin CarriedStages
    BY DEF Idle, CarriedStages
  <1>5. \A a \in Att : Present(a)' => Present(a)
    BY <1>1, <1>2, <1>3, <1>4, WithoutCiphersTypes, PresentStep DEF Present
  <1>6. AttachTypeOK'
    BY <1>1, <1>2, <1>3, WithoutCiphersTypes DEF AttachTypeOK
  <1> QED
    BY <1>1, <1>3, <1>5, <1>6 DEF Kept

LEMMA TouchKept ==
    ASSUME AttachTypeOK, AllSound, NEW r \in Req, Touch(r)
    PROVE  Kept
  <1>1. /\ Finish(r) /\ home' = home /\ row' = row /\ pend' = pend /\ untold' \subseteq untold
        /\ UNCHANGED <<tables, object, link, cron, could, lost, stray, excused>>
    BY DEF Touch, tables
  <1>2. req' \in [Req -> Handler] /\ AllSound'
        /\ \A s \in Req : req'[s] = IF s = r THEN Idle ELSE req[s]
    BY <1>1, FinishStep
  <1>3. Idle.stage \notin CarriedStages
    BY DEF Idle, CarriedStages
  <1>4. \A a \in Att : Present(a)' => Present(a)
    BY <1>1, <1>2, <1>3, QuietStep
  <1>5. AttachTypeOK'
    BY <1>1, <1>2 DEF AttachTypeOK, tables
  <1> QED
    BY <1>1, <1>2, <1>4, <1>5 DEF Kept

LEMMA DieKept ==
    ASSUME AttachTypeOK, AllSound, NEW r \in Req, Die(r)
    PROVE  Kept
  <1> DEFINE h == req[r]
  <1>1. /\ h \in Handler /\ Sound(h)
        /\ Finish(r) /\ home' = home /\ row' = row /\ pend' = pend
        /\ UNCHANGED <<tables, object, link, cron, could, untold>>
    BY DEF Die, tables, AttachTypeOK, AllSound
  <1>2. req' \in [Req -> Handler] /\ AllSound'
        /\ \A s \in Req : req'[s] = IF s = r THEN Idle ELSE req[s]
    BY <1>1, FinishStep
  <1>3. Idle.stage \notin CarriedStages
    BY DEF Idle, CarriedStages
  <1>4. \A a \in Att : Present(a)' => Present(a)
    BY <1>1, <1>2, <1>3, QuietStep
  <1>5. h.stage \in {"put", "finalize", "cleanUp"} => h.att \in Att
    BY <1>1 DEF Sound, FileStages
  <1>6. lost' \in {lost, lost \cup h.files} \/ (h.stage = "put" /\ lost' = lost \cup {h.att})
    BY DEF Die
  <1>7. lost' \subseteq Att
    BY <1>1, <1>5, <1>6 DEF AttachTypeOK, Handler
  <1>8. stray' \subseteq Att /\ excused' \subseteq {"died", "cascade", "purge"}
    BY <1>5 DEF Die, AttachTypeOK
  <1>9. AttachTypeOK'
    BY <1>1, <1>2, <1>7, <1>8 DEF AttachTypeOK, tables
  <1> QED
    BY <1>1, <1>2, <1>4, <1>9 DEF Kept

-----------------------------------------------------------------------------
\* Other changes, and the purge

\* A step of no handler.
LEMMA AsideStep ==
    ASSUME AllSound, req' = req, home' = home, AttachTypeOK',
           \A a \in Att : a \in row' \/ pend'[a] # "no" => a \in row \/ pend[a] # "no"
    PROVE  Kept
  BY DEF Kept, AllSound, Sound, Present

LEMMA PassingKept ==
    ASSUME AttachTypeOK, AllSound, Passing
    PROVE  Kept
  <1>1. ASSUME NEW c \in Cipher, Trash(c)
        PROVE  Kept
    <2>1. /\ req' = req /\ home' = home /\ row' = row /\ pend' = pend
          /\ trash' \in [Cipher -> {"no", "trash", "old", "gone"}]
          /\ \A d \in Cipher : trash'[d] = "gone" => trash[d] = "gone"
          /\ lost' \subseteq Att
          /\ UNCHANGED <<people, row, pend, home, object, link, req, cron, could, stray, untold, excused>>
      BY <1>1 DEF Trash, AttachTypeOK
    <2>2. AttachTypeOK'
      BY <2>1 DEF AttachTypeOK, people
    <2> QED
      BY <2>1, <2>2, AsideStep
  <1>2. ASSUME NEW c \in Cipher, AgeTrash(c)
        PROVE  Kept
    <2>1. /\ req' = req /\ home' = home /\ row' = row /\ pend' = pend
          /\ trash' \in [Cipher -> {"no", "trash", "old", "gone"}]
          /\ \A d \in Cipher : trash'[d] = "gone" => trash[d] = "gone"
          /\ UNCHANGED <<people, row, pend, home, object, link, req, cron, history>>
      BY <1>2 DEF AgeTrash, AttachTypeOK
    <2>2. AttachTypeOK'
      BY <2>1 DEF AttachTypeOK, people, history
    <2> QED
      BY <2>1, <2>2, AsideStep
  <1>3. ASSUME NEW u \in User, Leave(u)
        PROVE  Kept
    <2>1. /\ req' = req /\ home' = home /\ row' = row /\ pend' = pend
          /\ member' \in [User -> {"no", "read", "write"}] /\ untold' \subseteq untold
          /\ UNCHANGED <<load, account, trash, row, pend, home, object, link, req, cron, could, lost,
                          stray, excused>>
      BY <1>3 DEF Leave, AttachTypeOK
    <2>2. AttachTypeOK'
      BY <2>1 DEF AttachTypeOK
    <2> QED
      BY <2>1, <2>2, AsideStep
  <1>4. ASSUME NEW l \in link, Expire(l)
        PROVE  Kept
    <2>1. /\ req' = req /\ home' = home /\ row' = row /\ pend' = pend /\ link' \subseteq link
          /\ UNCHANGED <<tables, object, req, cron, history>>
      BY <1>4 DEF Expire, tables
    <2>2. AttachTypeOK'
      BY <2>1 DEF AttachTypeOK, tables, history
    <2> QED
      BY <2>1, <2>2, AsideStep
  <1>5. ASSUME NEW a \in Att, AgePending(a)
        PROVE  Kept
    <2>1. /\ req' = req /\ home' = home /\ row' = row
          /\ pend' \in [Att -> {"no", "new", "old"}]
          /\ \A b \in Att : pend'[b] # "no" => pend[b] # "no"
          /\ UNCHANGED <<people, trash, row, home, object, link, req, cron, history>>
      BY <1>5 DEF AgePending, AttachTypeOK
    <2>2. AttachTypeOK'
      BY <2>1 DEF AttachTypeOK, people, history
    <2> QED
      BY <2>1, <2>2, AsideStep
  <1> QED
    BY <1>1, <1>2, <1>3, <1>4, <1>5 DEF Passing

\* The purge, when it changes no table.
LEMMA CronStep ==
    ASSUME AttachTypeOK, AllSound, UNCHANGED <<tables, req, link, could, stray>>,
           object' \subseteq Att, lost' \subseteq Att, untold' \subseteq User,
           excused' \subseteq {"died", "cascade", "purge"},
           cron' \in [stage : CronStage, files : SUBSET Att, left : SUBSET Att, users : SUBSET User]
    PROVE  Kept
  <1>1. AttachTypeOK' /\ req' = req /\ home' = home /\ row' = row /\ pend' = pend
    BY DEF AttachTypeOK, tables
  <1> QED
    BY <1>1, AsideStep

LEMMA CronKept ==
    ASSUME AttachTypeOK, AllSound, Purging \/ CronDie
    PROVE  Kept
  <1> DEFINE Cron == [stage : CronStage, files : SUBSET Att, left : SUBSET Att, users : SUBSET User]
  <1>1. cron \in Cron
    BY DEF AttachTypeOK
  <1>2. \A stage \in CronStage : CronGo(stage) => cron' \in Cron
    BY <1>1 DEF CronGo
  <1>3. CronIdle \in Cron
    BY DEF CronIdle, CronStage
  <1>4. {"pendingCount", "pendingDelete", "users", "count", "list", "objects", "delete", "touch"} \subseteq CronStage
    BY DEF CronStage
  <1>5. ASSUME CronStart \/ CronPendingCount \/ CronUsers \/ CronCount \/ CronList \/ CronObjects
        PROVE  Kept
    <2>1. UNCHANGED <<tables, object, link, req, history>>
      BY <1>5 DEF CronStart, CronPendingCount, CronUsers, CronCount, CronList, CronObjects
    <2>2. ASSUME CronStart \/ CronPendingCount \/ CronCount \/ CronObjects PROVE cron' \in Cron
      BY <1>2, <1>3, <1>4, <2>2 DEF CronStart, CronPendingCount, CronCount, CronObjects
    <2>3. ASSUME CronUsers PROVE cron' \in Cron
      <3>1. {Creator[c] : c \in OldTrash} \subseteq User
        BY CipherAssumption DEF OldTrash
      <3> QED
        BY <1>1, <1>4, <2>3, <3>1 DEF CronUsers
    <2>4. ASSUME CronList PROVE cron' \in Cron
      <3>1. {a \in row : home[a] \in OldTrash} \subseteq Att
        BY DEF AttachTypeOK
      <3> QED
        BY <1>1, <1>4, <2>4, <3>1 DEF CronList
    <2>5. cron' \in Cron
      BY <1>5, <2>2, <2>3, <2>4
    <2> QED
      BY <2>1, <2>5, CronStep DEF history, AttachTypeOK
  <1>6. ASSUME CronPendingDelete
        PROVE  Kept
    <2>1. cron' \in Cron
      BY <1>2, <1>4, <1>6 DEF CronPendingDelete
    <2>2. pend' \in [Att -> {"no", "new", "old"}] /\ \A a \in Att : pend'[a] # "no" => pend[a] # "no"
      BY <1>6 DEF CronPendingDelete, AttachTypeOK
    <2>3. AttachTypeOK' /\ req' = req /\ home' = home /\ row' = row
      BY <1>6, <2>1, <2>2 DEF CronPendingDelete, AttachTypeOK, people, history
    <2> QED
      BY <2>2, <2>3, AsideStep
  <1>7. ASSUME CronObject
        PROVE  Kept
    <2>1. PICK a \in cron.left : /\ object' = object \ {a}
                                 /\ lost' = IF Awaited(a) THEN lost \cup {a} ELSE lost
                                 /\ cron' = [cron EXCEPT !.left = @ \ {a}]
      BY <1>7 DEF CronObject
    <2>2. a \in Att /\ cron' \in Cron
      BY <1>1, <2>1
    <2> QED
      BY <1>7, <2>1, <2>2, CronStep DEF CronObject, AttachTypeOK
  <1>8. ASSUME CronDelete
        PROVE  Kept
    <2>1. cron' \in Cron
      BY <1>1, <1>4, <1>8 DEF CronDelete
    <2>2. OldTrash \in SUBSET Cipher /\ WithoutCiphers(OldTrash) /\ home' = home
      BY <1>8 DEF CronDelete, OldTrash
    <2>3. /\ UNCHANGED <<people, home, object, link, req, could, lost, stray>> /\ Noting
          /\ excused' \subseteq {"died", "cascade", "purge"}
      BY <1>8 DEF CronDelete, AttachTypeOK
    <2>4. AttachTypeOK'
      BY <2>1, <2>2, <2>3, WithoutCiphersTypes DEF AttachTypeOK, people, Noting
    <2> QED
      BY <2>2, <2>3, <2>4, WithoutCiphersTypes, AsideStep
  <1>9. ASSUME CronTouch
        PROVE  Kept
    <2>1. PICK u \in cron.users :
             /\ untold' = untold \ {u}
             /\ cron' = IF cron.users = {u} THEN CronIdle ELSE [cron EXCEPT !.users = @ \ {u}]
      BY <1>9 DEF CronTouch
    <2>2. cron' \in Cron
      BY <1>1, <1>3, <2>1
    <2> QED
      BY <1>9, <2>1, <2>2, CronStep DEF CronTouch, AttachTypeOK
  <1>10. ASSUME CronDie
         PROVE  Kept
    <2>1. cron' \in Cron /\ lost' = lost \cup cron.files
          /\ excused' \subseteq {"died", "cascade", "purge"}
          /\ UNCHANGED <<tables, object, link, req, could, stray, untold>>
      BY <1>3, <1>10 DEF CronDie, AttachTypeOK
    <2> QED
      BY <1>1, <2>1, CronStep DEF AttachTypeOK
  <1> QED
    BY <1>5, <1>6, <1>7, <1>8, <1>9, <1>10 DEF Purging

-----------------------------------------------------------------------------
\* The one step that draws an id

LEMMA LimitsSound ==
    ASSUME AttachTypeOK, AllSound, NEW r \in Req, Limits(r)
    PROVE  \/ Kept
           \/ \E a \in Att, c \in Cipher :
                /\ AttachTypeOK' /\ AllSound'
                /\ home[a] = None /\ home' = [home EXCEPT ![a] = c] /\ row' = row /\ pend' = pend
                /\ WithinLimit(req[r].user)
                /\ c \in Shared \/ Creator[c] = req[r].user
                /\ \A s \in Req \ {r} : req'[s] = req[s]
                /\ req'[r].att = a
  <1> DEFINE h == req[r]
  <1>1. /\ h \in Handler /\ Sound(h) /\ h.stage = "limits" /\ h.vet = {} /\ h.user \in User
        /\ UNCHANGED <<people, trash, row, pend, object, link, cron, history>>
    BY DEF Limits, At, AllSound, AttachTypeOK, Sound
  <1>2. CASE ~WithinLimit(h.user)
    <2>1. Finish(r) /\ Query
      BY <1>1, <1>2 DEF Limits, Query, tables, people
    <2> QED
      BY <2>1, QueryFinish
  <1>3. CASE WithinLimit(h.user)
    <2>1. PICK a \in Att :
             /\ home[a] = None
             /\ \E c \in h.cs : home' = [home EXCEPT ![a] = c]
             /\ Goto(r, [h EXCEPT !.att = a,
                            !.stage = IF h.route = "create" THEN "insertPending" ELSE "insertRow"])
      BY <1>3 DEF Limits
    <2>2. PICK c \in h.cs : home' = [home EXCEPT ![a] = c]
      BY <2>1
    <2> DEFINE g == [h EXCEPT !.att = a,
                       !.stage = IF h.route = "create" THEN "insertPending" ELSE "insertRow"]
    <2>3. c \in Cipher /\ c # None /\ (c \in Shared \/ Creator[c] = h.user)
      BY <1>1, AttachNoneAssumption DEF Sound, Handler
    <2>4. home' \in [Att -> Cipher \cup {None}] /\ home'[a] = c
          /\ \A b \in Att : home[b] # None => home'[b] = home[b]
      BY <2>1, <2>2, <2>3 DEF AttachTypeOK
    <2>5. g \in Handler /\ g.att = a /\ g.user = h.user /\ g.cs = h.cs /\ g.vet = h.vet /\ g.route = h.route
          /\ g.stage \in {"insertPending", "insertRow"}
      BY <1>1 DEF Handler, Stage
    <2> HIDE DEF g
    <2>6. req' = [req EXCEPT ![r] = g] /\ req' \in [Req -> Handler] /\ req'[r] = g
          /\ \A s \in Req \ {r} : req'[s] = req[s]
      BY <2>1, <2>5 DEF Goto, AttachTypeOK, g
    <2>7. ASSUME NEW s \in Req
          PROVE  Sound(req[s])'
      <3>1. CASE s = r
        BY <1>1, <2>3, <2>4, <2>5, <2>6, <3>1 DEF Sound
      <3>2. CASE s # r
        BY <2>4, <2>6, <3>2 DEF Sound, AllSound
      <3> QED
        BY <3>1, <3>2
    <2>8. AttachTypeOK'
      <3>1. \A b \in Att : b \in row \/ pend[b] # "no" => home'[b] # None /\ trash[home'[b]] # "gone"
        BY <2>4 DEF AttachTypeOK
      <3>2. \A l \in link : home'[l[2]] # None
        BY <2>4 DEF AttachTypeOK
      <3> QED
        BY <1>1, <2>4, <2>6, <3>1, <3>2 DEF AttachTypeOK, people, history
    <2> QED
      BY <1>1, <1>3, <2>1, <2>2, <2>3, <2>5, <2>6, <2>7, <2>8 DEF AllSound
  <1> QED
    BY <1>2, <1>3

\* Every step keeps the types.
LEMMA AttachStepSound ==
    ASSUME AttachTypeOK, AllSound, [AttachNext]_attachVars
    PROVE  AttachTypeOK' /\ AllSound' /\ (Kept \/ \E r \in Req : Limits(r))
  <1>1. ASSUME NEW r \in Req, Requests(r)
        PROVE  Kept
    <2>1. \A cs : cs \in SUBSET load.ciphers => cs \in SUBSET Cipher
      BY AttachWorkloads DEF AttachTypeOK, Workload
    <2>2. load.ciphers \subseteq Cipher
      BY <2>1
    <2> QED
      BY <1>1, <2>1, <2>2, StartUploadKept, StartFileKept, StartLinkKept, StartHardDeleteKept, StartPurgeKept
      DEF Requests
  <1>2. ASSUME NEW r \in Req, Handling(r), ~Limits(r)
        PROVE  Kept
    BY <1>2, AccessKept, FetchCipherKept, FetchPendingKept, FetchAttachmentKept, ReadKept, InsertPendingKept,
       InsertRowKept, DropPendingKept, PutKept, CleanUpKept, FinalizeKept, ListKeysKept, RemoveObjectKept,
       RemovedObjectsKept, DeleteRowKept, DeleteCiphersKept, DropMemberKept, DeleteAccountKept, TouchKept
    DEF Handling
  <1>3. ASSUME UNCHANGED attachVars
        PROVE  Kept
    BY <1>3 DEF attachVars, Kept, AttachTypeOK, AllSound, Sound, Present
  <1>4. Kept \/ \E r \in Req : Limits(r)
    BY <1>1, <1>2, <1>3, DieKept, PassingKept, CronKept DEF AttachNext
  <1> QED
    BY <1>4, LimitsSound DEF Kept

\* Whatever is asked, and whenever handlers die or the purge runs, the tables, the store
\* and the handlers keep their types; no file has a row without a cipher that is there.
THEOREM AttachTypeCorrect == AttachSpec => []AttachTypeOK
  <1>1. AttachInit => AttachTypeOK /\ AllSound
    <2> SUFFICES ASSUME AttachInit PROVE AttachTypeOK /\ AllSound
      OBVIOUS
    <2>1. AttachTypeOK
      BY MemberAssumption, IdleSound DEF AttachInit, AttachTypeOK, CronIdle, CronStage
    <2>2. AllSound
      BY IdleSound DEF AttachInit, AllSound
    <2> QED
      BY <2>1, <2>2
  <1>2. AttachTypeOK /\ AllSound /\ [AttachNext]_attachVars => AttachTypeOK' /\ AllSound'
    BY AttachStepSound
  <1> QED
    BY <1>1, <1>2, PTL DEF AttachSpec

-----------------------------------------------------------------------------
\* The limit

LEMMA HeldPresent == \A u \in User : Held(u) = {a \in Att : home[a] \in Personal(u) /\ Present(a)}
  BY DEF Held, Present, CarriedStages

LEMMA HeldFinite == \A u \in User : IsFiniteSet(Held(u)) /\ Cardinality(Held(u)) \in Nat
  <1>1. \A u \in User : Held(u) \in SUBSET Att
    BY DEF Held
  <1> QED
    BY <1>1, AttachFinite, FS_Subset, FS_CardinalityType

\* The files with a row on the personal ciphers of u count towards its usage.
LEMMA UsageCounts ==
    ASSUME AttachTypeOK, NEW u \in User, WithinLimit(u)
    PROVE  LET P == {a \in Att : home[a] \in Personal(u) /\ (a \in row \/ pend[a] # "no")}
           IN  IsFiniteSet(P) /\ Cardinality(P) \in Nat /\ Cardinality(P) + 1 <= Limit
  <1> DEFINE P == {a \in Att : home[a] \in Personal(u) /\ (a \in row \/ pend[a] # "no")}
             A == {a \in row : Creator[home[a]] = u}
             B == {a \in Att : pend[a] # "no" /\ Creator[home[a]] = u}
  <1>1. A \in SUBSET Att /\ B \in SUBSET Att /\ P \in SUBSET (A \cup B)
    BY DEF AttachTypeOK, Personal
  <1>2. IsFiniteSet(A) /\ IsFiniteSet(B)
    BY <1>1, AttachFinite, FS_Subset
  <1>3. Cardinality(A) + Cardinality(B) + 1 <= Limit
    BY DEF WithinLimit, Usage
  <1> HIDE DEF A, B, P
  <1>4. IsFiniteSet(A \cap B)
    <2>1. A \cap B \in SUBSET A
      OBVIOUS
    <2> QED
      BY <1>2, <2>1, FS_Subset
  <1>5. IsFiniteSet(A \cup B)
        /\ Cardinality(A \cup B) = Cardinality(A) + Cardinality(B) - Cardinality(A \cap B)
    BY <1>2, FS_Union
  <1>6. IsFiniteSet(P) /\ Cardinality(P) <= Cardinality(A \cup B)
    BY <1>1, <1>5, FS_Subset
  <1>7. /\ Cardinality(A) \in Nat /\ Cardinality(B) \in Nat /\ Cardinality(A \cap B) \in Nat
        /\ Cardinality(A \cup B) \in Nat /\ Cardinality(P) \in Nat
    BY <1>2, <1>4, <1>5, <1>6, FS_CardinalityType
  <1>8. Cardinality(P) + 1 <= Limit
    BY <1>3, <1>5, <1>6, <1>7, LimitAssumption
  <1> QED
    BY <1>6, <1>7, <1>8 DEF P

LEMMA QuotaStep ==
    ASSUME AttachTypeOK, AllSound, QuotaOvershoot, [AttachNext]_attachVars
    PROVE  QuotaOvershoot'
  <1> SUFFICES ASSUME NEW u \in User
               PROVE  Cardinality(Held(u)') <= Limit + Cardinality(Req) - 1
    BY DEF QuotaOvershoot
  <1>1. /\ Cardinality(Held(u)) <= Limit + Cardinality(Req) - 1
        /\ IsFiniteSet(Held(u)) /\ Cardinality(Held(u)) \in Nat
        /\ Limit \in Nat /\ Cardinality(Req) \in Nat
    BY HeldFinite, LimitAssumption, AttachFinite, FS_CardinalityType DEF QuotaOvershoot
  <1>2. Held(u)' = {a \in Att : home'[a] \in Personal(u) /\ Present(a)'}
    BY DEF Held, Present, CarriedStages, Personal
  <1>3. ASSUME Held(u)' \in SUBSET Held(u)
        PROVE  Cardinality(Held(u)') <= Limit + Cardinality(Req) - 1
    <2>1. Cardinality(Held(u)') <= Cardinality(Held(u)) /\ IsFiniteSet(Held(u)')
      BY <1>1, <1>3, FS_Subset
    <2>2. Cardinality(Held(u)') \in Nat
      BY <2>1, FS_CardinalityType
    <2> QED
      BY <1>1, <2>1, <2>2
  <1>4. CASE Kept
    BY <1>2, <1>3, <1>4, HeldPresent DEF Kept
  <1>5. ASSUME NEW r \in Req, NEW a \in Att, NEW c \in Cipher,
               home[a] = None, home' = [home EXCEPT ![a] = c], row' = row, pend' = pend,
               WithinLimit(req[r].user), c \in Shared \/ Creator[c] = req[r].user,
               \A s \in Req \ {r} : req'[s] = req[s], req'[r].att = a
        PROVE  Cardinality(Held(u)') <= Limit + Cardinality(Req) - 1
    <2>1. home'[a] = c /\ \A b \in Att \ {a} : home'[b] = home[b]
      BY <1>5 DEF AttachTypeOK
    <2>2. \A b \in Att \ {a} : Present(b)' => Present(b)
      BY <1>5 DEF Present
    <2>3. CASE c \in Shared \/ u # req[r].user
      <3>1. c \notin Personal(u)
        BY <1>5, <2>3 DEF Personal
      <3>2. Held(u)' \in SUBSET Held(u)
        BY <1>2, <2>1, <2>2, <3>1, HeldPresent
      <3> QED
        BY <1>3, <3>2
    <2>4. CASE u = req[r].user
      <3> DEFINE P == {b \in Att : home[b] \in Personal(u) /\ (b \in row \/ pend[b] # "no")}
                 Q == {req'[s].att : s \in Req}
      <3>1. IsFiniteSet(P) /\ Cardinality(P) \in Nat /\ Cardinality(P) + 1 <= Limit
        BY <1>5, <2>4, UsageCounts
      <3>2. IsFiniteSet(Q) /\ Cardinality(Q) \in Nat /\ Cardinality(Q) <= Cardinality(Req)
        <4> DEFINE f == [s \in Req |-> req'[s].att]
        <4>1. f \in Surjection(Req, Q)
          BY DEF Surjection
        <4> HIDE DEF f, Q
        <4>2. IsFiniteSet(Q) /\ Cardinality(Q) <= Cardinality(Req)
          BY <4>1, AttachFinite, FS_Surjection
        <4> QED
          BY <4>2, FS_CardinalityType
      <3>3. Held(u)' \in SUBSET (P \cup Q)
        <4>1. ASSUME NEW b \in Held(u)'
              PROVE  b \in P \cup Q
          <5>1. b \in Att /\ home'[b] \in Personal(u) /\ Present(b)'
            BY <1>2, <4>1
          <5>2. CASE b \in row \/ pend[b] # "no"
            BY <1>5, <2>1, <5>1, <5>2 DEF AttachTypeOK
          <5>3. CASE ~(b \in row \/ pend[b] # "no")
            BY <1>5, <5>1, <5>3 DEF Present
          <5> QED
            BY <5>2, <5>3
        <4> QED
          BY <4>1
      <3> HIDE DEF P, Q
      <3>4. IsFiniteSet(P \cap Q)
        <4>1. P \cap Q \in SUBSET P
          OBVIOUS
        <4> QED
          BY <3>1, <4>1, FS_Subset
      <3>5. IsFiniteSet(P \cup Q)
            /\ Cardinality(P \cup Q) = Cardinality(P) + Cardinality(Q) - Cardinality(P \cap Q)
        BY <3>1, <3>2, FS_Union
      <3>6. IsFiniteSet(Held(u)') /\ Cardinality(Held(u)') <= Cardinality(P \cup Q)
        BY <3>3, <3>5, FS_Subset
      <3>7. Cardinality(P \cap Q) \in Nat /\ Cardinality(P \cup Q) \in Nat /\ Cardinality(Held(u)') \in Nat
        BY <3>4, <3>5, <3>6, FS_CardinalityType
      <3> QED
        BY <1>1, <3>1, <3>2, <3>5, <3>6, <3>7
    <2> QED
      BY <2>3, <2>4
  <1>6. ASSUME NEW r \in Req, Limits(r), ~Kept
        PROVE  Cardinality(Held(u)') <= Limit + Cardinality(Req) - 1
    <2>1. PICK a \in Att, c \in Cipher :
             /\ home[a] = None /\ home' = [home EXCEPT ![a] = c] /\ row' = row /\ pend' = pend
             /\ WithinLimit(req[r].user)
             /\ c \in Shared \/ Creator[c] = req[r].user
             /\ \A s \in Req \ {r} : req'[s] = req[s]
             /\ req'[r].att = a
      BY <1>6, LimitsSound
    <2> QED
      BY <1>5, <2>1
  <1> QED
    BY <1>4, <1>6, AttachStepSound

\* With n handlers in flight the files on the personal ciphers of an account, and those
\* under way to them, exceed its limit by at most n - 1, whatever the interleaving of
\* uploads, removals and purges, and wherever handlers die.
THEOREM QuotaBounded == AttachSpec => []QuotaOvershoot
  <1>1. AttachInit => AttachTypeOK /\ AllSound /\ QuotaOvershoot
    <2> SUFFICES ASSUME AttachInit PROVE AttachTypeOK /\ AllSound /\ QuotaOvershoot
      OBVIOUS
    <2>1. AttachTypeOK
      BY MemberAssumption, IdleSound DEF AttachInit, AttachTypeOK, CronIdle, CronStage
    <2>2. AllSound
      BY IdleSound DEF AttachInit, AllSound
    <2>3. \A u \in User : Held(u) = {}
      BY AttachNoneAssumption DEF Held, AttachInit, Personal, Idle
    <2>4. Limit \in Nat /\ Cardinality(Req) \in Nat /\ Cardinality(Req) # 0
      BY LimitAssumption, AttachFinite, FS_CardinalityType, FS_EmptySet
    <2>5. \A u \in User : Cardinality(Held(u)) = 0
      BY <2>3, FS_EmptySet
    <2>6. 0 <= Limit + Cardinality(Req) - 1
      BY <2>4
    <2> QED
      BY <2>1, <2>2, <2>5, <2>6 DEF QuotaOvershoot
  <1>2. AttachTypeOK /\ AllSound /\ QuotaOvershoot /\ [AttachNext]_attachVars
        => AttachTypeOK' /\ AllSound' /\ QuotaOvershoot'
    BY AttachStepSound, QuotaStep
  <1> QED
    BY <1>1, <1>2, PTL DEF AttachSpec


-----------------------------------------------------------------------------
\* What a handler has found out: the route it is of, the cipher its file is of, and
\* which files it has listed

\* The routes whose handlers come to a stage.
RoutesAt(stage) ==
    CASE stage = "limits" -> {"create", "legacy"}
      [] stage = "insertPending" -> {"create"}
      [] stage = "insertRow" -> {"legacy"}
      [] stage \in {"pending", "dropPending", "cleanUp", "finalize"} -> {"upload", "stream"}
      [] stage = "put" -> {"upload", "stream", "legacy"}
      [] stage = "attachment" -> {"get", "download", "delete"}
      [] stage = "read" -> {"download"}
      [] stage = "list" -> {"hardDelete", "purgeVault", "deleteAccount"}
      [] stage = "objects" -> {"delete", "hardDelete", "purgeVault", "deleteAccount"}
      [] stage = "deleteRow" -> {"delete"}
      [] stage = "deleteCiphers" -> {"hardDelete"}
      [] stage = "deletePersonal" -> {"purgeVault", "deleteAccount"}
      [] stage \in {"dropMember", "account"} -> {"deleteAccount"}
      [] stage = "touch" -> {"upload", "stream", "legacy", "delete", "hardDelete", "purgeVault"}
      [] OTHER -> AttachRoutes \cup {None}

\* The stages of a handler that takes files away, and those at which the file it carries
\* has been compared with the cipher it names.
TakingStages == {"objects", "deleteRow", "deleteCiphers", "deletePersonal"}
OwnStages == {"insertPending", "insertRow", "dropPending", "put", "cleanUp", "finalize", "read",
              "deleteRow"}

Knows(h) ==
    /\ h.route \in RoutesAt(h.stage)
    /\ h.stage \in OwnStages => home[h.att] \in h.cs
    /\ h.left \subseteq h.files
    /\ \A a \in h.files : home[a] \in Taking(h)
    /\ h.stage \in TakingStages \ {"objects"} => h.left = {}
    /\ h.stage \in TakingStages /\ h.route = "delete" => h.files = {h.att}
AllKnow == \A r \in Req : Knows(req[r])

\* The caller's rights have only fallen since its handler began, and the ciphers it has
\* vetted are among those it could use then.
Vetted(r) ==
    req[r].stage # "idle" =>
       /\ \A c \in Cipher : /\ CanRead(req[r].user, c) => c \in could[r].read
                            /\ CanWrite(req[r].user, c) => c \in could[r].write
       /\ \A c \in req[r].cs \ req[r].vet :
             c \in IF req[r].route \in {"get", "download"} THEN could[r].read ELSE could[r].write
AllVetted == \A r \in Req : Vetted(r)

\* Handler r moves and no other does; it ends, or goes on for the same caller and ciphers.
Alone(r) == \A s \in Req \ {r} : req'[s] = req[s]
CallerKept(r) ==
    \/ req'[r].stage = "idle"
    \/ /\ req[r].stage # "idle"
       /\ req'[r].user = req[r].user /\ req'[r].route = req[r].route
       /\ req'[r].cs = req[r].cs /\ req'[r].vet = req[r].vet

LEMMA Moved ==
    ASSUME AttachTypeOK, NEW r \in Req, NEW stage, Proceed(r, stage)
    PROVE  /\ Alone(r)
           /\ req'[r].stage = stage /\ req'[r].route = req[r].route /\ req'[r].user = req[r].user
           /\ req'[r].cs = req[r].cs /\ req'[r].vet = req[r].vet /\ req'[r].att = req[r].att
           /\ req'[r].files = req[r].files /\ req'[r].left = req[r].left
  <1>1. req \in [Req -> Handler] /\ req' = [req EXCEPT ![r] = [req[r] EXCEPT !.stage = stage]]
    BY DEF AttachTypeOK, Proceed, Goto
  <1>2. req[r] \in Handler
    BY <1>1
  <1>3. req'[r] = [req[r] EXCEPT !.stage = stage]
    BY <1>1
  <1> QED
    BY <1>1, <1>2, <1>3 DEF Alone, Handler

LEMMA Became ==
    ASSUME AttachTypeOK, NEW r \in Req, NEW g, Goto(r, g)
    PROVE  Alone(r) /\ req'[r] = g
  BY DEF AttachTypeOK, Goto, Alone

LEMMA Ended ==
    ASSUME AttachTypeOK, NEW r \in Req, Finish(r)
    PROVE  /\ Alone(r) /\ CallerKept(r) /\ Knows(req[r])'
           /\ req'[r].stage = "idle" /\ req'[r].files = {} /\ req'[r].left = {} /\ req'[r].cs = {}
           /\ req'[r].route = None
  <1>1. Alone(r) /\ req'[r] = Idle
    BY Became DEF Finish
  <1>2. /\ req'[r].stage = "idle" /\ req'[r].files = {} /\ req'[r].left = {} /\ req'[r].cs = {}
        /\ req'[r].route = None
    BY <1>1 DEF Idle
  <1>3. Knows(req[r])'
    BY <1>2 DEF Knows, RoutesAt, OwnStages, TakingStages
  <1> QED
    BY <1>1, <1>2, <1>3 DEF CallerKept

\* A handler that takes nothing away has listed nothing.
LEMMA NothingListed ==
    ASSUME NEW h, Knows(h), h.stage \notin TakingStages
    PROVE  h.files = {} /\ h.left = {} /\ Taking(h) = {}
  <1>1. Taking(h) = {}
    BY DEF Taking, TakingStages
  <1>2. \A a \in h.files : FALSE
    BY <1>1 DEF Knows
  <1> QED
    BY <1>1, <1>2 DEF Knows

\* A handler that has listed nothing goes on to take nothing away.
LEMMA ForwardKnows ==
    ASSUME AttachTypeOK, AllKnow, NEW r \in Req, NEW stage, Proceed(r, stage), home' = home,
           req[r].stage \notin TakingStages \cup {"idle"}, stage \notin TakingStages,
           req[r].route \in RoutesAt(stage),
           stage \in OwnStages => home[req[r].att] \in req[r].cs
    PROVE  Alone(r) /\ CallerKept(r) /\ Knows(req[r])'
  <1>1. /\ Alone(r)
        /\ req'[r].stage = stage /\ req'[r].route = req[r].route /\ req'[r].user = req[r].user
        /\ req'[r].cs = req[r].cs /\ req'[r].vet = req[r].vet /\ req'[r].att = req[r].att
        /\ req'[r].files = req[r].files /\ req'[r].left = req[r].left
    BY Moved
  <1>2. req[r].files = {} /\ req[r].left = {}
    BY NothingListed DEF AllKnow
  <1>3. Knows(req[r])'
    BY <1>1, <1>2 DEF Knows
  <1> QED
    BY <1>1, <1>3 DEF CallerKept

\* A handler that takes files away goes on with the files it has listed.
LEMMA TakingKnows ==
    ASSUME AttachTypeOK, AllKnow, NEW r \in Req, NEW g, Goto(r, g), home' = home,
           req[r].stage = "objects", g.stage \in TakingStages,
           g.route = req[r].route, g.user = req[r].user, g.cs = req[r].cs, g.vet = req[r].vet,
           g.att = req[r].att, g.files = req[r].files, g.left \subseteq req[r].left,
           g.route \in RoutesAt(g.stage), g.stage = "objects" \/ g.left = {},
           g.stage = "deleteRow" => g.route = "delete" /\ home[g.att] \in g.cs
    PROVE  Alone(r) /\ CallerKept(r) /\ Knows(req[r])'
  <1>1. Alone(r) /\ req'[r] = g
    BY Became
  <1>2. Taking(g) = Taking(req[r])
    BY DEF Taking, TakingStages
  <1>3. Knows(req[r])
    BY DEF AllKnow
  <1>4. Knows(g)
    BY <1>2, <1>3 DEF Knows, TakingStages, OwnStages
  <1>5. Knows(req[r])'
    BY <1>1, <1>4 DEF Knows
  <1> QED
    BY <1>1, <1>5 DEF CallerKept

\* Handler r knows what it should, so all do.
LEMMA KnowStep ==
    ASSUME AllKnow, NEW r \in Req, Alone(r), Knows(req[r])', home' = home
    PROVE  AllKnow'
  <1>1. ASSUME NEW s \in Req \ {r} PROVE Knows(req[s])'
    <2>1. req'[s] = req[s] /\ Knows(req[s])
      BY DEF Alone, AllKnow
    <2> QED
      BY <2>1 DEF Knows
  <1> QED
    BY <1>1 DEF AllKnow

\* Every step of a handler after its first query, but the one that draws an id.
LEMMA HandlingKnows ==
    ASSUME AttachTypeOK, AllSound, AllKnow, NEW r \in Req, Handling(r), ~Limits(r), ~Access(r)
    PROVE  home' = home /\ Alone(r) /\ CallerKept(r) /\ Knows(req[r])'
  <1> DEFINE h == req[r]
  <1>1. h \in Handler /\ Sound(h) /\ Knows(h)
    BY DEF AttachTypeOK, AllSound, AllKnow
  <1>2. home' = home
    BY DEF Handling, Query, FetchCipher, FetchPending, FetchAttachment, Read, InsertPending, InsertRow,
           DropPending, Put, CleanUp, Finalize, ListKeys, RemoveObject, RemovedObjects, DeleteRow,
           DeleteCiphers, DropMember, DeleteAccount, Touch, tables
  <1>3. CASE Finish(r)
    BY <1>2, <1>3, Ended
  <1>4. CASE FetchCipher(r) /\ ~Finish(r)
    <2> DEFINE stage == CASE h.route \in {"create", "legacy"} -> "limits"
                          [] h.route \in {"upload", "stream"} -> "pending"
                          [] OTHER -> "attachment"
    <2>1. h.stage = "cipher" /\ Proceed(r, stage)
      BY <1>4 DEF FetchCipher, At
    <2>2. h.route \in FileRoutes \cup {"create", "legacy"}
      BY <1>1, <2>1 DEF Sound
    <2>3. /\ h.route \in RoutesAt(stage)
          /\ stage \notin TakingStages /\ stage \notin OwnStages
      BY <2>2 DEF RoutesAt, FileRoutes, TakingStages, OwnStages
    <2> HIDE DEF stage
    <2> QED
      BY <1>2, <2>1, <2>3, ForwardKnows DEF TakingStages
  <1>5. CASE FetchPending(r) /\ ~Finish(r)
    <2>1. /\ h.stage = "pending" /\ home[h.att] \in h.cs
          /\ Proceed(r, "put") \/ (h.route = "upload" /\ Proceed(r, "dropPending"))
      BY <1>5 DEF FetchPending, At
    <2>2. h.route \in {"upload", "stream"}
      BY <1>1, <2>1 DEF Knows, RoutesAt
    <2>3. h.route \in RoutesAt("put") /\ h.route \in RoutesAt("dropPending")
      BY <2>2 DEF RoutesAt
    <2> QED
      BY <1>2, <2>1, <2>3, ForwardKnows DEF TakingStages
  <1>6. CASE FetchAttachment(r) /\ ~Finish(r)
    <2> DEFINE g == [h EXCEPT !.stage = "objects", !.files = {h.att}, !.left = {h.att}]
    <2>1. /\ h.stage = "attachment" /\ home[h.att] \in h.cs
          /\ (h.route = "download" /\ Proceed(r, "read"))
             \/ (h.route \notin {"get", "download"} /\ Goto(r, g))
      BY <1>6 DEF FetchAttachment, At
    <2>2. h.route \in {"get", "download", "delete"}
      BY <1>1, <2>1 DEF Knows, RoutesAt
    <2>3. CASE h.route = "download" /\ Proceed(r, "read")
      <3>1. h.route \in RoutesAt("read")
        BY <2>3 DEF RoutesAt
      <3> QED
        BY <1>2, <2>1, <2>3, <3>1, ForwardKnows DEF TakingStages
    <2>4. CASE h.route = "delete" /\ Goto(r, g)
      <3>1. /\ g.stage = "objects" /\ g.files = {h.att} /\ g.left = {h.att} /\ g.route = h.route
            /\ g.user = h.user /\ g.cs = h.cs /\ g.vet = h.vet /\ g.att = h.att
        BY <1>1 DEF Handler
      <3>2. Alone(r) /\ req'[r] = g
        BY <2>4, Became
      <3> HIDE DEF g
      <3>3. Taking(g) = h.cs
        BY <2>4, <3>1 DEF Taking
      <3>4. Knows(g)
        BY <2>1, <2>4, <3>1, <3>3 DEF Knows, RoutesAt, OwnStages, TakingStages
      <3>5. Knows(req[r])'
        BY <1>2, <3>2, <3>4 DEF Knows
      <3> QED
        BY <1>2, <2>1, <3>1, <3>2, <3>5 DEF CallerKept
    <2> QED
      BY <2>1, <2>2, <2>3, <2>4
  <1>7. CASE InsertRow(r) /\ ~Finish(r)
    <2>1. h.stage = "insertRow" /\ Proceed(r, "put")
      BY <1>7 DEF InsertRow, At
    <2>2. home[h.att] \in h.cs /\ h.route = "legacy"
      BY <1>1, <2>1 DEF Knows, OwnStages, RoutesAt
    <2>3. h.route \in RoutesAt("put")
      BY <2>2 DEF RoutesAt
    <2> QED
      BY <1>2, <2>1, <2>2, <2>3, ForwardKnows DEF TakingStages
  <1>8. CASE Put(r)
    <2>1. /\ h.stage = "put"
          /\ \/ Proceed(r, IF h.route = "legacy" THEN "touch" ELSE "finalize")
             \/ h.route = "stream" /\ Proceed(r, "cleanUp")
      BY <1>8 DEF Put, At
    <2>2. home[h.att] \in h.cs /\ h.route \in {"upload", "stream", "legacy"}
      BY <1>1, <2>1 DEF Knows, OwnStages, RoutesAt
    <2>3. CASE h.route = "legacy" /\ Proceed(r, "touch")
      <3>1. h.route \in RoutesAt("touch") /\ "touch" \notin OwnStages
        BY <2>3 DEF RoutesAt, OwnStages
      <3> QED
        BY <1>2, <2>1, <2>3, <3>1, ForwardKnows DEF TakingStages
    <2>4. ASSUME NEW stage \in {"finalize", "cleanUp"}, h.route \in {"upload", "stream"},
                 Proceed(r, stage)
          PROVE  Alone(r) /\ CallerKept(r) /\ Knows(req[r])'
      <3>1. h.route \in RoutesAt(stage) /\ stage \notin TakingStages
        BY <2>4 DEF RoutesAt, TakingStages
      <3> QED
        BY <1>2, <2>1, <2>2, <2>4, <3>1, ForwardKnows DEF TakingStages
    <2> QED
      BY <1>2, <2>1, <2>2, <2>3, <2>4
  <1>9. CASE Finalize(r) /\ ~Finish(r)
    <2>1. h.stage = "finalize" /\ Proceed(r, "touch")
      BY <1>9 DEF Finalize, At
    <2>2. h.route \in {"upload", "stream"}
      BY <1>1, <2>1 DEF Knows, RoutesAt
    <2>3. h.route \in RoutesAt("touch") /\ "touch" \notin OwnStages
      BY <2>2 DEF RoutesAt, OwnStages
    <2> QED
      BY <1>2, <2>1, <2>3, ForwardKnows DEF TakingStages
  <1>10. CASE ListKeys(r)
    <2> DEFINE cs == IF h.route = "hardDelete" THEN h.cs ELSE Personal(h.user)
               keys == {a \in row : home[a] \in cs}
               g == [h EXCEPT !.files = keys, !.left = keys, !.stage = "objects"]
    <2>1. h.stage = "list" /\ Goto(r, g)
      BY <1>10 DEF ListKeys, At
    <2>2. h.route \in {"hardDelete", "purgeVault", "deleteAccount"}
      BY <1>1, <2>1 DEF Knows, RoutesAt
    <2>3. /\ g.stage = "objects" /\ g.files = keys /\ g.left = keys /\ g.route = h.route
          /\ g.user = h.user /\ g.cs = h.cs /\ g.vet = h.vet /\ g.att = h.att
      BY <1>1 DEF Handler
    <2>4. Alone(r) /\ req'[r] = g
      BY <2>1, Became
    <2>5. \A a \in keys : home[a] \in cs
      OBVIOUS
    <2> HIDE DEF g, keys
    <2>6. Taking(g) = cs
      BY <2>2, <2>3 DEF Taking
    <2> HIDE DEF cs
    <2>7. Knows(g)
      BY <2>2, <2>3, <2>5, <2>6 DEF Knows, RoutesAt, OwnStages, TakingStages
    <2>8. Knows(req[r])'
      BY <1>2, <2>4, <2>7 DEF Knows
    <2> QED
      BY <1>2, <2>1, <2>3, <2>4, <2>8 DEF CallerKept
  <1>11. CASE RemoveObject(r)
    <2>1. PICK a \in h.left : Goto(r, [h EXCEPT !.left = @ \ {a}])
      BY <1>11 DEF RemoveObject
    <2> DEFINE g == [h EXCEPT !.left = @ \ {a}]
    <2>2. h.stage = "objects" /\ Goto(r, g)
      BY <1>11, <2>1 DEF RemoveObject, At
    <2>3. /\ g.stage = "objects" /\ g.files = h.files /\ g.left \subseteq h.left /\ g.route = h.route
          /\ g.user = h.user /\ g.cs = h.cs /\ g.vet = h.vet /\ g.att = h.att
      BY <1>1, <2>2 DEF Handler
    <2>4. g.route \in RoutesAt(g.stage)
      BY <1>1, <2>2, <2>3 DEF Knows
    <2> HIDE DEF g
    <2> QED
      BY <1>2, <2>2, <2>3, <2>4, TakingKnows DEF TakingStages
  <1>12. CASE RemovedObjects(r)
    <2> DEFINE stage == CASE h.route = "delete" -> "deleteRow"
                          [] h.route = "hardDelete" -> "deleteCiphers"
                          [] OTHER -> "deletePersonal"
               g == [h EXCEPT !.stage = stage]
    <2>1. h.stage = "objects" /\ Goto(r, g) /\ h.left = {}
      BY <1>12 DEF RemovedObjects, At, Proceed
    <2>2. h.route \in {"delete", "hardDelete", "purgeVault", "deleteAccount"}
      BY <1>1, <2>1 DEF Knows, RoutesAt
    <2>3. stage \in TakingStages /\ h.route \in RoutesAt(stage)
          /\ (stage = "deleteRow" => h.route = "delete")
      BY <2>2 DEF TakingStages, RoutesAt
    <2> HIDE DEF stage
    <2>4. /\ g.stage = stage /\ g.files = h.files /\ g.left = {} /\ g.route = h.route
          /\ g.user = h.user /\ g.cs = h.cs /\ g.vet = h.vet /\ g.att = h.att
      BY <1>1, <2>1 DEF Handler
    <2>5. h.route = "delete" => home[h.att] \in h.cs
      <3>1. ASSUME h.route = "delete" PROVE h.files = {h.att} /\ Taking(h) = h.cs
        BY <1>1, <2>1, <3>1 DEF Knows, TakingStages, Taking
      <3> QED
        BY <1>1, <3>1 DEF Knows
    <2> HIDE DEF g
    <2> QED
      BY <1>2, <2>1, <2>3, <2>4, <2>5, TakingKnows DEF TakingStages
  <1>13. ASSUME NEW g, Goto(r, g), h.stage \in TakingStages, g.stage \in {"touch", "dropMember"},
                g.files = {}, g.left = h.left, g.route = h.route, g.user = h.user, g.cs = h.cs,
                g.vet = h.vet, h.left = {}, g.route \in RoutesAt(g.stage)
         PROVE  Alone(r) /\ CallerKept(r) /\ Knows(req[r])'
    <2>1. Alone(r) /\ req'[r] = g
      BY <1>13, Became
    <2>2. Knows(g)
      BY <1>13 DEF Knows, OwnStages, TakingStages
    <2>3. Knows(req[r])'
      BY <1>2, <2>1, <2>2 DEF Knows
    <2> QED
      BY <1>13, <2>1, <2>3 DEF CallerKept, TakingStages
  <1>14. CASE DeleteRow(r)
    <2> DEFINE g == [h EXCEPT !.stage = "touch", !.files = {}]
    <2>1. h.stage = "deleteRow" /\ Goto(r, g)
      BY <1>14 DEF DeleteRow, At
    <2>2. /\ g.stage = "touch" /\ g.files = {} /\ g.left = h.left /\ g.route = h.route
          /\ g.user = h.user /\ g.cs = h.cs /\ g.vet = h.vet
      BY <1>1 DEF Handler
    <2>3. h.left = {} /\ h.route \in RoutesAt("touch")
      BY <1>1, <2>1 DEF Knows, RoutesAt, TakingStages
    <2> HIDE DEF g
    <2> QED
      BY <1>2, <1>13, <2>1, <2>2, <2>3 DEF TakingStages
  <1>15. CASE DeleteCiphers(r)
    <2> DEFINE stage == IF h.route = "deleteAccount" THEN "dropMember" ELSE "touch"
               g == [h EXCEPT !.stage = stage, !.files = {}]
    <2>1. h.stage \in {"deleteCiphers", "deletePersonal"} /\ Goto(r, g)
      BY <1>15 DEF DeleteCiphers
    <2>2. /\ g.stage = stage /\ g.files = {} /\ g.left = h.left /\ g.route = h.route
          /\ g.user = h.user /\ g.cs = h.cs /\ g.vet = h.vet
      BY <1>1 DEF Handler
    <2>3. h.left = {} /\ h.route \in {"hardDelete", "purgeVault", "deleteAccount"}
      BY <1>1, <2>1 DEF Knows, RoutesAt, TakingStages
    <2>4. h.route \in RoutesAt(stage) /\ stage \in {"touch", "dropMember"}
      BY <2>3 DEF RoutesAt
    <2> HIDE DEF g, stage
    <2> QED
      BY <1>2, <1>13, <2>1, <2>2, <2>3, <2>4 DEF TakingStages
  <1>16. CASE DropMember(r)
    <2>1. h.stage = "dropMember" /\ Proceed(r, "account")
      BY <1>16 DEF DropMember, At
    <2>2. h.route \in RoutesAt("account") /\ "account" \notin OwnStages
      BY <1>1, <2>1 DEF Knows, RoutesAt, OwnStages
    <2> QED
      BY <1>2, <2>1, <2>2, ForwardKnows DEF TakingStages
  <1>17. Read(r) \/ InsertPending(r) \/ DropPending(r) \/ CleanUp(r) \/ DeleteAccount(r) \/ Touch(r)
         => Finish(r)
    BY DEF Read, InsertPending, DropPending, CleanUp, DeleteAccount, Touch
  <1> QED
    BY <1>3, <1>4, <1>5, <1>6, <1>7, <1>8, <1>9, <1>10, <1>11, <1>12, <1>14, <1>15, <1>16, <1>17
    DEF Handling

\* A step after which the same handlers run, and none of them for another caller.
LEMMA KnowSame == ASSUME AllKnow, req' = req, home' = home PROVE AllKnow'
  BY DEF AllKnow, Knows

LEMMA IdleKnows == Knows(Idle)
  BY DEF Idle, Knows, RoutesAt, OwnStages, TakingStages

\* The first query of a handler that has been asked for something.
LEMMA AccessKnows ==
    ASSUME AttachTypeOK, AllSound, AllKnow, NEW r \in Req, Access(r)
    PROVE  /\ home' = home /\ Alone(r) /\ Knows(req[r])'
           /\ \/ req'[r].stage = "idle"
              \/ \E c \in req[r].vet :
                    /\ IF req[r].route \in {"get", "download"} THEN CanRead(req[r].user, c)
                       ELSE CanWrite(req[r].user, c)
                    /\ req[r].stage # "idle" /\ req'[r].user = req[r].user
                    /\ req'[r].route = req[r].route /\ req'[r].cs = req[r].cs
                    /\ req'[r].vet = req[r].vet \ {c}
  <1> DEFINE h == req[r]
  <1>1. h \in Handler /\ Sound(h) /\ Knows(h) /\ h.stage = "access" /\ home' = home
    BY DEF AttachTypeOK, AllSound, AllKnow, Access, At, Query, tables
  <1>2. CASE Finish(r)
    BY <1>1, <1>2, Ended
  <1>3. CASE ~Finish(r)
    <2>1. PICK c \in h.vet :
             /\ IF h.route \in {"get", "download"} THEN CanRead(h.user, c) ELSE CanWrite(h.user, c)
             /\ Goto(r, [h EXCEPT !.vet = @ \ {c},
                                  !.stage = IF h.vet # {c} THEN "access"
                                            ELSE IF h.route = "hardDelete" THEN "list" ELSE "cipher"])
      BY <1>3 DEF Access
    <2> DEFINE g == [h EXCEPT !.vet = @ \ {c},
                              !.stage = IF h.vet # {c} THEN "access"
                                        ELSE IF h.route = "hardDelete" THEN "list" ELSE "cipher"]
    <2>2. Alone(r) /\ req'[r] = g
      BY <2>1, Became
    <2>3. /\ g.stage = (IF h.vet # {c} THEN "access"
                        ELSE IF h.route = "hardDelete" THEN "list" ELSE "cipher")
          /\ g.vet = h.vet \ {c} /\ g.cs = h.cs /\ g.user = h.user /\ g.route = h.route
          /\ g.files = h.files /\ g.left = h.left
      BY <1>1 DEF Handler
    <2> HIDE DEF g
    <2>4. h.files = {} /\ h.left = {}
      BY <1>1, NothingListed DEF TakingStages
    <2>5. g.route \in RoutesAt(g.stage) /\ g.stage \notin TakingStages /\ g.stage \notin OwnStages
      BY <1>1, <2>3 DEF RoutesAt, Handler, TakingStages, OwnStages
    <2>6. Knows(g)
      BY <2>3, <2>4, <2>5 DEF Knows
    <2>7. Knows(req[r])'
      BY <1>1, <2>2, <2>6 DEF Knows
    <2> QED
      BY <1>1, <2>1, <2>2, <2>3, <2>7
  <1> QED
    BY <1>2, <1>3

\* An id is drawn that no handler has used.
LEMMA LimitsKnow ==
    ASSUME AttachTypeOK, AllSound, AllKnow, NEW r \in Req, Limits(r)
    PROVE  Alone(r) /\ CallerKept(r) /\ AllKnow'
  <1> DEFINE h == req[r]
  <1>1. h \in Handler /\ Sound(h) /\ Knows(h) /\ h.stage = "limits"
    BY DEF AttachTypeOK, AllSound, AllKnow, Limits, At
  <1>2. CASE Finish(r) /\ home' = home
    BY <1>2, Ended, KnowStep
  <1>3. CASE ~(Finish(r) /\ home' = home)
    <2>1. PICK a \in Att :
             /\ home[a] = None
             /\ \E c \in h.cs : home' = [home EXCEPT ![a] = c]
             /\ Goto(r, [h EXCEPT !.att = a,
                              !.stage = IF h.route = "create" THEN "insertPending" ELSE "insertRow"])
      BY <1>3 DEF Limits
    <2>2. PICK c \in h.cs : home' = [home EXCEPT ![a] = c]
      BY <2>1
    <2> DEFINE g == [h EXCEPT !.att = a,
                              !.stage = IF h.route = "create" THEN "insertPending" ELSE "insertRow"]
    <2>3. Alone(r) /\ req'[r] = g
      BY <2>1, Became
    <2>4. /\ g.stage = (IF h.route = "create" THEN "insertPending" ELSE "insertRow")
          /\ g.vet = h.vet /\ g.cs = h.cs /\ g.user = h.user /\ g.route = h.route
          /\ g.files = h.files /\ g.left = h.left /\ g.att = a
      BY <1>1 DEF Handler
    <2> HIDE DEF g
    <2>5. home'[a] = c /\ \A b \in Att \ {a} : home'[b] = home[b]
      BY <2>2 DEF AttachTypeOK
    <2>6. h.files = {} /\ h.left = {} /\ h.route \in {"create", "legacy"}
      BY <1>1, NothingListed DEF TakingStages, Knows, RoutesAt
    <2>7. Knows(req[r])'
      <3>1. g.route \in RoutesAt(g.stage) /\ g.stage \notin TakingStages
        BY <2>4, <2>6 DEF RoutesAt, TakingStages
      <3> QED
        BY <2>3, <2>4, <2>5, <2>6, <3>1 DEF Knows
    <2>8. ASSUME NEW s \in Req \ {r}
          PROVE  Knows(req[s])'
      <3>1. req'[s] = req[s] /\ req[s] \in Handler /\ Sound(req[s]) /\ Knows(req[s])
        BY <2>3 DEF Alone, AttachTypeOK, AllSound, AllKnow
      <3>2. None \notin Cipher /\ req[s].cs \subseteq Cipher /\ req[s].files \subseteq Att
        BY <3>1, AttachNoneAssumption DEF Handler
      <3>3. Taking(req[s]) \subseteq Cipher
        BY <3>2 DEF Taking, Personal
      <3>4. req[s].stage \in OwnStages => req[s].att \in Att
        BY <3>1 DEF Sound, OwnStages, FileStages
      <3>5. req[s].stage \in OwnStages => home'[req[s].att] \in req[s].cs
        BY <2>1, <2>5, <3>1, <3>2, <3>4 DEF Knows
      <3>6. \A b \in req[s].files : home'[b] \in Taking(req[s])
        BY <2>1, <2>5, <3>1, <3>2, <3>3 DEF Knows
      <3> QED
        BY <3>1, <3>5, <3>6 DEF Knows
    <2>9. CallerKept(r)
      BY <1>1, <2>3, <2>4 DEF CallerKept
    <2> QED
      BY <2>3, <2>7, <2>8, <2>9 DEF AllKnow
  <1> QED
    BY <1>2, <1>3

-----------------------------------------------------------------------------
\* How a handler begins: having found out nothing

Fresh(h) ==
    /\ h \in Handler /\ h.stage \in {"access", "list"} /\ h.user \in User
    /\ h.vet = h.cs /\ h.files = {} /\ h.left = {} /\ Knows(h)

LEMMA AskingFresh ==
    ASSUME NEW route \in AttachRoutes, NEW u \in User, NEW cs \in SUBSET Cipher,
           NEW a \in Att \cup {None}
    PROVE  Fresh(Asking(route, u, cs, a))
  BY DEF Fresh, Asking, Handler, Stage, Knows, RoutesAt, OwnStages, TakingStages

LEMMA SweepingFresh ==
    ASSUME NEW route \in {"purgeVault", "deleteAccount"}, NEW u \in User
    PROVE  Fresh(Sweeping(route, u))
  BY DEF Fresh, Sweeping, Handler, AttachRoutes, Stage, Knows, RoutesAt, OwnStages, TakingStages

LEMMA RequestsFresh ==
    ASSUME AttachTypeOK, NEW r \in Req, Requests(r)
    PROVE  \E h : Begin(r, h) /\ Fresh(h)
  <1>1. \A cs : cs \in SUBSET load.ciphers => cs \in SUBSET Cipher
    BY AttachWorkloads DEF AttachTypeOK, Workload
  <1>2. load.ciphers \subseteq Cipher
    BY <1>1
  <1>3. ASSUME NEW u \in User, NEW c \in Cipher, StartUpload(r, u, c)
        PROVE  \E h : Begin(r, h) /\ Fresh(h)
    <2>1. PICK route \in {"create", "legacy"} : Begin(r, Asking(route, u, {c}, None))
      BY <1>3 DEF StartUpload
    <2>2. route \in AttachRoutes /\ {c} \in SUBSET Cipher
      BY DEF AttachRoutes
    <2> QED
      BY <2>1, <2>2, AskingFresh
  <1>4. ASSUME NEW u \in User, NEW c \in Cipher, NEW a \in Att, StartFile(r, u, c, a)
        PROVE  \E h : Begin(r, h) /\ Fresh(h)
    <2>1. PICK route \in {"upload", "get", "delete"} : Begin(r, Asking(route, u, {c}, a))
      BY <1>4 DEF StartFile
    <2>2. route \in AttachRoutes /\ {c} \in SUBSET Cipher
      BY DEF AttachRoutes
    <2> QED
      BY <2>1, <2>2, AskingFresh
  <1>5. ASSUME NEW u \in User, NEW a \in Att, StartLink(r, u, a)
        PROVE  \E h : Begin(r, h) /\ Fresh(h)
    <2>1. PICK route \in {"stream", "download"} :
             <<u, a>> \in link /\ Begin(r, Asking(route, u, {home[a]}, a))
      BY <1>5 DEF StartLink
    <2>2. route \in AttachRoutes /\ {home[a]} \in SUBSET Cipher
      BY <2>1 DEF AttachRoutes, AttachTypeOK
    <2> QED
      BY <2>1, <2>2, AskingFresh
  <1>6. ASSUME NEW u \in User, NEW cs \in SUBSET Cipher, StartHardDelete(r, u, cs)
        PROVE  \E h : Begin(r, h) /\ Fresh(h)
    <2>1. Begin(r, Asking("hardDelete", u, cs, None)) /\ "hardDelete" \in AttachRoutes
      BY <1>6 DEF StartHardDelete, AttachRoutes
    <2> QED
      BY <2>1, AskingFresh
  <1>7. ASSUME NEW u \in User, StartPurge(r, u)
        PROVE  \E h : Begin(r, h) /\ Fresh(h)
    <2>1. PICK route \in {"purgeVault", "deleteAccount"} : Begin(r, Sweeping(route, u))
      BY <1>7 DEF StartPurge
    <2> QED
      BY <2>1, SweepingFresh
  <1> QED
    BY <1>1, <1>2, <1>3, <1>4, <1>5, <1>6, <1>7 DEF Requests

-----------------------------------------------------------------------------
\* Rights, which only fall while a handler runs

RightsFall ==
    \A u \in User, c \in Cipher : /\ CanRead(u, c)' => CanRead(u, c)
                                  /\ CanWrite(u, c)' => CanWrite(u, c)

LEMMA RightsSame == ASSUME trash' = trash, member' = member PROVE RightsFall
  BY DEF RightsFall, CanRead, CanWrite

LEMMA RightsGone ==
    ASSUME NEW cs, WithoutCiphers(cs), member' = member
    PROVE  RightsFall
  BY DEF WithoutCiphers, RightsFall, CanRead, CanWrite

\* Nobody comes to a cipher that could not, and none that is gone comes back.
LEMMA RightsStep == ASSUME AttachTypeOK, AttachNext PROVE RightsFall
  <1>1. ASSUME NEW r \in Req, Requests(r)
        PROVE  RightsFall
    <2>1. PICK h : Begin(r, h)
      BY <1>1, RequestsFresh
    <2>2. trash' = trash /\ member' = member
      BY <2>1 DEF Begin, tables, people
    <2> QED
      BY <2>2, RightsSame
  <1>2. ASSUME NEW r \in Req, Handling(r)
        PROVE  RightsFall
    <2>1. CASE DeleteCiphers(r)
      BY <2>1, RightsGone DEF DeleteCiphers, people
    <2>2. CASE DeleteAccount(r)
      BY <2>2, RightsGone DEF DeleteAccount
    <2>3. CASE DropMember(r)
      <3>1. trash' = trash /\ \A u \in User : member'[u] = member[u] \/ member'[u] = "no"
        BY <2>3 DEF DropMember, AttachTypeOK
      <3> QED
        BY <3>1 DEF RightsFall, CanRead, CanWrite
    <2>4. CASE ~(DeleteCiphers(r) \/ DeleteAccount(r) \/ DropMember(r))
      <3>1. trash' = trash /\ member' = member
        BY <1>2, <2>4 DEF Handling, Query, Access, Limits, FetchCipher, FetchPending, FetchAttachment, Read,
           InsertPending, InsertRow, DropPending, Put, CleanUp, Finalize, ListKeys, RemoveObject,
           RemovedObjects, DeleteRow, Touch, tables, people
      <3> QED
        BY <3>1, RightsSame
    <2> QED
      BY <2>1, <2>2, <2>3, <2>4
  <1>3. ASSUME NEW r \in Req, Die(r)
        PROVE  RightsFall
    BY <1>3, RightsSame DEF Die, tables, people
  <1>4. CASE Purging \/ CronDie
    <2>1. CASE CronDelete
      BY <2>1, RightsGone DEF CronDelete, people
    <2>2. CASE ~CronDelete
      BY <1>4, <2>2, RightsSame DEF Purging, CronDie, CronStart, CronPendingCount, CronPendingDelete, CronUsers,
         CronCount, CronList, CronObject, CronObjects, CronTouch, tables, people
    <2> QED
      BY <2>1, <2>2
  <1>5. ASSUME NEW c \in Cipher, Trash(c) \/ AgeTrash(c)
        PROVE  RightsFall
    <2>1. trash[c] # "gone" /\ member' = member /\ \A d \in Cipher \ {c} : trash'[d] = trash[d]
      BY <1>5 DEF Trash, AgeTrash, AttachTypeOK, CanWrite, people
    <2> QED
      BY <2>1 DEF RightsFall, CanRead, CanWrite
  <1>6. ASSUME NEW u \in User, Leave(u)
        PROVE  RightsFall
    <2>1. /\ trash' = trash
          /\ \A v \in User : \/ member'[v] = member[v] \/ member'[v] = "no"
                             \/ (member[v] = "write" /\ member'[v] = "read")
      BY <1>6 DEF Leave, AttachTypeOK
    <2> QED
      BY <2>1 DEF RightsFall, CanRead, CanWrite
  <1>7. ASSUME (\E l \in link : Expire(l)) \/ (\E a \in Att : AgePending(a))
        PROVE  RightsFall
    BY <1>7, RightsSame DEF Expire, AgePending, tables, people
  <1> QED
    BY <1>1, <1>2, <1>3, <1>4, <1>5, <1>6, <1>7 DEF AttachNext, Passing

LEMMA BeginAlone ==
    ASSUME AttachTypeOK, NEW r \in Req, NEW h, Begin(r, h)
    PROVE  Alone(r) /\ req'[r] = h /\ req[r].stage = "idle" /\ home' = home
  <1>1. Goto(r, h) /\ home' = home /\ req[r].stage = "idle"
    BY DEF Begin, tables, At
  <1> QED
    BY <1>1, Became

LEMMA DieKnows ==
    ASSUME AttachTypeOK, NEW r \in Req, Die(r)
    PROVE  Alone(r) /\ CallerKept(r) /\ Knows(req[r])' /\ home' = home
  BY Ended DEF Die, tables

\* The steps that are no handler's.
Elsewhere == Purging \/ CronDie \/ Passing
LEMMA ElsewhereKept == ASSUME Elsewhere PROVE req' = req /\ home' = home /\ could' = could
  <1>1. CASE Purging \/ CronDie
    BY <1>1 DEF Purging, CronDie, CronStart, CronPendingCount, CronPendingDelete, CronUsers, CronCount, CronList,
       CronObject, CronObjects, CronDelete, CronTouch, tables, history
  <1>2. CASE Passing
    BY <1>2 DEF Passing, Trash, AgeTrash, Leave, Expire, AgePending, tables, history
  <1> QED
    BY <1>1, <1>2 DEF Elsewhere

LEMMA KnowsStep ==
    ASSUME AttachTypeOK, AllSound, AllKnow, [AttachNext]_attachVars
    PROVE  AllKnow'
  <1>1. ASSUME NEW r \in Req, Requests(r)
        PROVE  AllKnow'
    <2>1. PICK h : Begin(r, h) /\ Fresh(h)
      BY <1>1, RequestsFresh
    <2>2. Alone(r) /\ req'[r] = h /\ home' = home
      BY <2>1, BeginAlone
    <2>3. Knows(req[r])'
      BY <2>1, <2>2 DEF Fresh, Knows
    <2> QED
      BY <2>2, <2>3, KnowStep
  <1>2. ASSUME NEW r \in Req, Handling(r)
        PROVE  AllKnow'
    <2>1. CASE Access(r)
      BY <2>1, AccessKnows, KnowStep
    <2>2. CASE Limits(r)
      BY <2>2, LimitsKnow
    <2>3. CASE ~Access(r) /\ ~Limits(r)
      BY <1>2, <2>3, HandlingKnows, KnowStep
    <2> QED
      BY <2>1, <2>2, <2>3
  <1>3. ASSUME NEW r \in Req, Die(r)
        PROVE  AllKnow'
    BY <1>3, DieKnows, KnowStep
  <1>4. CASE Elsewhere
    BY <1>4, ElsewhereKept, KnowSame
  <1>5. CASE UNCHANGED attachVars
    BY <1>5, KnowSame DEF attachVars
  <1> QED
    BY <1>1, <1>2, <1>3, <1>4, <1>5 DEF AttachNext, Elsewhere

\* No other handler's caller gains a right.
LEMMA VettedOther ==
    ASSUME AttachTypeOK, AllSound, AllVetted, RightsFall, NEW s \in Req, req'[s] = req[s],
           could'[s] = could[s]
    PROVE  Vetted(s)'
  <1>1. Vetted(s) /\ (req[s].stage # "idle" => req[s].user \in User)
    BY DEF AllVetted, AllSound, Sound
  <1> QED
    BY <1>1 DEF Vetted, RightsFall

LEMMA VettedStep ==
    ASSUME AttachTypeOK, AllSound, AllKnow, AllVetted, AttachNext
    PROVE  AllVetted'
  <1>1. RightsFall
    BY RightsStep
  <1>2. ASSUME NEW r \in Req, Alone(r), could' = could, Vetted(r)'
        PROVE  AllVetted'
    BY <1>1, <1>2, VettedOther DEF Alone, AllVetted
  <1>3. ASSUME NEW r \in Req, Requests(r)
        PROVE  AllVetted'
    <2>1. PICK h : Begin(r, h) /\ Fresh(h)
      BY <1>3, RequestsFresh
    <2>2. Alone(r) /\ req'[r] = h
      BY <2>1, BeginAlone
    <2>3. /\ could' = [could EXCEPT ![r] = [read |-> {c \in Cipher : CanRead(h.user, c)},
                                          write |-> {c \in Cipher : CanWrite(h.user, c)}]]
          /\ trash' = trash /\ member' = member
      BY <2>1 DEF Begin, tables, people
    <2>4. /\ could'[r].read = {c \in Cipher : CanRead(h.user, c)}
          /\ could'[r].write = {c \in Cipher : CanWrite(h.user, c)}
          /\ \A s \in Req \ {r} : could'[s] = could[s]
      BY <2>3 DEF AttachTypeOK
    <2>5. \A c \in Cipher : (CanRead(h.user, c)' <=> CanRead(h.user, c))
                            /\ (CanWrite(h.user, c)' <=> CanWrite(h.user, c))
      BY <2>3 DEF CanRead, CanWrite
    <2>6. \A c \in Cipher : (CanRead(req[r].user, c)' <=> CanRead(h.user, c))
                            /\ (CanWrite(req[r].user, c)' <=> CanWrite(h.user, c))
      BY <2>2, <2>3 DEF CanRead, CanWrite
    <2>7. Vetted(r)'
      BY <2>1, <2>2, <2>4, <2>6 DEF Vetted, Fresh
    <2> QED
      BY <1>1, <2>2, <2>4, <2>7, VettedOther DEF Alone, AllVetted
  <1>4. ASSUME NEW r \in Req, Alone(r), CallerKept(r), could' = could
        PROVE  AllVetted'
    <2>1. Vetted(r) /\ (req[r].stage # "idle" => req[r].user \in User)
      BY DEF AllVetted, AllSound, Sound
    <2>2. CASE req'[r].stage = "idle"
      BY <1>2, <1>4, <2>2 DEF Vetted
    <2>3. CASE req'[r].stage # "idle"
      <3>1. /\ req[r].stage # "idle"
            /\ req'[r].user = req[r].user /\ req'[r].route = req[r].route
            /\ req'[r].cs = req[r].cs /\ req'[r].vet = req[r].vet
        BY <1>4, <2>3 DEF CallerKept
      <3>2. \A c \in Cipher : (CanRead(req[r].user, c)' => CanRead(req[r].user, c))
                              /\ (CanWrite(req[r].user, c)' => CanWrite(req[r].user, c))
        BY <1>1, <2>1, <3>1 DEF RightsFall, CanRead, CanWrite
      <3>3. Vetted(r)'
        BY <1>4, <2>1, <3>1, <3>2 DEF Vetted
      <3> QED
        BY <1>2, <1>4, <3>3
    <2> QED
      BY <2>2, <2>3
  <1>5. ASSUME NEW r \in Req, Access(r)
        PROVE  AllVetted'
    <2>1. Alone(r) /\ could' = could
      BY <1>5, AccessKnows DEF Access, Query, history
    <2>2. CASE req'[r].stage = "idle"
      BY <1>2, <2>1, <2>2 DEF Vetted
    <2>3. CASE req'[r].stage # "idle"
      <3>1. PICK c \in req[r].vet :
               /\ IF req[r].route \in {"get", "download"} THEN CanRead(req[r].user, c)
                  ELSE CanWrite(req[r].user, c)
               /\ req[r].stage # "idle" /\ req'[r].user = req[r].user
               /\ req'[r].route = req[r].route /\ req'[r].cs = req[r].cs
               /\ req'[r].vet = req[r].vet \ {c}
        BY <1>5, <2>3, AccessKnows
      <3>2. /\ Vetted(r) /\ req[r].user \in User /\ c \in Cipher
            /\ trash' = trash /\ member' = member
        BY <1>5, <3>1 DEF AllVetted, AllSound, Sound, AttachTypeOK, Handler, Access, Query, tables, people
      <3>3. \A d \in Cipher : (CanRead(req[r].user, d)' <=> CanRead(req[r].user, d))
                              /\ (CanWrite(req[r].user, d)' <=> CanWrite(req[r].user, d))
        BY <3>1, <3>2 DEF CanRead, CanWrite
      <3>4. Vetted(r)'
        BY <2>1, <3>1, <3>2, <3>3 DEF Vetted
      <3> QED
        BY <1>2, <2>1, <3>4
    <2> QED
      BY <2>2, <2>3
  <1>6. ASSUME NEW r \in Req, Handling(r), ~Access(r)
        PROVE  AllVetted'
    <2>1. could' = could
      BY <1>6 DEF Handling, Limits, FetchCipher, FetchPending, FetchAttachment, Read, InsertPending, InsertRow,
         DropPending, Put, CleanUp, Finalize, ListKeys, RemoveObject, RemovedObjects, DeleteRow, DeleteCiphers,
         DropMember, DeleteAccount, Touch, Query, history
    <2>2. Alone(r) /\ CallerKept(r)
      BY <1>6, HandlingKnows, LimitsKnow
    <2> QED
      BY <1>4, <2>1, <2>2
  <1>7. ASSUME NEW r \in Req, Die(r)
        PROVE  AllVetted'
    <2>1. could' = could
      BY <1>7 DEF Die
    <2> QED
      BY <1>4, <1>7, <2>1, DieKnows
  <1>8. CASE Elsewhere
    BY <1>1, <1>8, ElsewhereKept, VettedOther DEF AllVetted
  <1> QED
    BY <1>3, <1>5, <1>6, <1>7, <1>8 DEF AttachNext, Elsewhere

\* A handler about to change the rows of a file could write its cipher when it began, and
\* one about to stream it could read it.
LEMMA OwnRights ==
    ASSUME AttachTypeOK, AllSound, AllKnow, AllVetted, NEW r \in Req, req[r].stage \in OwnStages
    PROVE  /\ req[r].stage = "read" => home[req[r].att] \in could[r].read
           /\ req[r].stage # "read" => home[req[r].att] \in could[r].write
  <1>1. Sound(req[r]) /\ Knows(req[r]) /\ Vetted(r)
    BY DEF AllSound, AllKnow, AllVetted
  <1>2. req[r].vet = {} /\ home[req[r].att] \in req[r].cs
    BY <1>1 DEF Sound, Knows, OwnStages
  <1>3. /\ req[r].stage = "read" => req[r].route = "download"
        /\ req[r].stage # "read" => req[r].route \notin {"get", "download"}
    BY <1>1 DEF Knows, OwnStages, RoutesAt
  <1> QED
    BY <1>1, <1>2, <1>3 DEF Vetted, OwnStages

ByRightsAction ==
    \A r \in Req, a \in Att :
         req'[r] # req[r] /\ req'[r].stage # req[r].stage =>
         /\ req[r].stage \in {"insertPending", "insertRow", "dropPending", "finalize", "deleteRow", "deleteCiphers"}
            /\ ((a \in row) # (a \in row') \/ pend'[a] # pend[a])
            => home[a] \in could[r].write
         /\ At(r, "read") /\ a = req[r].att => home[a] \in could[r].read

LEMMA ByRightsStep ==
    ASSUME AttachTypeOK, AllSound, AllKnow, AllVetted, AttachNext
    PROVE  ByRightsAction
  <1> SUFFICES ASSUME NEW r \in Req, NEW a \in Att, req'[r] # req[r]
               PROVE  /\ req[r].stage \in {"insertPending", "insertRow", "dropPending", "finalize", "deleteRow", "deleteCiphers"}
                         /\ ((a \in row) # (a \in row') \/ pend'[a] # pend[a])
                         => home[a] \in could[r].write
                      /\ At(r, "read") /\ a = req[r].att => home[a] \in could[r].read
    BY DEF ByRightsAction
  <1>1. At(r, "read") /\ a = req[r].att => home[a] \in could[r].read
    BY OwnRights DEF At, OwnStages
  <1>2. ASSUME req[r].stage \in {"insertPending", "insertRow", "dropPending", "finalize", "deleteRow", "deleteCiphers"},
               (a \in row) # (a \in row') \/ pend'[a] # pend[a]
        PROVE  home[a] \in could[r].write
    <2>1. ASSUME NEW s \in Req, Requests(s)
          PROVE  FALSE
      <3>1. PICK h : Begin(s, h)
        BY <2>1, RequestsFresh
      <3> QED
        BY <1>2, <3>1 DEF Begin, tables
    <2>2. ASSUME NEW s \in Req, Die(s)
          PROVE  FALSE
      BY <1>2, <2>2 DEF Die, tables
    <2>3. ASSUME Elsewhere
          PROVE  FALSE
      BY <2>3, ElsewhereKept
    <2>4. PICK s \in Req : Handling(s)
      BY <2>1, <2>2, <2>3 DEF AttachNext, Elsewhere
    <2>5. s = r
      BY <2>4, AccessKnows, HandlingKnows, LimitsKnow DEF Alone
    <2>6. Handling(r)
      BY <2>4, <2>5
    <2>7. CASE req[r].stage = "deleteCiphers"
      <3>1. DeleteCiphers(r)
        BY <2>6, <2>7 DEF Handling, At, Access, Limits, FetchCipher, FetchPending, FetchAttachment, Read, InsertPending,
           InsertRow, DropPending, Put, CleanUp, Finalize, ListKeys, RemoveObject, RemovedObjects, DeleteRow,
           DropMember, DeleteAccount, Touch
      <3>2. Sound(req[r]) /\ Knows(req[r]) /\ Vetted(r)
        BY DEF AllSound, AllKnow, AllVetted
      <3>3. req[r].vet = {} /\ req[r].route = "hardDelete"
        BY <2>7, <3>2 DEF Sound, Knows, RoutesAt
      <3>4. home[a] \in req[r].cs
        BY <1>2, <3>1, <3>3 DEF DeleteCiphers, WithoutCiphers
      <3> QED
        BY <2>7, <3>2, <3>3, <3>4 DEF Vetted
    <2>8. CASE req[r].stage # "deleteCiphers"
      <3>1. InsertPending(r) \/ InsertRow(r) \/ DropPending(r) \/ Finalize(r) \/ DeleteRow(r)
        BY <1>2, <2>6, <2>8 DEF Handling, At, Access, Limits, FetchCipher, FetchPending, FetchAttachment, Read, Put,
           CleanUp, ListKeys, RemoveObject, RemovedObjects, DeleteCiphers, DropMember, DeleteAccount, Touch
      <3>2. a = req[r].att
        BY <1>2, <3>1 DEF InsertPending, InsertRow, DropPending, Finalize, DeleteRow, AttachTypeOK
      <3>3. req[r].stage \in OwnStages /\ req[r].stage # "read"
        BY <1>2, <2>8 DEF OwnStages
      <3> QED
        BY <3>2, <3>3, OwnRights
    <2> QED
      BY <2>7, <2>8
  <1> QED
    BY <1>1, <1>2

LEMMA AttachInitKnows == AttachInit => AttachTypeOK /\ AllSound /\ AllKnow /\ AllVetted
  <1> SUFFICES ASSUME AttachInit PROVE AttachTypeOK /\ AllSound /\ AllKnow /\ AllVetted
    OBVIOUS
  <1>1. AttachTypeOK
    BY MemberAssumption, IdleSound DEF AttachInit, AttachTypeOK, CronIdle, CronStage
  <1>2. \A r \in Req : req[r] = Idle
    BY DEF AttachInit
  <1>3. AllSound /\ AllKnow /\ AllVetted
    BY <1>2, IdleSound, IdleKnows DEF AllSound, AllKnow, AllVetted, Vetted, Idle
  <1> QED
    BY <1>1, <1>3

LEMMA AttachStepKnows ==
    ASSUME AttachTypeOK, AllSound, AllKnow, AllVetted, [AttachNext]_attachVars
    PROVE  AttachTypeOK' /\ AllSound' /\ AllKnow' /\ AllVetted'
  <1>1. AttachTypeOK' /\ AllSound' /\ AllKnow'
    BY AttachStepSound, KnowsStep
  <1>2. CASE UNCHANGED attachVars
    <2>1. AllVetted'
      BY <1>2 DEF attachVars, AllVetted, Vetted, CanRead, CanWrite
    <2> QED
      BY <1>1, <2>1
  <1> QED
    BY <1>1, <1>2, VettedStep

\* Whatever ids a path or a link names, and however rights fall while a handler runs: the
\* rows of a file change by handlers whose caller could write its cipher when they began,
\* and its object is streamed to callers who could read it then.
THEOREM FilesByRights == AttachSpec => ByRights
  <1>1. AttachTypeOK /\ AllSound /\ AllKnow /\ AllVetted /\ [AttachNext]_attachVars
        => [ByRightsAction]_attachVars
    BY ByRightsStep
  <1>2. AttachTypeOK /\ AllSound /\ AllKnow /\ AllVetted /\ [AttachNext]_attachVars
        => (AttachTypeOK /\ AllSound /\ AllKnow /\ AllVetted)'
    BY AttachStepKnows
  <1> QED
    BY <1>1, <1>2, AttachInitKnows, PTL DEF AttachSpec, ByRights, ByRightsAction

-----------------------------------------------------------------------------
\* What the scheduled purge has found out: the files it has listed are of ciphers it will
\* take, or noted in lost, and it knows the creators of all it may take

CronKnows ==
    /\ cron.left \subseteq cron.files
    /\ cron.stage \notin {"objects", "delete"} => cron.files = {}
    /\ cron.stage = "delete" => cron.left = {}
    /\ \A a \in cron.files : home[a] \in Cipher /\ (trash[home[a]] \in {"old", "gone"} \/ a \in lost)
    /\ cron.stage \in {"count", "list", "objects", "delete"} =>
          \A c \in OldTrash : Creator[c] \in cron.users

\* What a step of handler r leaves as it was: the other handlers, the purge, the cipher of a
\* file; lost and stray grow, and ciphers go.
HomesKept == \A a \in Att : home[a] # None => home'[a] = home[a]
Spares(r) ==
    /\ Alone(r) /\ cron' = cron /\ HomesKept
    /\ lost \subseteq lost' /\ stray \subseteq stray'
    /\ \A c \in Cipher : trash'[c] = trash[c] \/ trash'[c] = "gone"

LEMMA GoneOnly ==
    ASSUME AttachTypeOK, NEW cs, WithoutCiphers(cs)
    PROVE  \A c \in Cipher : trash'[c] = trash[c] \/ trash'[c] = "gone"
  BY DEF WithoutCiphers

LEMMA BeginSpares ==
    ASSUME AttachTypeOK, NEW r \in Req, Requests(r)
    PROVE  /\ Spares(r) /\ row' = row /\ object' = object /\ lost' = lost /\ stray' = stray
           /\ req[r].stage = "idle" /\ req'[r].stage \in {"access", "list"}
           /\ req'[r].files = {} /\ req'[r].left = {}
  <1>1. PICK h : Begin(r, h) /\ Fresh(h)
    BY RequestsFresh
  <1>2. /\ cron' = cron /\ lost' = lost /\ stray' = stray /\ trash' = trash
        /\ row' = row /\ object' = object
    BY <1>1 DEF Begin, tables
  <1>3. Alone(r) /\ req'[r] = h /\ req[r].stage = "idle" /\ home' = home
    BY <1>1, BeginAlone
  <1> QED
    BY <1>1, <1>2, <1>3 DEF Spares, HomesKept, Fresh

LEMMA DieSpares == ASSUME AttachTypeOK, NEW r \in Req, Die(r) PROVE Spares(r)
  <1>1. Alone(r) /\ home' = home
    BY DieKnows
  <1>2. cron' = cron /\ trash' = trash /\ lost \subseteq lost' /\ stray \subseteq stray'
    BY DEF Die, tables
  <1> QED
    BY <1>1, <1>2 DEF Spares, HomesKept

LEMMA HandlingSpares ==
    ASSUME AttachTypeOK, AllSound, AllKnow, NEW r \in Req, Handling(r)
    PROVE  Spares(r)
  <1>1. Alone(r)
    BY AccessKnows, LimitsKnow, HandlingKnows
  <1>2. HomesKept
    <2>1. CASE ~Limits(r)
      BY <2>1, AccessKnows, HandlingKnows DEF HomesKept
    <2>2. CASE Limits(r)
      BY <2>2 DEF Limits, HomesKept, AttachTypeOK
    <2> QED
      BY <2>1, <2>2
  <1>3. cron' = cron /\ lost \subseteq lost' /\ stray \subseteq stray'
    BY DEF Handling, Access, Limits, FetchCipher, FetchPending, FetchAttachment, Read, InsertPending, InsertRow,
       DropPending, Put, CleanUp, Finalize, ListKeys, RemoveObject, RemovedObjects, DeleteRow, DeleteCiphers,
       DropMember, DeleteAccount, Touch, Query, history
  <1>4. \A c \in Cipher : trash'[c] = trash[c] \/ trash'[c] = "gone"
    <2>1. CASE DeleteCiphers(r) \/ DeleteAccount(r)
      BY <2>1, GoneOnly DEF DeleteCiphers, DeleteAccount
    <2>2. CASE ~(DeleteCiphers(r) \/ DeleteAccount(r))
      <3>1. trash' = trash
        BY <2>2 DEF Handling, Query, Access, Limits, FetchCipher, FetchPending, FetchAttachment, Read,
           InsertPending, InsertRow, DropPending, Put, CleanUp, Finalize, ListKeys, RemoveObject,
           RemovedObjects, DeleteRow, DropMember, Touch, tables
      <3> QED
        BY <3>1
    <2> QED
      BY <2>1, <2>2
  <1> QED
    BY <1>1, <1>2, <1>3, <1>4 DEF Spares

LEMMA CronSpared ==
    ASSUME AttachTypeOK, CronKnows, NEW r \in Req, Spares(r)
    PROVE  CronKnows'
  <1>1. cron' = cron /\ cron.files \subseteq Att
    BY DEF Spares, AttachTypeOK
  <1>2. ASSUME NEW a \in cron.files
        PROVE  home'[a] \in Cipher /\ (trash'[home'[a]] \in {"old", "gone"} \/ a \in lost')
    <2>1. home[a] \in Cipher /\ (trash[home[a]] \in {"old", "gone"} \/ a \in lost)
      BY DEF CronKnows
    <2>2. home'[a] = home[a]
      BY <1>1, <2>1, AttachNoneAssumption DEF Spares, HomesKept
    <2> QED
      BY <2>1, <2>2 DEF Spares
  <1>3. ASSUME NEW c \in Cipher, trash'[c] = "old"
        PROVE  trash[c] = "old"
    BY <1>3 DEF Spares
  <1> QED
    BY <1>1, <1>2, <1>3 DEF CronKnows, OldTrash

LEMMA CronKnowsStep ==
    ASSUME AttachTypeOK, AllSound, AllKnow, CronKnows, [AttachNext]_attachVars
    PROVE  CronKnows'
  <1>0. /\ cron \in [stage : CronStage, files : SUBSET Att, left : SUBSET Att, users : SUBSET User]
        /\ None \notin Cipher
    BY AttachNoneAssumption DEF AttachTypeOK
  <1>1. ASSUME NEW r \in Req, Requests(r) \/ Handling(r) \/ Die(r)
        PROVE  CronKnows'
    BY <1>1, BeginSpares, HandlingSpares, DieSpares, CronSpared
  <1>2. CASE Passing
    <2>1. ASSUME NEW c \in Cipher, Trash(c)
          PROVE  CronKnows'
      <3>1. /\ cron' = cron /\ home' = home /\ lost \subseteq lost'
            /\ \A d \in Cipher \ {c} : trash'[d] = trash[d]
            /\ trash'[c] \in {"no", "trash"}
            /\ trash[c] # "no" => \A a \in cron.files : home[a] = c => a \in lost'
        BY <2>1 DEF Trash, AttachTypeOK
      <3>2. ASSUME NEW a \in cron.files
            PROVE  home[a] \in Cipher /\ (trash'[home[a]] \in {"old", "gone"} \/ a \in lost')
        BY <3>1 DEF CronKnows
      <3> QED
        BY <3>1, <3>2 DEF CronKnows, OldTrash
    <2>2. ASSUME NEW c \in Cipher, AgeTrash(c)
          PROVE  CronKnows'
      BY <2>2 DEF AgeTrash, CronIdle, CronKnows
    <2>3. CASE (\E u \in User : Leave(u)) \/ (\E l \in link : Expire(l)) \/ (\E a \in Att : AgePending(a))
      BY <2>3 DEF Leave, Expire, AgePending, tables, history, CronKnows, OldTrash
    <2> QED
      BY <1>2, <2>1, <2>2, <2>3 DEF Passing
  <1>3. CASE CronDie
    BY <1>3 DEF CronDie, CronIdle, CronKnows
  <1>4. CASE CronStart \/ CronPendingCount \/ CronPendingDelete
    BY <1>0, <1>4 DEF CronStart, CronPendingCount, CronPendingDelete, CronGo, tables, history, CronKnows, OldTrash
  <1>5. CASE CronUsers
    BY <1>0, <1>5 DEF CronUsers, tables, history, CronKnows, OldTrash
  <1>6. CASE CronCount
    BY <1>0, <1>6 DEF CronCount, CronGo, CronIdle, tables, history, CronKnows, OldTrash
  <1>7. CASE CronList
    <2> DEFINE keys == {a \in row : home[a] \in OldTrash}
    <2>1. /\ cron.stage = "list" /\ home' = home /\ trash' = trash /\ lost' = lost
          /\ cron' = [cron EXCEPT !.stage = "objects", !.files = keys, !.left = keys]
      BY <1>7 DEF CronList, tables, history
    <2>2. \A a \in keys : home[a] \in Cipher /\ trash[home[a]] = "old"
      BY DEF OldTrash
    <2> HIDE DEF keys
    <2>3. cron'.stage = "objects" /\ cron'.files = keys /\ cron'.left = keys /\ cron'.users = cron.users
      BY <1>0, <2>1
    <2> QED
      BY <2>1, <2>2, <2>3 DEF CronKnows, OldTrash
  <1>8. CASE CronObject
    <2>1. PICK a \in cron.left : cron' = [cron EXCEPT !.left = @ \ {a}]
      BY <1>8 DEF CronObject
    <2>2. home' = home /\ trash' = trash /\ lost \subseteq lost' /\ cron.stage = "objects"
      BY <1>8 DEF CronObject, tables
    <2>3. /\ cron'.stage = cron.stage /\ cron'.files = cron.files /\ cron'.left = cron.left \ {a}
          /\ cron'.users = cron.users
      BY <1>0, <2>1
    <2> QED
      BY <2>2, <2>3 DEF CronKnows, OldTrash
  <1>9. CASE CronObjects
    BY <1>0, <1>9 DEF CronObjects, CronGo, tables, history, CronKnows, OldTrash
  <1>10. CASE CronDelete
    BY <1>0, <1>10 DEF CronDelete, CronKnows
  <1>11. CASE CronTouch
    BY <1>0, <1>11 DEF CronTouch, CronIdle, CronKnows
  <1>12. CASE UNCHANGED attachVars
    BY <1>12 DEF attachVars, CronKnows, OldTrash
  <1> QED
    BY <1>1, <1>2, <1>3, <1>4, <1>5, <1>6, <1>7, <1>8, <1>9, <1>10, <1>11, <1>12 DEF AttachNext, Purging

-----------------------------------------------------------------------------
\* Rows and objects

\* What handler r has found of file a: an upload that is to move the row of a has put its
\* object; a removal has listed the rows of the ciphers it takes, and removed the objects
\* it has done with.  What came in between is noted.
FileSlot(r, a) ==
    /\ At(r, "finalize") /\ req[r].att = a => a \in object \cup lost
    /\ a \in row /\ home[a] \in Taking(req[r]) /\ req[r].route # "delete" =>
          a \in req[r].files \cup stray
    /\ a \in req[r].files \ req[r].left => a \notin object \/ a \in stray

\* The same of the purge.
FileCron(a) ==
    /\ a \in row /\ home[a] \in CronTaking => a \in cron.files \cup stray
    /\ a \in cron.files \ cron.left /\ trash[home[a]] = "old" => a \notin object \/ a \in stray

FilesListed == \A a \in Att : FileCron(a) /\ \A r \in Req : FileSlot(r, a)

\* What is added to what another is taking is noted, and so is what an upload awaits.
Noted ==
    \A a \in Att :
       /\ a \in (row' \ row) \cup (object' \ object) /\ BeingTaken(a) => a \in stray'
       /\ a \in row' \ row => home[a] # None
       /\ a \in object \ object' /\ Awaited(a) => a \in lost'

\* A file that is being listed or taken belongs to a cipher.
LEMMA TakenHome ==
    ASSUME AttachTypeOK, AllSound, AllKnow, CronKnows, NEW a \in Att
    PROVE  /\ a \in row => home[a] # None
           /\ \A r \in Req : /\ a \in req[r].files => home[a] # None /\ home[a] \in Taking(req[r])
                             /\ At(r, "finalize") /\ req[r].att = a => home[a] # None
           /\ a \in cron.files => home[a] # None
  <1>1. a \in row => home[a] # None
    BY DEF AttachTypeOK
  <1>2. ASSUME NEW r \in Req
        PROVE  /\ a \in req[r].files => home[a] # None /\ home[a] \in Taking(req[r])
               /\ At(r, "finalize") /\ req[r].att = a => home[a] # None
    <2>1. Sound(req[r]) /\ Knows(req[r]) /\ req[r] \in Handler
      BY DEF AllSound, AllKnow, AttachTypeOK
    <2>2. Taking(req[r]) \subseteq Cipher
      BY <2>1 DEF Taking, Personal, Handler
    <2>3. a \in req[r].files => home[a] # None /\ home[a] \in Taking(req[r])
      BY <2>1, <2>2, AttachNoneAssumption DEF Knows
    <2>4. At(r, "finalize") /\ req[r].att = a => home[a] # None
      BY <2>1 DEF Sound, FileStages, At
    <2> QED
      BY <2>3, <2>4
  <1>3. a \in cron.files => home[a] # None
    BY AttachNoneAssumption DEF CronKnows
  <1> QED
    BY <1>1, <1>2, <1>3

\* A step of handler r keeps what all others have found.
LEMMA SlotSpared ==
    ASSUME AttachTypeOK, AllSound, AllKnow, CronKnows, FilesListed, NEW r \in Req, Spares(r), Noted,
           NEW s \in Req \ {r}, NEW a \in Att
    PROVE  FileSlot(s, a)'
  <1>1. /\ req'[s] = req[s] /\ FileSlot(s, a)
        /\ lost \subseteq lost' /\ stray \subseteq stray'
    BY DEF Spares, Alone, FilesListed
  <1>2. /\ a \in row => home[a] # None
        /\ a \in req[s].files => home[a] # None /\ home[a] \in Taking(req[s])
        /\ a \in row' \ row => home[a] # None
        /\ home[a] # None => home'[a] = home[a]
    BY TakenHome DEF Noted, Spares, HomesKept
  <1>3. home[a] \in Taking(req[s]) => BeingTaken(a)
    BY DEF BeingTaken
  <1>4. At(s, "finalize") /\ req[s].att = a => Awaited(a)
    BY DEF Awaited
  <1>5. ASSUME req'[s].stage = "finalize", req'[s].att = a
        PROVE  a \in object' \cup lost'
    BY <1>1, <1>4, <1>5 DEF FileSlot, At, Noted
  <1>6. ASSUME a \in row', home'[a] \in Taking(req'[s]), req'[s].route # "delete"
        PROVE  a \in req'[s].files \cup stray'
    <2>1. home[a] \in Taking(req[s]) /\ home[a] # None
      BY <1>1, <1>2, <1>6
    <2> QED
      BY <1>1, <1>3, <1>6, <2>1 DEF FileSlot, Noted
  <1>7. ASSUME a \in req'[s].files \ req'[s].left
        PROVE  a \notin object' \/ a \in stray'
    BY <1>1, <1>2, <1>3, <1>7 DEF FileSlot, Noted
  <1> QED
    BY <1>5, <1>6, <1>7 DEF FileSlot, At, Taking, Personal

LEMMA CronFilesSpared ==
    ASSUME AttachTypeOK, AllSound, AllKnow, CronKnows, FilesListed, NEW r \in Req, Spares(r), Noted,
           NEW a \in Att
    PROVE  FileCron(a)'
  <1>1. /\ cron' = cron /\ FileCron(a) /\ stray \subseteq stray'
        /\ \A c \in Cipher : trash'[c] = "old" => trash[c] = "old"
    BY DEF Spares, FilesListed
  <1>2. /\ a \in row => home[a] # None
        /\ a \in cron.files => home[a] # None /\ home[a] \in Cipher
        /\ a \in row' \ row => home[a] # None
        /\ home[a] # None => home'[a] = home[a]
    BY TakenHome DEF Noted, Spares, HomesKept, CronKnows
  <1>3. CronTaking' \subseteq CronTaking
    BY <1>1 DEF CronTaking
  <1>4. home[a] \in CronTaking => BeingTaken(a)
    BY DEF BeingTaken
  <1>5. ASSUME a \in row', home'[a] \in CronTaking'
        PROVE  a \in cron'.files \cup stray'
    BY <1>1, <1>2, <1>3, <1>4, <1>5 DEF FileCron, Noted
  <1>6. ASSUME a \in cron'.files \ cron'.left, trash'[home'[a]] = "old"
        PROVE  a \notin object' \/ a \in stray'
    <2>1. home'[a] = home[a] /\ trash[home[a]] = "old"
      BY <1>1, <1>2, <1>6
    <2>2. home[a] \in CronTaking
      BY <1>1, <1>2, <1>6, <2>1 DEF CronKnows, CronTaking
    <2> QED
      BY <1>1, <1>4, <1>6, <2>1, <2>2 DEF FileCron, Noted
  <1> QED
    BY <1>5, <1>6 DEF FileCron

\* What is left to show of a step of handler r.
LEMMA ListedStep ==
    ASSUME AttachTypeOK, AllSound, AllKnow, CronKnows, FilesListed, NEW r \in Req, Spares(r), Noted,
           \A a \in Att : FileSlot(r, a)'
    PROVE  FilesListed'
  <1>1. \A a \in Att : FileCron(a)'
    BY CronFilesSpared
  <1>2. \A a \in Att, s \in Req : FileSlot(s, a)'
    <2>1. \A a \in Att, s \in Req \ {r} : FileSlot(s, a)'
      BY SlotSpared
    <2> QED
      BY <2>1
  <1> QED
    BY <1>1, <1>2 DEF FilesListed

\* A handler that takes nothing away need only have put the object whose row it is to move.
LEMMA SlotFree ==
    ASSUME NEW r \in Req, Knows(req[r])', req'[r].stage \notin TakingStages,
           req'[r].stage = "finalize" => req'[r].att \in object' \cup lost'
    PROVE  \A a \in Att : FileSlot(r, a)'
  <1>1. Taking(req'[r]) = {}
    BY DEF Taking, TakingStages
  <1>2. req'[r].files = {}
    BY <1>1 DEF Knows, TakingStages, Taking, Personal
  <1> QED
    BY <1>1, <1>2 DEF FileSlot, At, Taking, Personal

\* Handler r puts, or is to put, the object of the row it has inserted.
Placing(h, a) == h.stage = "put" /\ h.route = "legacy" /\ h.att = a
\* It has put the object of a and not dealt with its row.
Placed(h, a) == h.stage \in {"finalize", "cleanUp"} /\ h.att = a

\* A row after a step of handler r: it was there with its object or a handler that accounts
\* for that, or r accounts for it.
LEMMA PresentAfter ==
    ASSUME NEW r \in Req, Spares(r), FilesPresent,
           \A a \in row' \ row : a \in object' \cup lost' \/ Placing(req'[r], a),
           \A a \in (object \ object') \cap row' :
              a \in lost' \cup cron.files \cup req'[r].files \/ Placing(req'[r], a),
           \A a \in (req[r].files \ req'[r].files) \cap row' : a \in lost',
           \A a \in row' : Placing(req[r], a) => a \in object' \cup lost' \/ Placing(req'[r], a)
    PROVE  FilesPresent'
  <1> SUFFICES ASSUME NEW a \in row' \ lost'
               PROVE  \/ a \in object' \cup cron'.files
                      \/ \E s \in Req : a \in req'[s].files \/ Placing(req'[s], a)
    BY DEF FilesPresent, Placing, At
  <1>1. cron' = cron /\ lost \subseteq lost' /\ \A s \in Req \ {r} : req'[s] = req[s]
    BY DEF Spares, Alone
  <1>2. CASE a \notin row
    BY <1>2
  <1>3. CASE a \in row
    <2>1. \/ a \in object \cup cron.files
          \/ \E s \in Req : a \in req[s].files \/ Placing(req[s], a)
      BY <1>1, <1>3 DEF FilesPresent, Placing, At
    <2>2. CASE a \in object
      BY <1>1, <1>3, <2>2
    <2>3. CASE a \in cron.files
      BY <1>1, <2>3
    <2>4. ASSUME NEW s \in Req, a \in req[s].files \/ Placing(req[s], a)
          PROVE  \/ a \in object' \cup cron'.files
                 \/ \E t \in Req : a \in req'[t].files \/ Placing(req'[t], a)
      <3>1. CASE s = r
        BY <2>4, <3>1
      <3>2. CASE s # r
        BY <1>1, <2>4, <3>2
      <3> QED
        BY <3>1, <3>2
    <2> QED
      BY <2>1, <2>2, <2>3, <2>4
  <1> QED
    BY <1>2, <1>3

\* An object after a step of handler r: it has its row, or r accounts for it.
LEMMA OwnedAfter ==
    ASSUME NEW r \in Req, Spares(r), NoOrphanObjects,
           \A a \in object' \ object : a \in row' \cup stray' \/ Placed(req'[r], a),
           \A a \in (row \ row') \cap object' : a \in stray',
           \A a \in object' : Placed(req[r], a) => a \in row' \cup stray' \/ Placed(req'[r], a)
    PROVE  NoOrphanObjects'
  <1> SUFFICES ASSUME NEW a \in object' \ (row' \cup stray')
               PROVE  \E s \in Req : Placed(req'[s], a)
    BY DEF NoOrphanObjects, Placed
  <1>1. stray \subseteq stray' /\ \A s \in Req \ {r} : req'[s] = req[s]
    BY DEF Spares, Alone
  <1>2. CASE a \notin object \/ a \in row
    BY <1>2
  <1>3. CASE a \in object \ row
    <2>1. PICK s \in Req : Placed(req[s], a)
      BY <1>1, <1>3 DEF NoOrphanObjects, Placed
    <2>2. CASE s = r
      BY <2>1, <2>2
    <2>3. CASE s # r
      BY <1>1, <2>1, <2>3
    <2> QED
      BY <2>2, <2>3
  <1> QED
    BY <1>2, <1>3

FileInv == FilesListed /\ FilesPresent /\ NoOrphanObjects

\* A step of handler r that touches neither a row nor an object, by which it gives up no
\* file it has listed or put.
LEMMA StillFiles ==
    ASSUME AttachTypeOK, AllSound, AllKnow, CronKnows, FileInv, NEW r \in Req, Spares(r),
           row' = row, object' = object,
           req[r].stage \notin {"put", "finalize", "cleanUp"}, req[r].files \subseteq req'[r].files,
           \A a \in Att : FileSlot(r, a)'
    PROVE  FileInv'
  <1>1. Noted
    BY DEF Noted
  <1>2. FilesListed'
    BY <1>1, ListedStep DEF FileInv
  <1>3. \A a \in Att : ~Placing(req[r], a) /\ ~Placed(req[r], a)
    BY DEF Placing, Placed
  <1>4. row' \subseteq Att /\ object' \subseteq Att
    BY DEF AttachTypeOK
  <1>5. FilesPresent'
    BY <1>3, <1>4, PresentAfter DEF FileInv
  <1>6. NoOrphanObjects'
    BY <1>3, <1>4, OwnedAfter DEF FileInv
  <1> QED
    BY <1>2, <1>5, <1>6 DEF FileInv

\* The same where it has listed nothing and lists nothing.
LEMMA QuietFiles ==
    ASSUME AttachTypeOK, AllSound, AllKnow, CronKnows, FileInv, NEW r \in Req, Spares(r), Knows(req[r])',
           row' = row, object' = object,
           req[r].stage \notin TakingStages \cup {"put", "finalize", "cleanUp"},
           req'[r].stage \notin TakingStages \cup {"finalize"}
    PROVE  FileInv'
  <1>1. req[r].files = {}
    BY NothingListed DEF AllKnow
  <1>2. \A a \in Att : FileSlot(r, a)'
    BY SlotFree
  <1> QED
    BY <1>1, <1>2, StillFiles

\* A handler that begins, asks a query, or changes neither a row nor an object.
LEMMA RequestsFiles ==
    ASSUME AttachTypeOK, AllSound, AllKnow, CronKnows, FileInv, NEW r \in Req, Requests(r), AllKnow'
    PROVE  FileInv'
  <1>1. /\ Spares(r) /\ row' = row /\ object' = object
        /\ req[r].stage = "idle" /\ req'[r].stage \in {"access", "list"} /\ Knows(req[r])'
    BY BeginSpares DEF AllKnow
  <1> QED
    BY <1>1, QuietFiles DEF TakingStages

\* The actions of a handler by which no file comes or goes and none is listed.
Looking(r) ==
    \/ Access(r) \/ FetchCipher(r) \/ Limits(r) \/ FetchPending(r) \/ Read(r) \/ InsertPending(r)
    \/ DropPending(r) \/ DropMember(r) \/ Touch(r)

LEMMA LookingStages ==
    ASSUME AttachTypeOK, NEW r \in Req, Looking(r)
    PROVE  /\ row' = row /\ object' = object
           /\ req[r].stage \notin TakingStages \cup {"put", "finalize", "cleanUp"}
           /\ req'[r].stage \notin TakingStages \cup {"finalize"}
  <1>1. row' = row /\ object' = object
    BY DEF Looking, Access, FetchCipher, Limits, FetchPending, Read, InsertPending, DropPending, DropMember, Touch,
       Query, tables
  <1>2. req[r].stage \notin TakingStages \cup {"put", "finalize", "cleanUp"}
    BY DEF Looking, Access, FetchCipher, Limits, FetchPending, Read, InsertPending, DropPending, DropMember, Touch, At,
       TakingStages
  <1>3. req[r] \in Handler
    BY DEF AttachTypeOK
  <1>4. req'[r].stage \notin TakingStages \cup {"finalize"}
    <2>1. CASE Finish(r)
      BY <2>1, Ended DEF TakingStages
    <2>2. ASSUME NEW stage \in {"limits", "pending", "attachment", "put", "dropPending", "account"},
                 Proceed(r, stage)
          PROVE  req'[r].stage \notin TakingStages \cup {"finalize"}
      BY <2>2, Moved DEF TakingStages
    <2>3. CASE Access(r) /\ ~Finish(r)
      <3>1. PICK c \in req[r].vet :
               Goto(r, [req[r] EXCEPT !.vet = @ \ {c},
                                      !.stage = IF req[r].vet # {c} THEN "access"
                                                ELSE IF req[r].route = "hardDelete" THEN "list" ELSE "cipher"])
        BY <2>3 DEF Access
      <3> DEFINE g == [req[r] EXCEPT !.vet = @ \ {c},
                                     !.stage = IF req[r].vet # {c} THEN "access"
                                               ELSE IF req[r].route = "hardDelete" THEN "list" ELSE "cipher"]
      <3>2. g.stage \in {"access", "list", "cipher"}
        BY <1>3 DEF Handler
      <3>3. Goto(r, g)
        BY <3>1
      <3> HIDE DEF g
      <3> QED
        BY <3>2, <3>3, Became DEF TakingStages
    <2>4. CASE Limits(r) /\ ~Finish(r)
      <3>1. PICK a \in Att :
               Goto(r, [req[r] EXCEPT !.att = a,
                                      !.stage = IF req[r].route = "create" THEN "insertPending" ELSE "insertRow"])
        BY <2>4 DEF Limits
      <3> DEFINE g == [req[r] EXCEPT !.att = a,
                                     !.stage = IF req[r].route = "create" THEN "insertPending" ELSE "insertRow"]
      <3>2. g.stage \in {"insertPending", "insertRow"}
        BY <1>3 DEF Handler
      <3>3. Goto(r, g)
        BY <3>1
      <3> HIDE DEF g
      <3> QED
        BY <3>2, <3>3, Became DEF TakingStages
    <2>5. CASE (FetchCipher(r) \/ FetchPending(r) \/ DropMember(r)) /\ ~Finish(r)
      BY <2>2, <2>5 DEF FetchCipher, FetchPending, DropMember
    <2>6. Read(r) \/ InsertPending(r) \/ DropPending(r) \/ Touch(r) => Finish(r)
      BY DEF Read, InsertPending, DropPending, Touch
    <2> QED
      BY <2>1, <2>3, <2>4, <2>5, <2>6 DEF Looking
  <1> QED
    BY <1>1, <1>2, <1>4

LEMMA LookingFiles ==
    ASSUME AttachTypeOK, AllSound, AllKnow, CronKnows, FileInv, NEW r \in Req, Looking(r), Spares(r), Knows(req[r])'
    PROVE  FileInv'
  BY LookingStages, QuietFiles

LEMMA FetchAttachmentFiles ==
    ASSUME AttachTypeOK, AllSound, AllKnow, CronKnows, FileInv, NEW r \in Req, FetchAttachment(r), Spares(r),
           Knows(req[r])'
    PROVE  FileInv'
  <1> DEFINE h == req[r]
  <1>1. h \in Handler /\ Knows(h) /\ h.stage = "attachment" /\ row' = row /\ object' = object
    BY DEF AttachTypeOK, AllKnow, FetchAttachment, At, tables
  <1>2. CASE Finish(r)
    <2>1. req'[r].stage = "idle"
      BY <1>2, Ended
    <2> QED
      BY <1>1, <2>1, QuietFiles DEF TakingStages
  <1>3. CASE Proceed(r, "read")
    <2>1. req'[r].stage = "read"
      BY <1>3, Moved
    <2> QED
      BY <1>1, <2>1, QuietFiles DEF TakingStages
  <1>4. CASE ~Finish(r) /\ ~Proceed(r, "read")
    <2> DEFINE g == [h EXCEPT !.stage = "objects", !.files = {h.att}, !.left = {h.att}]
    <2>1. Goto(r, g) /\ h.route \notin {"get", "download"}
      BY <1>4 DEF FetchAttachment
    <2>2. req'[r] = g
      BY <2>1, Became
    <2>3. g.stage = "objects" /\ g.files = {h.att} /\ g.left = {h.att} /\ g.route = h.route
      BY <1>1 DEF Handler
    <2>4. h.route = "delete" /\ h.files = {}
      BY <1>1, <2>1, NothingListed DEF Knows, RoutesAt, TakingStages
    <2> HIDE DEF g
    <2>5. \A a \in Att : FileSlot(r, a)'
      BY <2>2, <2>3, <2>4 DEF FileSlot, At
    <2>6. h.files \subseteq req'[r].files
      BY <2>4
    <2> QED
      BY <1>1, <2>5, <2>6, StillFiles
  <1> QED
    BY <1>2, <1>3, <1>4

\* All rows of the ciphers it takes are listed.
LEMMA ListKeysFiles ==
    ASSUME AttachTypeOK, AllSound, AllKnow, CronKnows, FileInv, NEW r \in Req, ListKeys(r), Spares(r)
    PROVE  FileInv'
  <1> DEFINE h == req[r]
             cs == IF h.route = "hardDelete" THEN h.cs ELSE Personal(h.user)
             keys == {a \in row : home[a] \in cs}
             g == [h EXCEPT !.files = keys, !.left = keys, !.stage = "objects"]
  <1>1. /\ h \in Handler /\ Knows(h) /\ h.stage = "list" /\ row' = row /\ object' = object /\ home' = home
        /\ Goto(r, g)
    BY DEF AttachTypeOK, AllKnow, ListKeys, At, Query, tables
  <1>2. req'[r] = g
    BY <1>1, Became
  <1>3. /\ g.stage = "objects" /\ g.files = keys /\ g.left = keys /\ g.route = h.route
        /\ g.user = h.user /\ g.cs = h.cs
    BY <1>1 DEF Handler
  <1>4. h.route \in {"hardDelete", "purgeVault", "deleteAccount"} /\ h.files = {}
    BY <1>1, NothingListed DEF Knows, RoutesAt, TakingStages
  <1>5. \A a \in row : home[a] \in cs => a \in keys
    OBVIOUS
  <1> HIDE DEF g, keys
  <1>6. Taking(g) = cs
    BY <1>3, <1>4 DEF Taking
  <1> HIDE DEF cs
  <1>7. Taking(req[r])' = cs
    BY <1>2, <1>6 DEF Taking, Personal
  <1>8. \A a \in Att : FileSlot(r, a)'
    BY <1>1, <1>2, <1>3, <1>5, <1>7 DEF FileSlot, At
  <1>9. h.files \subseteq req'[r].files
    BY <1>4
  <1> QED
    BY <1>1, <1>8, <1>9, StillFiles

LEMMA RemovedObjectsFiles ==
    ASSUME AttachTypeOK, AllSound, AllKnow, CronKnows, FileInv, NEW r \in Req, RemovedObjects(r), Spares(r)
    PROVE  FileInv'
  <1> DEFINE h == req[r]
  <1>1. /\ Knows(h) /\ h.stage = "objects" /\ row' = row /\ object' = object /\ home' = home
        /\ stray' = stray /\ lost' = lost
    BY DEF AllKnow, RemovedObjects, At, Query, tables, history
  <1>2. PICK stage \in {"deleteRow", "deleteCiphers", "deletePersonal"} : Proceed(r, stage)
    BY DEF RemovedObjects
  <1>3. /\ req'[r].stage = stage /\ req'[r].route = h.route /\ req'[r].user = h.user
        /\ req'[r].cs = h.cs /\ req'[r].att = h.att
        /\ req'[r].files = h.files /\ req'[r].left = h.left
    BY <1>2, Moved
  <1>4. Taking(req[r])' = Taking(h)
    BY <1>1, <1>3 DEF Taking, Personal
  <1>5. ASSUME NEW a \in Att
        PROVE  FileSlot(r, a)'
    <2>1. FileSlot(r, a)
      BY DEF FileInv, FilesListed
    <2> QED
      BY <1>1, <1>3, <1>4, <2>1 DEF FileSlot, At
  <1> QED
    BY <1>1, <1>3, <1>5, StillFiles

\* A row before its object: the handler is to put it.
LEMMA InsertRowFiles ==
    ASSUME AttachTypeOK, AllSound, AllKnow, CronKnows, FileInv, NEW r \in Req, InsertRow(r), Spares(r),
           Knows(req[r])'
    PROVE  FileInv'
  <1> DEFINE h == req[r]
  <1>1. Knows(h) /\ Sound(h) /\ h.stage = "insertRow" /\ object' = object
    BY DEF AllKnow, AllSound, InsertRow, At
  <1>2. CASE Finish(r) /\ row' = row
    <2>1. req'[r].stage = "idle"
      BY <1>2, Ended
    <2> QED
      BY <1>1, <1>2, <2>1, QuietFiles DEF TakingStages
  <1>3. CASE ~(Finish(r) /\ row' = row)
    <2>1. /\ row' = row \cup {h.att} /\ Proceed(r, "put")
          /\ BeingTaken(h.att) => h.att \in stray'
      BY <1>3 DEF InsertRow
    <2>2. /\ req'[r].stage = "put" /\ req'[r].route = h.route /\ req'[r].att = h.att
          /\ req'[r].files = h.files
      BY <2>1, Moved
    <2>3. h.route = "legacy" /\ h.att \in Att /\ home[h.att] # None /\ h.files = {}
      BY <1>1, NothingListed DEF Knows, Sound, RoutesAt, FileStages, TakingStages
    <2>4. Noted
      BY <1>1, <2>1, <2>3 DEF Noted
    <2>5. FilesListed'
      BY <2>2, <2>4, SlotFree, ListedStep DEF FileInv, TakingStages
    <2>6. Placing(req'[r], h.att) /\ \A a \in Att : ~Placing(h, a) /\ ~Placed(h, a)
      BY <1>1, <2>2, <2>3 DEF Placing, Placed
    <2>7. row' \subseteq Att /\ object' \subseteq Att
      BY <1>1, <2>1, <2>3 DEF AttachTypeOK
    <2>8. FilesPresent'
      BY <1>1, <2>1, <2>3, <2>6, <2>7, PresentAfter DEF FileInv
    <2>9. NoOrphanObjects'
      BY <1>1, <2>1, <2>6, <2>7, OwnedAfter DEF FileInv
    <2> QED
      BY <2>5, <2>8, <2>9 DEF FileInv
  <1> QED
    BY <1>2, <1>3

\* The object: its row is there, or the handler is to see to it.
LEMMA PutFiles ==
    ASSUME AttachTypeOK, AllSound, AllKnow, CronKnows, FileInv, NEW r \in Req, Put(r), Spares(r),
           Knows(req[r])'
    PROVE  FileInv'
  <1> DEFINE h == req[r]
  <1>1. /\ Knows(h) /\ Sound(h) /\ h.stage = "put" /\ row' = row /\ object' = object \cup {h.att}
        /\ stray' = IF BeingTaken(h.att) \/ (h.route = "legacy" /\ h.att \notin row)
                    THEN stray \cup {h.att} ELSE stray
    BY DEF AllKnow, AllSound, Put, At, tables
  <1>2. PICK stage \in {"touch", "finalize", "cleanUp"} :
           Proceed(r, stage) /\ (stage = "touch" => h.route = "legacy")
    BY DEF Put
  <1>3. req'[r].stage = stage /\ req'[r].att = h.att /\ req'[r].files = h.files
    BY <1>2, Moved
  <1>4. h.att \in Att /\ h.files = {}
    BY <1>1, NothingListed DEF Sound, FileStages, TakingStages
  <1>5. Noted
    BY <1>1 DEF Noted
  <1>6. FilesListed'
    BY <1>1, <1>3, <1>5, SlotFree, ListedStep DEF FileInv, TakingStages
  <1>7. row' \subseteq Att /\ object' \subseteq Att
    BY <1>1, <1>4 DEF AttachTypeOK
  <1>8. \A a \in Att : ~Placed(h, a) /\ (Placing(h, a) => a = h.att)
    BY <1>1 DEF Placed, Placing
  <1>9. FilesPresent'
    BY <1>1, <1>4, <1>7, <1>8, PresentAfter DEF FileInv
  <1>10. h.att \in row' \cup stray' \/ Placed(req'[r], h.att)
    BY <1>1, <1>2, <1>3 DEF Placed
  <1>11. NoOrphanObjects'
    BY <1>1, <1>7, <1>8, <1>10, OwnedAfter DEF FileInv
  <1> QED
    BY <1>6, <1>9, <1>11 DEF FileInv

LEMMA CleanUpFiles ==
    ASSUME AttachTypeOK, AllSound, AllKnow, CronKnows, FileInv, NEW r \in Req, CleanUp(r), Spares(r),
           Knows(req[r])'
    PROVE  FileInv'
  <1> DEFINE h == req[r]
  <1>1. /\ Knows(h) /\ h.stage = "cleanUp" /\ row' = row /\ object' = object \ {h.att}
        /\ h.att \in row \/ Awaited(h.att) => h.att \in lost'
    BY DEF AllKnow, CleanUp, At, tables
  <1>2. req'[r].stage = "idle" /\ req'[r].files = {}
    BY Ended DEF CleanUp
  <1>3. h.files = {} /\ \A a \in Att : ~Placing(h, a) /\ (Placed(h, a) => a = h.att)
    BY <1>1, NothingListed DEF TakingStages, Placing, Placed
  <1>4. Noted
    BY <1>1 DEF Noted
  <1>5. FilesListed'
    BY <1>2, <1>4, SlotFree, ListedStep DEF FileInv, TakingStages
  <1>6. row' \subseteq Att /\ object' \subseteq Att
    BY <1>1 DEF AttachTypeOK
  <1>7. FilesPresent'
    BY <1>1, <1>3, <1>6, PresentAfter DEF FileInv
  <1>8. NoOrphanObjects'
    BY <1>1, <1>3, <1>6, OwnedAfter DEF FileInv
  <1> QED
    BY <1>5, <1>7, <1>8 DEF FileInv

\* The row after its object.
LEMMA FinalizeFiles ==
    ASSUME AttachTypeOK, AllSound, AllKnow, CronKnows, FileInv, NEW r \in Req, Finalize(r), Spares(r),
           Knows(req[r])'
    PROVE  FileInv'
  <1> DEFINE h == req[r]
             gone == trash[home[h.att]] = "gone"
  <1>1. /\ Knows(h) /\ Sound(h) /\ h.stage = "finalize" /\ object' = object /\ lost' = lost
        /\ stray' = IF gone \/ (h.att \notin row /\ BeingTaken(h.att)) THEN stray \cup {h.att} ELSE stray
    BY DEF AllKnow, AllSound, Finalize, At
  <1>2. PICK stage \in {"idle", "touch"} :
           /\ req'[r].stage = stage
           /\ stage = "idle" => (gone \/ h.att \in row) /\ row' = row
           /\ stage = "touch" => ~gone /\ h.att \notin row /\ row' = row \cup {h.att}
    BY Ended, Moved DEF Finalize
  <1>3. h.att \in Att /\ home[h.att] # None /\ h.att \in object \cup lost
    BY <1>1 DEF Sound, FileStages, FileInv, FilesListed, FileSlot, At
  <1>4. h.files = {} /\ \A a \in Att : ~Placing(h, a) /\ (Placed(h, a) => a = h.att)
    BY <1>1, NothingListed DEF TakingStages, Placing, Placed
  <1>5. Noted
    BY <1>1, <1>2, <1>3 DEF Noted
  <1>6. FilesListed'
    BY <1>2, <1>5, SlotFree, ListedStep DEF FileInv, TakingStages
  <1>7. row' \subseteq Att /\ object' \subseteq Att
    BY <1>1, <1>2, <1>3 DEF AttachTypeOK
  <1>8. FilesPresent'
    BY <1>1, <1>2, <1>3, <1>4, <1>7, PresentAfter DEF FileInv
  <1>9. h.att \in row' \cup stray'
    BY <1>1, <1>2
  <1>10. NoOrphanObjects'
    BY <1>1, <1>2, <1>4, <1>7, <1>9, OwnedAfter DEF FileInv
  <1> QED
    BY <1>6, <1>8, <1>10 DEF FileInv

LEMMA RemoveObjectFiles ==
    ASSUME AttachTypeOK, AllSound, AllKnow, CronKnows, FileInv, NEW r \in Req, RemoveObject(r), Spares(r),
           Knows(req[r])'
    PROVE  FileInv'
  <1> DEFINE h == req[r]
  <1>1. h \in Handler /\ Knows(h) /\ h.stage = "objects" /\ row' = row /\ home' = home /\ stray' = stray
    BY DEF AttachTypeOK, AllKnow, RemoveObject, At, tables
  <1>2. PICK b \in h.left :
           /\ object' = object \ {b} /\ (Awaited(b) => b \in lost')
           /\ Goto(r, [h EXCEPT !.left = @ \ {b}])
    BY DEF RemoveObject
  <1> DEFINE g == [h EXCEPT !.left = @ \ {b}]
  <1>3. req'[r] = g
    BY <1>2, Became
  <1>4. /\ g.stage = "objects" /\ g.files = h.files /\ g.left = h.left \ {b} /\ g.route = h.route
        /\ g.user = h.user /\ g.cs = h.cs /\ g.att = h.att
    BY <1>1 DEF Handler
  <1> HIDE DEF g
  <1>5. Taking(req[r])' = Taking(h)
    BY <1>1, <1>3, <1>4 DEF Taking, Personal
  <1>6. ASSUME NEW a \in Att
        PROVE  FileSlot(r, a)'
    <2>1. FileSlot(r, a)
      BY DEF FileInv, FilesListed
    <2> QED
      BY <1>1, <1>2, <1>3, <1>4, <1>5, <2>1 DEF FileSlot, At
  <1>7. Noted
    BY <1>1, <1>2 DEF Noted
  <1>8. FilesListed'
    BY <1>6, <1>7, ListedStep DEF FileInv
  <1>9. b \in h.files /\ \A a \in Att : ~Placing(h, a) /\ ~Placed(h, a)
    BY <1>1 DEF Knows, Placing, Placed
  <1>10. row' \subseteq Att /\ object' \subseteq Att
    BY <1>1, <1>2 DEF AttachTypeOK
  <1>11. FilesPresent'
    BY <1>1, <1>2, <1>3, <1>4, <1>9, <1>10, PresentAfter DEF FileInv
  <1>12. NoOrphanObjects'
    BY <1>1, <1>2, <1>9, <1>10, OwnedAfter DEF FileInv
  <1> QED
    BY <1>8, <1>11, <1>12 DEF FileInv

\* A handler takes away rows whose objects it has removed.
LEMMA RowsGone ==
    ASSUME AttachTypeOK, AllSound, AllKnow, CronKnows, FileInv, NEW r \in Req, Spares(r), Knows(req[r])',
           row' \subseteq row, object' = object,
           req[r].stage \notin {"put", "finalize", "cleanUp"},
           req'[r].stage \notin TakingStages \cup {"finalize"},
           \A a \in req[r].files : a \notin row',
           \A a \in row \ row' : a \notin object \/ a \in stray'
    PROVE  FileInv'
  <1>1. Noted
    BY DEF Noted
  <1>2. FilesListed'
    BY <1>1, SlotFree, ListedStep DEF FileInv
  <1>3. \A a \in Att : ~Placing(req[r], a) /\ ~Placed(req[r], a)
    BY DEF Placing, Placed
  <1>4. row' \subseteq Att /\ object' \subseteq Att
    BY DEF AttachTypeOK
  <1>5. FilesPresent'
    BY <1>3, <1>4, PresentAfter DEF FileInv
  <1>6. NoOrphanObjects'
    BY <1>3, <1>4, OwnedAfter DEF FileInv
  <1> QED
    BY <1>2, <1>5, <1>6 DEF FileInv

LEMMA DeleteRowFiles ==
    ASSUME AttachTypeOK, AllSound, AllKnow, CronKnows, FileInv, NEW r \in Req, DeleteRow(r), Spares(r),
           Knows(req[r])'
    PROVE  FileInv'
  <1> DEFINE h == req[r]
             g == [h EXCEPT !.stage = "touch", !.files = {}]
  <1>1. /\ h \in Handler /\ Knows(h) /\ h.stage = "deleteRow" /\ row' = row \ {h.att} /\ object' = object
        /\ stray' = stray /\ Goto(r, g)
    BY DEF AttachTypeOK, AllKnow, DeleteRow, At
  <1>2. req'[r] = g /\ g.stage = "touch"
    BY <1>1, Became DEF Handler
  <1> HIDE DEF g
  <1>3. h.files = {h.att} /\ h.left = {}
    BY <1>1 DEF Knows, RoutesAt, TakingStages
  <1>4. h.att \in Att => (h.att \notin object \/ h.att \in stray)
    BY <1>3 DEF FileInv, FilesListed, FileSlot
  <1>5. row \subseteq Att
    BY DEF AttachTypeOK
  <1> QED
    BY <1>1, <1>2, <1>3, <1>4, <1>5, RowsGone DEF TakingStages

LEMMA DeleteCiphersFiles ==
    ASSUME AttachTypeOK, AllSound, AllKnow, CronKnows, FileInv, NEW r \in Req, DeleteCiphers(r), Spares(r),
           Knows(req[r])'
    PROVE  FileInv'
  <1> DEFINE h == req[r]
             cs == IF h.route = "hardDelete" THEN h.cs ELSE Personal(h.user)
             g == [h EXCEPT !.stage = IF h.route = "deleteAccount" THEN "dropMember" ELSE "touch",
                            !.files = {}]
  <1>1. /\ h \in Handler /\ Knows(h) /\ h.stage \in {"deleteCiphers", "deletePersonal"}
        /\ row' = {a \in row : home[a] \notin cs} /\ object' = object /\ stray' = stray /\ Goto(r, g)
    BY DEF AttachTypeOK, AllKnow, DeleteCiphers, WithoutCiphers
  <1>2. req'[r] = g /\ g.stage \in {"dropMember", "touch"}
    BY <1>1, Became DEF Handler
  <1> HIDE DEF g
  <1>3. /\ h.route \in {"hardDelete", "purgeVault", "deleteAccount"} /\ h.left = {}
        /\ \A a \in h.files : home[a] \in Taking(h)
    BY <1>1 DEF Knows, RoutesAt, TakingStages
  <1>4. Taking(h) = cs
    BY <1>1, <1>3 DEF Taking
  <1> HIDE DEF cs
  <1>5. row \subseteq Att
    BY DEF AttachTypeOK
  <1>6. ASSUME NEW a \in row \ row'
        PROVE  a \notin object \/ a \in stray
    <2>1. FileSlot(r, a) /\ home[a] \in Taking(h)
      BY <1>1, <1>4, <1>5 DEF FileInv, FilesListed
    <2> QED
      BY <1>3, <2>1 DEF FileSlot
  <1> QED
    BY <1>1, <1>2, <1>3, <1>4, <1>6, RowsGone DEF TakingStages

LEMMA DeleteAccountFiles ==
    ASSUME AttachTypeOK, AllSound, AllKnow, CronKnows, FileInv, NEW r \in Req, DeleteAccount(r), Spares(r),
           Knows(req[r])'
    PROVE  FileInv'
  <1> DEFINE cs == {c \in Cipher : Creator[c] = req[r].user}
  <1>1. /\ req[r].stage = "account" /\ row' = {a \in row : home[a] \notin cs} /\ object' = object
        /\ stray' = stray \cup {a \in Att : home[a] \in cs}
    BY DEF DeleteAccount, WithoutCiphers, At
  <1>2. req'[r].stage = "idle" /\ req[r].files = {}
    BY <1>1, Ended, NothingListed DEF DeleteAccount, AllKnow, TakingStages
  <1>3. row \subseteq Att
    BY DEF AttachTypeOK
  <1> HIDE DEF cs
  <1> QED
    BY <1>1, <1>2, <1>3, RowsGone DEF TakingStages

\* What a handler that dies has listed, put or was to put is noted.
LEMMA DieFiles ==
    ASSUME AttachTypeOK, AllSound, AllKnow, CronKnows, FileInv, NEW r \in Req, Die(r), Spares(r),
           Knows(req[r])'
    PROVE  FileInv'
  <1> DEFINE h == req[r]
  <1>1. Knows(h) /\ row' = row /\ object' = object
    BY DEF AllKnow, Die, tables
  <1>2. req'[r].stage = "idle"
    BY Ended DEF Die
  <1>3. ASSUME NEW a \in h.files
        PROVE  a \in lost'
    <2>1. home[a] \in Taking(h)
      BY <1>1, <1>3 DEF Knows
    <2>2. Taking(h) # {} /\ h.stage # "put"
      BY <2>1 DEF Taking
    <2>3. lost' = lost \cup h.files
      BY <2>2 DEF Die
    <2> QED
      BY <1>3, <2>3
  <1>4. ASSUME NEW a \in Att, Placing(h, a)
        PROVE  a \in lost'
    <2>1. Taking(h) = {} /\ h.route = "legacy" /\ h.stage = "put" /\ h.att = a
      BY <1>4 DEF Placing, Taking
    <2>2. lost' = lost \cup {h.att}
      BY <2>1 DEF Die
    <2> QED
      BY <2>1, <2>2
  <1>5. ASSUME NEW a \in Att, Placed(h, a)
        PROVE  a \in stray'
    BY <1>5 DEF Die, Placed
  <1>6. Noted
    BY <1>1 DEF Noted
  <1>7. FilesListed'
    BY <1>2, <1>6, SlotFree, ListedStep DEF FileInv, TakingStages
  <1>8. row' \subseteq Att /\ object' \subseteq Att
    BY <1>1 DEF AttachTypeOK
  <1>9. FilesPresent'
    BY <1>1, <1>3, <1>4, <1>8, PresentAfter DEF FileInv
  <1>10. NoOrphanObjects'
    BY <1>1, <1>5, <1>8, OwnedAfter DEF FileInv
  <1> QED
    BY <1>7, <1>9, <1>10 DEF FileInv

LEMMA HandlingFiles ==
    ASSUME AttachTypeOK, AllSound, AllKnow, CronKnows, FileInv, NEW r \in Req, Handling(r), AllKnow'
    PROVE  FileInv'
  <1>1. Spares(r) /\ Knows(req[r])'
    BY HandlingSpares DEF AllKnow
  <1>2. CASE Looking(r)
    BY <1>1, <1>2, LookingFiles
  <1>3. CASE FetchAttachment(r) \/ ListKeys(r) \/ RemovedObjects(r)
    BY <1>1, <1>3, FetchAttachmentFiles, ListKeysFiles, RemovedObjectsFiles
  <1>4. CASE InsertRow(r) \/ Put(r) \/ CleanUp(r) \/ Finalize(r)
    BY <1>1, <1>4, InsertRowFiles, PutFiles, CleanUpFiles, FinalizeFiles
  <1>5. CASE RemoveObject(r) \/ DeleteRow(r) \/ DeleteCiphers(r) \/ DeleteAccount(r)
    BY <1>1, <1>5, RemoveObjectFiles, DeleteRowFiles, DeleteCiphersFiles, DeleteAccountFiles
  <1> QED
    BY <1>2, <1>3, <1>4, <1>5 DEF Handling, Looking

\* A step of no handler, which brings no row and no object.
LEMMA AsideFiles ==
    ASSUME AttachTypeOK, FileInv, req' = req, home' = home, row' \subseteq row, object' \subseteq object,
           stray' = stray, lost \subseteq lost',
           \A a \in object \ object' : Awaited(a) => a \in lost',
           \A a \in (object \ object') \cap row' : a \in cron'.files \cup lost',
           \A a \in (cron.files \ cron'.files) \cap row' : a \in lost',
           \A a \in (row \ row') \cap object' : a \in stray,
           \A a \in Att : FileCron(a)'
    PROVE  FileInv'
  <1>1. row \subseteq Att /\ object \subseteq Att
    BY DEF AttachTypeOK
  <1>2. ASSUME NEW a \in Att, NEW r \in Req
        PROVE  FileSlot(r, a)'
    <2>1. FileSlot(r, a)
      BY DEF FileInv, FilesListed
    <2>2. At(r, "finalize") /\ req[r].att = a => Awaited(a)
      BY DEF Awaited
    <2> QED
      BY <2>1, <2>2 DEF FileSlot, At, Taking, Personal
  <1>3. FilesListed'
    BY <1>2 DEF FilesListed
  <1>4. FilesPresent'
    BY <1>1 DEF FileInv, FilesPresent, At
  <1>5. NoOrphanObjects'
    BY <1>1 DEF FileInv, NoOrphanObjects
  <1> QED
    BY <1>3, <1>4, <1>5 DEF FileInv

\* A step that leaves rows and objects, and of the purge the files it has listed.
LEMMA StillAside ==
    ASSUME AttachTypeOK, CronKnows, FileInv, req' = req, home' = home, row' = row, object' = object,
           stray' = stray, lost \subseteq lost',
           cron'.files = cron.files, cron'.left = cron.left,
           CronTaking' \subseteq CronTaking,
           \A c \in Cipher : trash'[c] = "old" => trash[c] = "old" \/ cron.files = {}
    PROVE  FileInv'
  <1>1. ASSUME NEW a \in Att
        PROVE  FileCron(a)'
    <2>1. FileCron(a) /\ (a \in cron.files => home[a] \in Cipher)
      BY DEF FileInv, FilesListed, CronKnows
    <2> QED
      BY <2>1 DEF FileCron
  <1> QED
    BY <1>1, AsideFiles

LEMMA PassingFiles ==
    ASSUME AttachTypeOK, CronKnows, FileInv, Passing
    PROVE  FileInv'
  <1>1. ASSUME NEW c \in Cipher, Trash(c)
        PROVE  FileInv'
    <2>1. /\ req' = req /\ home' = home /\ row' = row /\ object' = object /\ stray' = stray
          /\ lost \subseteq lost' /\ cron' = cron
          /\ \A d \in Cipher : trash'[d] = "old" => trash[d] = "old"
      BY <1>1 DEF Trash, AttachTypeOK
    <2>2. CronTaking' \subseteq CronTaking
      BY <2>1 DEF CronTaking
    <2> QED
      BY <2>1, <2>2, StillAside
  <1>2. ASSUME NEW c \in Cipher, AgeTrash(c)
        PROVE  FileInv'
    <2>1. /\ req' = req /\ home' = home /\ row' = row /\ object' = object /\ stray' = stray
          /\ lost' = lost /\ cron' = cron /\ cron = CronIdle
      BY <1>2 DEF AgeTrash, history
    <2>2. cron.files = {} /\ CronTaking' = {}
      BY <2>1 DEF CronIdle, CronTaking
    <2> QED
      BY <2>1, <2>2, StillAside
  <1>3. CASE (\E u \in User : Leave(u)) \/ (\E l \in link : Expire(l)) \/ (\E a \in Att : AgePending(a))
    <2>1. /\ req' = req /\ home' = home /\ row' = row /\ object' = object /\ stray' = stray
          /\ lost' = lost /\ cron' = cron /\ trash' = trash
      BY <1>3 DEF Leave, Expire, AgePending, tables, history
    <2>2. CronTaking' = CronTaking
      BY <2>1 DEF CronTaking
    <2> QED
      BY <2>1, <2>2, StillAside
  <1> QED
    BY <1>1, <1>2, <1>3 DEF Passing

LEMMA CronFiles ==
    ASSUME AttachTypeOK, AllSound, AllKnow, CronKnows, FileInv, Purging \/ CronDie
    PROVE  FileInv'
  <1>0. cron \in [stage : CronStage, files : SUBSET Att, left : SUBSET Att, users : SUBSET User]
    BY DEF AttachTypeOK
  <1>1. CASE CronStart \/ CronPendingCount \/ CronPendingDelete \/ CronUsers \/ CronCount \/ CronTouch
    <2>1. /\ req' = req /\ home' = home /\ row' = row /\ object' = object /\ stray' = stray
          /\ lost' = lost /\ trash' = trash
          /\ cron.stage \notin {"objects", "delete"}
      BY <1>1 DEF CronStart, CronPendingCount, CronPendingDelete, CronUsers, CronCount, CronTouch, tables, history
    <2>2. cron.files = {} /\ cron.left = {}
      BY <2>1 DEF CronKnows
    <2>3. cron'.files = {} /\ cron'.left = {} /\ cron'.stage \notin {"objects", "delete"}
      <3>1. CASE CronStart \/ CronPendingCount \/ CronPendingDelete \/ CronUsers
        BY <1>0, <2>2, <3>1 DEF CronStart, CronPendingCount, CronPendingDelete, CronUsers, CronGo
      <3>2. CASE CronCount
        BY <1>0, <2>2, <3>2 DEF CronCount, CronGo, CronIdle
      <3>3. CASE CronTouch
        BY <1>0, <2>1, <2>2, <3>3 DEF CronTouch, CronIdle
      <3> QED
        BY <1>1, <3>1, <3>2, <3>3
    <2>4. CronTaking' \subseteq CronTaking
      BY <2>3 DEF CronTaking
    <2> QED
      BY <2>1, <2>2, <2>3, <2>4, StillAside
  <1>2. CASE CronList
    <2> DEFINE keys == {a \in row : home[a] \in OldTrash}
    <2>1. /\ req' = req /\ home' = home /\ row' = row /\ object' = object /\ stray' = stray
          /\ lost' = lost /\ trash' = trash /\ cron.stage = "list"
          /\ cron' = [cron EXCEPT !.stage = "objects", !.files = keys, !.left = keys]
      BY <1>2 DEF CronList, tables, history
    <2>2. \A a \in row : home[a] \in OldTrash => a \in keys
      OBVIOUS
    <2> HIDE DEF keys
    <2>3. cron'.files = keys /\ cron'.left = keys
      BY <1>0, <2>1
    <2>4. CronTaking' \subseteq OldTrash
      BY <2>1 DEF CronTaking, OldTrash
    <2>5. \A a \in Att : FileCron(a)'
      BY <2>1, <2>2, <2>3, <2>4 DEF FileCron
    <2>6. cron.files = {}
      BY <2>1 DEF CronKnows
    <2> QED
      BY <2>1, <2>5, <2>6, AsideFiles
  <1>3. CASE CronObject
    <2>1. PICK b \in cron.left : /\ object' = object \ {b} /\ (Awaited(b) => b \in lost')
                                 /\ cron' = [cron EXCEPT !.left = @ \ {b}]
      BY <1>3 DEF CronObject
    <2>2. /\ req' = req /\ home' = home /\ row' = row /\ stray' = stray
          /\ lost \subseteq lost' /\ trash' = trash /\ cron.stage = "objects"
      BY <1>3 DEF CronObject, tables
    <2>3. cron'.stage = cron.stage /\ cron'.files = cron.files /\ cron'.left = cron.left \ {b}
      BY <1>0, <2>1
    <2>4. CronTaking' = CronTaking /\ b \in cron.files
      BY <2>2, <2>3 DEF CronTaking, CronKnows
    <2>5. ASSUME NEW a \in Att
          PROVE  FileCron(a)'
      <3>1. FileCron(a)
        BY DEF FileInv, FilesListed
      <3> QED
        BY <2>1, <2>2, <2>3, <2>4, <3>1 DEF FileCron
    <2> QED
      BY <2>1, <2>2, <2>3, <2>4, <2>5, AsideFiles
  <1>4. CASE CronObjects
    <2>1. /\ req' = req /\ home' = home /\ row' = row /\ object' = object /\ stray' = stray
          /\ lost' = lost /\ trash' = trash /\ cron.stage = "objects"
          /\ cron' = [cron EXCEPT !.stage = "delete"]
      BY <1>4 DEF CronObjects, CronGo, tables, history
    <2>2. cron'.stage = "delete" /\ cron'.files = cron.files /\ cron'.left = cron.left
      BY <1>0, <2>1
    <2>3. CronTaking' = CronTaking
      BY <2>1, <2>2 DEF CronTaking
    <2> QED
      BY <2>1, <2>2, <2>3, StillAside
  <1>5. CASE CronDelete
    <2>1. /\ req' = req /\ home' = home /\ object' = object /\ stray' = stray /\ lost' = lost
          /\ row' = {a \in row : home[a] \notin OldTrash} /\ cron.stage = "delete"
          /\ cron' = [cron EXCEPT !.stage = "touch", !.files = {}]
      BY <1>5 DEF CronDelete, WithoutCiphers
    <2>2. cron'.stage = "touch" /\ cron'.files = {} /\ cron.left = {}
      BY <1>0, <2>1 DEF CronKnows
    <2>3. CronTaking' = {} /\ CronTaking = OldTrash
      BY <2>1, <2>2 DEF CronTaking, OldTrash
    <2>4. \A a \in Att : FileCron(a)'
      BY <2>2, <2>3 DEF FileCron
    <2>5. row \subseteq Att
      BY DEF AttachTypeOK
    <2>6. ASSUME NEW a \in cron.files, a \in row'
          PROVE  a \in lost
      <3>1. home[a] \in Cipher /\ (trash[home[a]] \in {"old", "gone"} \/ a \in lost)
        BY <2>6 DEF CronKnows
      <3>2. home[a] \notin OldTrash /\ trash[home[a]] # "gone"
        BY <2>1, <2>5, <2>6 DEF AttachTypeOK
      <3> QED
        BY <3>1, <3>2 DEF OldTrash
    <2>7. ASSUME NEW a \in row \ row'
          PROVE  a \notin object \/ a \in stray
      <3>1. FileCron(a) /\ home[a] \in OldTrash
        BY <2>1, <2>5, <2>7 DEF FileInv, FilesListed
      <3> QED
        BY <2>2, <2>3, <2>7, <3>1 DEF FileCron, OldTrash
    <2> QED
      BY <2>1, <2>2, <2>4, <2>6, <2>7, AsideFiles
  <1>6. CASE CronDie
    <2>1. /\ req' = req /\ home' = home /\ row' = row /\ object' = object /\ stray' = stray
          /\ lost' = lost \cup cron.files /\ cron' = CronIdle
      BY <1>6 DEF CronDie, tables
    <2>2. \A a \in Att : FileCron(a)'
      BY <2>1 DEF FileCron, CronTaking, CronIdle
    <2> QED
      BY <2>1, <2>2, AsideFiles
  <1> QED
    BY <1>1, <1>2, <1>3, <1>4, <1>5, <1>6 DEF Purging

AttachInv == AttachTypeOK /\ AllSound /\ AllKnow /\ CronKnows /\ FileInv

LEMMA AttachInvStep == AttachInv /\ [AttachNext]_attachVars => AttachInv'
  <1> SUFFICES ASSUME AttachTypeOK, AllSound, AllKnow, CronKnows, FileInv, [AttachNext]_attachVars
               PROVE  AttachInv'
    BY DEF AttachInv
  <1>1. AttachTypeOK' /\ AllSound' /\ AllKnow' /\ CronKnows'
    BY AttachStepSound, KnowsStep, CronKnowsStep
  <1>2. CASE UNCHANGED attachVars
    <2>1. /\ req' = req /\ home' = home /\ row' = row /\ object' = object /\ stray' = stray
          /\ lost' = lost /\ cron' = cron /\ trash' = trash
      BY <1>2 DEF attachVars
    <2>2. CronTaking' = CronTaking
      BY <2>1 DEF CronTaking
    <2> QED
      BY <1>1, <2>1, <2>2, StillAside DEF AttachInv
  <1>3. CASE AttachNext
    <2>1. FileInv'
      BY <1>1, <1>3, RequestsFiles, HandlingFiles, DieFiles, DieSpares, DieKnows, PassingFiles, CronFiles DEF AttachNext
    <2> QED
      BY <1>1, <2>1 DEF AttachInv
  <1> QED
    BY <1>2, <1>3

\* A removal never finds rows it has not listed nor leaves objects it has, but for what is
\* noted; so rows keep their objects and objects their rows.
THEOREM AttachFilesKept == AttachSpec => []AttachInv
  <1>1. AttachInit => AttachInv
    <2> SUFFICES ASSUME AttachInit PROVE AttachInv
      OBVIOUS
    <2>1. CronKnows
      BY DEF AttachInit, CronKnows, CronIdle
    <2>2. FileInv
      BY DEF AttachInit, FileInv, FilesListed, FileSlot, FileCron, FilesPresent, NoOrphanObjects, Idle, CronIdle, At
    <2> QED
      BY <2>1, <2>2, AttachInitKnows DEF AttachInv
  <1> QED
    BY <1>1, AttachInvStep, PTL DEF AttachSpec

\* Whatever the interleaving of uploads, removals and purges: a row of attachments has its
\* object, unless a legacy upload or a removal of it is under way or one of the causes noted
\* in lost came about.
THEOREM AttachFilesPresent == AttachSpec => []FilesPresent
  <1>1. AttachInv => FilesPresent
    BY DEF AttachInv, FileInv
  <1> QED
    BY <1>1, AttachFilesKept, PTL

\* And an object has its row, unless an upload has just put it or one of the causes noted in
\* stray came about.
THEOREM AttachFilesOwned == AttachSpec => []NoOrphanObjects
  <1>1. AttachInv => NoOrphanObjects
    BY DEF AttachInv, FileInv
  <1> QED
    BY <1>1, AttachFilesKept, PTL

-----------------------------------------------------------------------------
\* Who is still to be told

\* Handler h is yet to tell u, by its last query or because u is the account it deletes.
OwedBy(h, u) ==
    \/ (h.stage = "touch" \/ (h.stage = "put" /\ h.route = "legacy")) /\ u \in Told(h)
    \/ h.stage \in {"dropMember", "account"} /\ h.user = u
Owed(u) ==
    \/ cron.stage = "touch" /\ u \in cron.users
    \/ \E r \in Req : OwedBy(req[r], u)

Telling == excused = {} => \A u \in untold : Owed(u)

\* Whoever can read a cipher that a handler has vetted is among those it tells.
LEMMA ReaderTold ==
    ASSUME NEW h, Sound(h), h.vet = {}, NEW c \in h.cs, NEW u \in User, CanRead(u, c)
    PROVE  u \in Told(h)
  <1>1. c \in Shared \/ Creator[c] = h.user
    BY DEF Sound
  <1>2. CASE c \in Shared
    BY <1>2 DEF CanRead, Told
  <1>3. CASE c \notin Shared
    <2>1. u = h.user /\ h.cs \ Shared # {}
      BY <1>1, <1>3 DEF CanRead
    <2> QED
      BY <2>1 DEF Told
  <1> QED
    BY <1>2, <1>3

\* A list changes by a file whose row comes or goes, and that one could read.
LEMMA ViewOfRow ==
    ASSUME AttachTypeOK, NEW b \in Att, row' \in {row \cup {b}, row \ {b}},
           home' = home, trash' = trash, member' = member, NEW u \in User, View(u)' # View(u)
    PROVE  CanRead(u, home[b])
  <1>1. \A c : CanRead(u, c)' <=> CanRead(u, c)
    BY DEF CanRead
  <1>2. View(u)' = {a \in row' : CanRead(u, home[a])}
    BY <1>1 DEF View, CanRead
  <1>3. ASSUME ~CanRead(u, home[b])
        PROVE  View(u)' = View(u)
    BY <1>2, <1>3 DEF View
  <1> QED
    BY <1>3

LEMMA ViewOfCiphers ==
    ASSUME AttachTypeOK, NEW cs, WithoutCiphers(cs), home' = home, member' = member,
           NEW u \in User, View(u)' # View(u)
    PROVE  \E a \in row : home[a] \in cs /\ home[a] \in Cipher /\ CanRead(u, home[a])
  <1>1. row' = {a \in row : home[a] \notin cs} /\ \A a \in row : home[a] \in Cipher
    BY DEF AttachTypeOK, WithoutCiphers
  <1>2. \A a \in row' : CanRead(u, home[a])' <=> CanRead(u, home[a])
    BY <1>1 DEF WithoutCiphers, CanRead
  <1>3. View(u)' = {a \in row' : CanRead(u, home[a])}
    BY <1>2 DEF View, CanRead
  <1>4. ASSUME \A a \in row : home[a] \in cs => ~CanRead(u, home[a])
        PROVE  View(u)' = View(u)
    BY <1>1, <1>3, <1>4 DEF View
  <1> QED
    BY <1>1, <1>4

\* What is left to show of a step of handler r.
LEMMA TellStep ==
    ASSUME Telling, NEW r \in Req, Alone(r), cron' = cron, member' = member, excused \subseteq excused',
           excused' = {} => \A u \in untold' : (u \in untold /\ ~OwedBy(req[r], u)) \/ OwedBy(req[r], u)'
    PROVE  Telling'
  <1> SUFFICES ASSUME excused' = {}, NEW u \in untold'
               PROVE  Owed(u)'
    BY DEF Telling
  <1>1. CASE OwedBy(req[r], u)'
    BY <1>1 DEF Owed
  <1>2. CASE u \in untold /\ ~OwedBy(req[r], u)
    <2>1. CASE cron.stage = "touch" /\ u \in cron.users
      BY <2>1 DEF Owed
    <2>2. CASE ~(cron.stage = "touch" /\ u \in cron.users)
      <3>1. PICK s \in Req : OwedBy(req[s], u)
        BY <1>2, <2>2 DEF Telling, Owed
      <3>2. req'[s] = req[s]
        BY <1>2, <3>1 DEF Alone
      <3>3. OwedBy(req[s], u)'
        BY <3>1, <3>2 DEF OwedBy, Told
      <3> QED
        BY <3>3 DEF Owed
    <2> QED
      BY <2>1, <2>2
  <1> QED
    BY <1>1, <1>2

\* The handlers that owe nothing yet, and add nobody.
LEMMA TellQuiet ==
    ASSUME Telling, NEW r \in Req, Alone(r), cron' = cron, member' = member, excused \subseteq excused',
           untold' \subseteq untold, req[r].stage \notin {"touch", "put", "dropMember", "account"}
    PROVE  Telling'
  BY TellStep DEF OwedBy

\* Handler r notes whose list changed.
LEMMA TellNoting ==
    ASSUME AttachTypeOK, Telling, NEW r \in Req, Alone(r), cron' = cron, member' = member,
           excused' = excused, Noting, req[r].stage \notin {"touch", "put", "dropMember", "account"},
           \A u \in User : View(u)' # View(u) => OwedBy(req[r], u)'
    PROVE  Telling'
  <1>1. \A u \in untold' : u \in untold \/ (u \in User /\ View(u)' # View(u))
    BY DEF Noting
  <1>2. \A u \in untold' : (u \in untold /\ ~OwedBy(req[r], u)) \/ OwedBy(req[r], u)'
    BY <1>1 DEF OwedBy
  <1> QED
    BY <1>2, TellStep

\* A step of r by which the row of its file comes or goes, after which r tells.
LEMMA TellRow ==
    ASSUME AttachTypeOK, AllSound, AllKnow, Telling, NEW r \in Req, Alone(r), cron' = cron, member' = member,
           excused' = excused, home' = home, trash' = trash, Noting,
           req[r].stage \in {"insertRow", "finalize", "deleteRow"},
           row' \in {row \cup {req[r].att}, row \ {req[r].att}},
           req'[r].stage = "touch" \/ (req'[r].stage = "put" /\ req'[r].route = "legacy"),
           req'[r].route = req[r].route, req'[r].user = req[r].user, req'[r].cs = req[r].cs
    PROVE  Telling'
  <1>1. Sound(req[r]) /\ Knows(req[r])
    BY DEF AllSound, AllKnow
  <1>2. req[r].att \in Att /\ req[r].vet = {} /\ home[req[r].att] \in req[r].cs
    BY <1>1 DEF Sound, Knows, FileStages, OwnStages
  <1>3. ASSUME NEW u \in User, View(u)' # View(u)
        PROVE  OwedBy(req[r], u)'
    <2>1. CanRead(u, home[req[r].att])
      BY <1>2, <1>3, ViewOfRow
    <2>2. u \in Told(req[r])
      BY <1>1, <1>2, <2>1, ReaderTold
    <2>3. u \in Told(req[r])'
      BY <2>2 DEF Told
    <2> QED
      BY <2>3 DEF OwedBy
  <1> QED
    BY <1>3, TellNoting

\* The rows are as they were.
LEMMA TellSame ==
    ASSUME Telling, NEW r \in Req, Alone(r), cron' = cron, member' = member, excused' = excused,
           home' = home, trash' = trash, row' = row, Noting,
           req[r].stage \notin {"touch", "put", "dropMember", "account"}
    PROVE  Telling'
  <1>1. \A u \in User : View(u)' = View(u)
    BY DEF View, CanRead
  <1>2. untold' \subseteq untold
    BY <1>1 DEF Noting
  <1> QED
    BY <1>2, TellQuiet

LEMMA InsertRowTells ==
    ASSUME AttachTypeOK, AllSound, AllKnow, Telling, NEW r \in Req, InsertRow(r), Spares(r)
    PROVE  Telling'
  <1>1. /\ Alone(r) /\ cron' = cron /\ member' = member /\ excused' = excused /\ home' = home /\ trash' = trash
        /\ Noting /\ req[r].stage = "insertRow"
    BY DEF Spares, InsertRow, At, people
  <1>2. CASE row' = row
    BY <1>1, <1>2, TellSame
  <1>3. CASE row' # row
    <2>1. row' = row \cup {req[r].att} /\ Proceed(r, "put")
      BY <1>3 DEF InsertRow
    <2>2. /\ req'[r].stage = "put" /\ req'[r].route = req[r].route /\ req'[r].user = req[r].user
          /\ req'[r].cs = req[r].cs
      BY <2>1, Moved
    <2>3. req[r].route = "legacy"
      BY <1>1 DEF AllKnow, Knows, RoutesAt
    <2> QED
      BY <1>1, <2>1, <2>2, <2>3, TellRow
  <1> QED
    BY <1>2, <1>3

LEMMA FinalizeTells ==
    ASSUME AttachTypeOK, AllSound, AllKnow, Telling, NEW r \in Req, Finalize(r), Spares(r)
    PROVE  Telling'
  <1>1. /\ Alone(r) /\ cron' = cron /\ member' = member /\ excused' = excused /\ home' = home /\ trash' = trash
        /\ Noting /\ req[r].stage = "finalize"
    BY DEF Spares, Finalize, At, people
  <1>2. CASE row' = row
    BY <1>1, <1>2, TellSame
  <1>3. CASE row' # row
    <2>1. row' = row \cup {req[r].att} /\ Proceed(r, "touch")
      BY <1>3 DEF Finalize
    <2>2. /\ req'[r].stage = "touch" /\ req'[r].route = req[r].route /\ req'[r].user = req[r].user
          /\ req'[r].cs = req[r].cs
      BY <2>1, Moved
    <2> QED
      BY <1>1, <2>1, <2>2, TellRow
  <1> QED
    BY <1>2, <1>3

LEMMA DeleteRowTells ==
    ASSUME AttachTypeOK, AllSound, AllKnow, Telling, NEW r \in Req, DeleteRow(r), Spares(r)
    PROVE  Telling'
  <1> DEFINE g == [req[r] EXCEPT !.stage = "touch", !.files = {}]
  <1>1. /\ Alone(r) /\ cron' = cron /\ member' = member /\ excused' = excused /\ home' = home /\ trash' = trash
        /\ Noting /\ req[r].stage = "deleteRow" /\ row' = row \ {req[r].att} /\ Goto(r, g)
        /\ req[r] \in Handler
    BY DEF Spares, DeleteRow, At, people, AttachTypeOK
  <1>2. g.stage = "touch" /\ g.route = req[r].route /\ g.user = req[r].user /\ g.cs = req[r].cs
    BY <1>1 DEF Handler
  <1>3. req'[r] = g
    BY <1>1, Became
  <1> HIDE DEF g
  <1> QED
    BY <1>1, <1>2, <1>3, TellRow

LEMMA DeleteCiphersTells ==
    ASSUME AttachTypeOK, AllSound, AllKnow, Telling, NEW r \in Req, DeleteCiphers(r), Spares(r)
    PROVE  Telling'
  <1> DEFINE h == req[r]
             cs == IF h.route = "hardDelete" THEN h.cs ELSE Personal(h.user)
             stage == IF h.route = "deleteAccount" THEN "dropMember" ELSE "touch"
             g == [h EXCEPT !.stage = stage, !.files = {}]
  <1>1. /\ Alone(r) /\ cron' = cron /\ member' = member /\ excused' = excused /\ home' = home /\ WithoutCiphers(cs)
        /\ Noting /\ h.stage \in {"deleteCiphers", "deletePersonal"} /\ Goto(r, g)
        /\ h \in Handler /\ Sound(h) /\ Knows(h)
    BY DEF Spares, DeleteCiphers, people, AttachTypeOK, AllSound, AllKnow
  <1>2. /\ g.stage = stage
        /\ g.route = h.route /\ g.user = h.user /\ g.cs = h.cs
    BY <1>1 DEF Handler
  <1>3. req'[r] = g
    BY <1>1, Became
  <1> HIDE DEF g
  <1>4. h.vet = {} /\ h.route \in {"hardDelete", "purgeVault", "deleteAccount"}
    BY <1>1 DEF Sound, Knows, RoutesAt
  <1>5. ASSUME NEW u \in User, View(u)' # View(u)
        PROVE  OwedBy(req[r], u)'
    <2>1. PICK a \in row : home[a] \in cs /\ home[a] \in Cipher /\ CanRead(u, home[a])
      BY <1>1, <1>5, ViewOfCiphers
    <2>2. CASE h.route = "hardDelete"
      <3>1. u \in Told(h)
        BY <1>1, <1>4, <2>1, <2>2, ReaderTold
      <3>2. u \in Told(req[r])'
        BY <1>1, <1>2, <1>3, <3>1 DEF Told
      <3> QED
        BY <1>2, <1>3, <2>2, <3>2 DEF OwedBy
    <2>3. CASE h.route # "hardDelete"
      <3>1. u = h.user
        BY <2>1, <2>3 DEF Personal, CanRead
      <3>2. CASE h.route = "deleteAccount"
        BY <1>2, <1>3, <3>1, <3>2 DEF OwedBy
      <3>3. CASE h.route = "purgeVault"
        <4>1. u \in Told(req[r])'
          BY <1>2, <1>3, <3>1, <3>3 DEF Told
        <4> QED
          BY <1>2, <1>3, <3>3, <4>1 DEF OwedBy
      <3> QED
        BY <1>4, <2>3, <3>2, <3>3
    <2> QED
      BY <2>2, <2>3
  <1> QED
    BY <1>1, <1>5, TellNoting

\* The object of a legacy upload: who is to be told stays so.
LEMMA PutTells ==
    ASSUME AttachTypeOK, Telling, NEW r \in Req, Put(r), Spares(r)
    PROVE  Telling'
  <1>1. /\ Alone(r) /\ cron' = cron /\ member' = member /\ excused' = excused /\ untold' = untold
        /\ req[r].stage = "put"
    BY DEF Spares, Put, At, tables, people
  <1>2. PICK stage \in {"touch", "finalize", "cleanUp"} :
           Proceed(r, stage) /\ (req[r].route = "legacy" => stage = "touch")
    BY DEF Put
  <1>3. /\ req'[r].stage = stage /\ req'[r].route = req[r].route /\ req'[r].user = req[r].user
        /\ req'[r].cs = req[r].cs
    BY <1>2, Moved
  <1>4. \A u \in untold' : OwedBy(req[r], u) => OwedBy(req[r], u)'
    BY <1>1, <1>2, <1>3 DEF OwedBy, Told
  <1> QED
    BY <1>1, <1>4, TellStep

LEMMA TouchTells ==
    ASSUME AttachTypeOK, Telling, NEW r \in Req, Touch(r), Spares(r)
    PROVE  Telling'
  <1>1. /\ Alone(r) /\ cron' = cron /\ member' = member /\ excused' = excused
        /\ req[r].stage = "touch" /\ untold' = untold \ Told(req[r])
    BY DEF Spares, Touch, At, tables, people
  <1>2. \A u \in untold' : ~OwedBy(req[r], u)
    BY <1>1 DEF OwedBy
  <1> QED
    BY <1>1, <1>2, TellStep

\* The cascade from an account is excused.
LEMMA DeleteAccountTells ==
    ASSUME Telling, NEW r \in Req, DeleteAccount(r)
    PROVE  Telling'
  BY DEF DeleteAccount, Telling

\* A member that deletes its account is told when the account goes.
LEMMA DropMemberTells ==
    ASSUME AttachTypeOK, Telling, NEW r \in Req, DropMember(r), Spares(r)
    PROVE  Telling'
  <1>1. /\ cron' = cron /\ untold' = untold /\ excused' = excused /\ \A s \in Req \ {r} : req'[s] = req[s]
        /\ req[r].stage = "dropMember" /\ member' = [member EXCEPT ![req[r].user] = "no"]
    BY DEF Spares, Alone, DropMember, At, history
  <1>2. req'[r].stage = "account" /\ req'[r].user = req[r].user
    BY Moved DEF DropMember
  <1> SUFFICES ASSUME excused' = {}, NEW u \in untold'
               PROVE  Owed(u)'
    BY DEF Telling
  <1>3. CASE u = req[r].user
    <2>1. OwedBy(req[r], u)'
      BY <1>2, <1>3 DEF OwedBy
    <2> QED
      BY <2>1 DEF Owed
  <1>4. CASE u # req[r].user
    <2>1. CASE cron.stage = "touch" /\ u \in cron.users
      BY <1>1, <2>1 DEF Owed
    <2>2. CASE ~(cron.stage = "touch" /\ u \in cron.users)
      <3>1. PICK s \in Req : OwedBy(req[s], u)
        BY <1>1, <2>2 DEF Telling, Owed
      <3>2. s # r
        BY <1>1, <1>4, <3>1 DEF OwedBy
      <3>3. req'[s] = req[s] /\ member'[u] = member[u] /\ u \in User
        BY <1>1, <1>4, <3>2 DEF AttachTypeOK
      <3>4. u \in Told(req[s]) => u \in Told(req[s])'
        BY <3>3 DEF Told
      <3>5. OwedBy(req[s], u)'
        BY <3>1, <3>3, <3>4 DEF OwedBy
      <3> QED
        BY <3>5 DEF Owed
    <2> QED
      BY <2>1, <2>2
  <1> QED
    BY <1>3, <1>4

\* A handler that dies owing is excused.
LEMMA DieTells ==
    ASSUME AttachTypeOK, Telling, NEW r \in Req, Die(r), Spares(r)
    PROVE  Telling'
  <1>1. Alone(r) /\ cron' = cron /\ member' = member /\ untold' = untold /\ excused \subseteq excused'
    BY DEF Spares, Die, tables, people
  <1>2. excused' = {} => \A u \in untold' : ~OwedBy(req[r], u)
    BY DEF Die, OwedBy
  <1> QED
    BY <1>1, <1>2, TellStep

LEMMA HandlingTells ==
    ASSUME AttachTypeOK, AllSound, AllKnow, Telling, NEW r \in Req, Handling(r)
    PROVE  Telling'
  <1>1. Spares(r) /\ Alone(r) /\ cron' = cron
    BY HandlingSpares DEF Spares
  <1>2. CASE InsertRow(r) \/ Finalize(r) \/ DeleteRow(r) \/ DeleteCiphers(r)
    BY <1>1, <1>2, InsertRowTells, FinalizeTells, DeleteRowTells, DeleteCiphersTells
  <1>3. CASE Put(r) \/ Touch(r) \/ DropMember(r) \/ DeleteAccount(r)
    BY <1>1, <1>3, PutTells, TouchTells, DropMemberTells, DeleteAccountTells
  <1>4. CASE \/ Access(r) \/ FetchCipher(r) \/ Limits(r) \/ FetchPending(r) \/ FetchAttachment(r) \/ Read(r)
             \/ InsertPending(r) \/ DropPending(r) \/ CleanUp(r) \/ ListKeys(r) \/ RemoveObject(r)
             \/ RemovedObjects(r)
    <2>1. member' = member /\ excused' = excused /\ untold' = untold
      BY <1>4 DEF Access, Limits, FetchCipher, FetchPending, FetchAttachment, Read, InsertPending, DropPending,
         CleanUp, ListKeys, RemoveObject, RemovedObjects, Query, tables, people, history
    <2>2. req[r].stage \notin {"touch", "put", "dropMember", "account"}
      BY <1>4 DEF Access, Limits, FetchCipher, FetchPending, FetchAttachment, Read, InsertPending, DropPending,
         CleanUp, ListKeys, RemoveObject, RemovedObjects, At
    <2> QED
      BY <1>1, <2>1, <2>2, TellQuiet
  <1> QED
    BY <1>2, <1>3, <1>4 DEF Handling

LEMMA RequestsTell ==
    ASSUME AttachTypeOK, Telling, NEW r \in Req, Requests(r)
    PROVE  Telling'
  <1>1. PICK h : Begin(r, h)
    BY RequestsFresh
  <1>2. member' = member /\ excused' = excused /\ untold' = untold /\ cron' = cron
    BY <1>1 DEF Begin, tables, people
  <1>3. Alone(r) /\ req[r].stage = "idle"
    BY <1>1, BeginAlone
  <1> QED
    BY <1>2, <1>3, TellQuiet

\* Who is owed stays so in a step that removes no membership, while the purge goes on.
LEMMA OwedSame ==
    ASSUME NEW u \in User, Owed(u), req' = req, member'[u] # "no" \/ member'[u] = member[u],
           cron.stage = "touch" /\ u \in cron.users => cron'.stage = "touch" /\ u \in cron'.users
    PROVE  Owed(u)'
  <1>1. CASE cron.stage = "touch" /\ u \in cron.users
    BY <1>1 DEF Owed
  <1>2. ASSUME NEW s \in Req, OwedBy(req[s], u)
        PROVE  Owed(u)'
    <2>1. u \in Told(req[s]) => u \in Told(req[s])'
      BY DEF Told
    <2>2. OwedBy(req[s], u)'
      BY <1>2, <2>1 DEF OwedBy
    <2> QED
      BY <2>2 DEF Owed
  <1> QED
    BY <1>1, <1>2 DEF Owed

LEMMA PassingTells ==
    ASSUME AttachTypeOK, Telling, Passing
    PROVE  Telling'
  <1> SUFFICES ASSUME excused' = {}, NEW v \in untold'
               PROVE  Owed(v)'
    BY DEF Telling
  <1>1. ASSUME NEW u \in User, Leave(u)
        PROVE  Owed(v)'
    <2>1. /\ cron' = cron /\ req' = req /\ excused' = excused /\ v \in untold
          /\ \A w \in User \ {u} : member'[w] = member[w]
          /\ v # u \/ member'[u] # "no"
      BY <1>1 DEF Leave, AttachTypeOK
    <2>2. Owed(v) /\ v \in User
      BY <2>1 DEF Telling, AttachTypeOK
    <2>3. member'[v] # "no" \/ member'[v] = member[v]
      BY <2>1, <2>2
    <2> QED
      BY <2>1, <2>2, <2>3, OwedSame
  <1>2. CASE ~\E u \in User : Leave(u)
    <2>1. cron' = cron /\ req' = req /\ excused' = excused /\ untold' = untold /\ member' = member
      BY <1>2 DEF Passing, Trash, AgeTrash, Expire, AgePending, tables, people, history
    <2>2. Owed(v) /\ v \in User
      BY <2>1 DEF Telling, AttachTypeOK
    <2> QED
      BY <2>1, <2>2, OwedSame
  <1> QED
    BY <1>1, <1>2

LEMMA CronTells ==
    ASSUME AttachTypeOK, CronKnows, Telling, Purging \/ CronDie
    PROVE  Telling'
  <1> SUFFICES ASSUME excused' = {}, NEW v \in untold'
               PROVE  Owed(v)'
    BY DEF Telling
  <1>0. cron \in [stage : CronStage, files : SUBSET Att, left : SUBSET Att, users : SUBSET User]
    BY DEF AttachTypeOK
  <1>1. ASSUME req' = req, member' = member, excused = {}, v \in untold,
               cron.stage = "touch" /\ v \in cron.users => cron'.stage = "touch" /\ v \in cron'.users
        PROVE  Owed(v)'
    <2>1. Owed(v) /\ v \in User
      BY <1>1 DEF Telling, AttachTypeOK
    <2> QED
      BY <1>1, <2>1, OwedSame
  <1>2. CASE CronStart \/ CronPendingCount \/ CronPendingDelete \/ CronUsers \/ CronCount \/ CronList \/ CronObject
             \/ CronObjects
    <2>1. /\ req' = req /\ member' = member /\ excused' = excused /\ untold' = untold
          /\ cron.stage # "touch"
      BY <1>2 DEF CronStart, CronPendingCount, CronPendingDelete, CronUsers, CronCount, CronList, CronObject,
         CronObjects, tables, people, history
    <2> QED
      BY <1>1, <2>1
  <1>3. CASE CronDelete
    <2>1. /\ req' = req /\ member' = member /\ home' = home /\ cron.stage = "delete" /\ WithoutCiphers(OldTrash)
          /\ cron' = [cron EXCEPT !.stage = "touch", !.files = {}] /\ Noting
          /\ excused' = IF OldTrash \cap Shared # {} THEN excused \cup {"purge"} ELSE excused
      BY <1>3 DEF CronDelete, people
    <2>2. cron'.stage = "touch" /\ cron'.users = cron.users
      BY <1>0, <2>1
    <2>3. excused = {} /\ OldTrash \cap Shared = {}
      BY <2>1
    <2>4. CASE v \in untold
      BY <1>1, <2>1, <2>3, <2>4
    <2>5. CASE v \notin untold
      <3>1. v \in User /\ View(v)' # View(v)
        BY <2>1, <2>5 DEF Noting
      <3>2. PICK a \in row : home[a] \in OldTrash /\ home[a] \in Cipher /\ CanRead(v, home[a])
        BY <2>1, <3>1, ViewOfCiphers
      <3>3. Creator[home[a]] = v
        BY <2>3, <3>2 DEF CanRead
      <3>4. v \in cron.users
        BY <2>1, <3>2, <3>3 DEF CronKnows
      <3> QED
        BY <2>2, <3>4 DEF Owed
    <2> QED
      BY <2>4, <2>5
  <1>4. CASE CronTouch
    <2>1. /\ req' = req /\ member' = member /\ excused' = excused /\ cron.stage = "touch"
      BY <1>4 DEF CronTouch, tables, people
    <2>2. PICK u \in cron.users :
             /\ untold' = untold \ {u}
             /\ cron' = IF cron.users = {u} THEN CronIdle ELSE [cron EXCEPT !.users = @ \ {u}]
      BY <1>4 DEF CronTouch
    <2>3. v \in cron.users => cron'.stage = "touch" /\ v \in cron'.users
      BY <1>0, <2>1, <2>2
    <2> QED
      BY <1>1, <2>1, <2>2, <2>3
  <1>5. CASE CronDie
    <2>1. /\ req' = req /\ member' = member /\ untold' = untold /\ cron.stage # "touch"
          /\ excused \subseteq excused'
      BY <1>5 DEF CronDie, tables, people
    <2> QED
      BY <1>1, <2>1
  <1> QED
    BY <1>2, <1>3, <1>4, <1>5 DEF Purging

LEMMA TellingStep == AttachInv /\ Telling /\ [AttachNext]_attachVars => Telling'
  <1> SUFFICES ASSUME AttachTypeOK, AllSound, AllKnow, CronKnows, Telling, [AttachNext]_attachVars
               PROVE  Telling'
    BY DEF AttachInv
  <1>1. CASE UNCHANGED attachVars
    BY <1>1 DEF attachVars, Telling, Owed, OwedBy, Told
  <1>2. CASE AttachNext
    BY <1>2, RequestsTell, HandlingTells, DieTells, DieSpares, PassingTells, CronTells DEF AttachNext
  <1> QED
    BY <1>1, <1>2

\* When no handler and no purge is yet to tell anyone, all whose list of attachments changed
\* have been told, unless what is noted in excused came about.
THEOREM AttachToldOfFiles == AttachSpec => []ToldOfFiles
  <1>1. AttachInit => Telling
    BY DEF AttachInit, Telling
  <1>2. Telling => ToldOfFiles
    <2> SUFFICES ASSUME Telling, excused = {}, cron.stage # "touch",
                        \A r \in Req : /\ req[r].stage \notin {"touch", "dropMember", "account"}
                                       /\ ~(At(r, "put") /\ req[r].route = "legacy")
                 PROVE  untold = {}
      BY DEF ToldOfFiles
    <2>1. \A u : ~Owed(u)
      BY DEF Owed, OwedBy, At
    <2> QED
      BY <2>1 DEF Telling
  <1>3. AttachInv /\ AttachInv' /\ Telling /\ [AttachNext]_attachVars => Telling'
    BY TellingStep
  <1> QED
    BY <1>1, <1>2, <1>3, AttachFilesKept, PTL DEF AttachSpec
=============================================================================
