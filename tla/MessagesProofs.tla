--------------------------- MODULE MessagesProofs ---------------------------
(***************************************************************************)
(* Proofs about Messages, for any devices, phones, push tokens, sockets,   *)
(* handlers, workloads and bounds: its types, who is told of a logout, and *)
(* that the relay holds what the rows say.                                 *)
(***************************************************************************)
EXTENDS Messages, TLAPS

-----------------------------------------------------------------------------
\* What a handler holds

\* The stages at which a handler names a device.
OnDevice == {"vet", "readRow", "setToken", "register", "persist", "find", "insert", "touch", "issue"}
Pushing == {"register", "persist"}

Sound(h) ==
    /\ h.stage \in OnDevice => h.device \in Device
    /\ h.stage = "vet" => h.route \in {"connect", "token", "clear", "password", "approve"} \cup Whole
    /\ h.stage = "vet" /\ h.route = "connect" => h.socket \in Socket
    /\ h.stage \in {"readRow", "setToken"} => h.route \in {"token", "clear"}
    /\ h.stage \in {"find", "insert", "touch", "issue"} => h.route = "login"
    /\ h.stage \in {"find", "insert"} => h.token = None
    /\ h.stage \in Pushing => h.route \in {"token", "login"} /\ h.device \in Phone /\ h.token # None
    /\ h.stage = "unregister" => h.route \in {"clear"} \cup Whole
    /\ h.stage = "unregister" /\ h.route = "clear" => h.device \in Phone /\ h.uuid # None
    /\ h.stage \in {"listUuids", "dropDevices", "dropUser"} => h.route \in Whole
    /\ h.stage # "idle" /\ h.route = "token" => h.token # None
    /\ h.stage # "idle" /\ h.route = "clear" => h.token = None
    /\ h.stage \notin {"persist", "issue"} => ~h.created
    /\ h.stage = "persist" => h.created /\ h.uuid # None
    /\ h.stage # "issue" /\ h.uuid # None => h.uuid \in 1..lastUuid /\ h.device \in Phone

AllSound == \A r \in Req : Sound(req[r])

\* What has been drawn, and that a uuid was drawn before the relay can know it.
Drawn ==
    /\ lastStamp \in Nat /\ lastUuid \in Nat
    /\ \A g \in relay : g.uuid \in 1..lastUuid /\ g.device \in Phone

MsgInv == MsgTypeOK /\ Drawn /\ AllSound

\* The types of all that is not about handlers.
TablesOK ==
    /\ load \in MsgWorkloads
    /\ stamp \in 0..lastStamp /\ answer \in Nat
    /\ dev \in [Device -> DevRow \cup {None}]
    /\ stamp = 0 => \A d \in Device : dev[d] = None
    /\ \A d \in Device : dev[d] # None /\ dev[d].uuid # None => d \in Phone /\ dev[d].uuid \in 1..lastUuid
    /\ relay \subseteq Registration
    /\ \A g, h \in relay : g.uuid = h.uuid => g = h
    /\ session \subseteq AccessToken
    /\ sock \in [Socket -> Connection \cup {None}]
    /\ job \subseteq Message /\ lost \subseteq Message
    /\ behind \subseteq Phone /\ parted \subseteq Device

LEMMA IdleSound == MsgIdle \in MsgHandler /\ Sound(MsgIdle) /\ MsgIdle.stage = "idle"
  <1>1. /\ MsgIdle \in MsgHandler /\ MsgIdle.stage = "idle" /\ MsgIdle.uuid = None /\ MsgIdle.route = None
        /\ MsgIdle.created = FALSE
    BY DEF MsgIdle, MsgHandler, MsgStage
  <1> QED
    BY <1>1 DEF Sound, OnDevice, Pushing

\* The step of a handler, after which it holds g.
LEMMA SlotStep ==
    ASSUME MsgInv, NEW r \in Req, NEW g \in MsgHandler, Goto(r, g), Sound(g)', TablesOK', Drawn', lastUuid <= lastUuid'
    PROVE  MsgInv'
  <1>1. req' \in [Req -> MsgHandler] /\ \A q \in Req : req'[q] = IF q = r THEN g ELSE req[q]
    BY DEF MsgInv, MsgTypeOK, Goto
  <1>2. MsgTypeOK'
    BY <1>1 DEF MsgTypeOK, TablesOK
  <1>3. AllSound'
    <2> SUFFICES ASSUME NEW q \in Req PROVE Sound(req[q])'
      BY DEF AllSound
    <2>1. CASE q = r
      BY <1>1, <2>1 DEF Sound
    <2>2. CASE q # r
      <3>1. req'[q] = req[q] /\ Sound(req[q])
        BY <1>1, <2>2 DEF MsgInv, AllSound
      <3>2. lastUuid \in Nat /\ lastUuid' \in Nat
        BY DEF MsgInv, Drawn
      <3>3. req[q].stage # "issue" /\ req[q].uuid # None => req[q].uuid \in 1..lastUuid'
        BY <3>1, <3>2 DEF Sound
      <3> QED
        BY <3>1, <3>3 DEF Sound
    <2> QED
      BY <2>1, <2>2
  <1> QED
    BY <1>2, <1>3 DEF MsgInv

LEMMA Types == MsgInv => TablesOK /\ Drawn /\ req \in [Req -> MsgHandler] /\ \A r \in Req : req[r] \in MsgHandler /\ Sound(req[r])
  BY DEF MsgInv, MsgTypeOK, TablesOK, AllSound

LEMMA FinishStep ==
    ASSUME MsgInv, NEW r \in Req, Finish(r), TablesOK', Drawn', lastUuid <= lastUuid'
    PROVE  MsgInv'
  <1>1. Sound(MsgIdle)'
    BY IdleSound DEF MsgIdle, Sound, OnDevice, Pushing
  <1> QED
    BY <1>1, IdleSound, SlotStep DEF Finish

\* What a handler holds when it only goes on.
Same(g, h) ==
    /\ g.route = h.route /\ g.device = h.device /\ g.socket = h.socket /\ g.token = h.token /\ g.uuid = h.uuid
    /\ g.created = h.created /\ g.uuids = h.uuids /\ g.stamp = h.stamp

LEMMA Goes ==
    ASSUME MsgInv, NEW r \in Req, NEW stage \in MsgStage, Proceed(r, stage)
    PROVE  \E g \in MsgHandler : Goto(r, g) /\ g.stage = stage /\ Same(g, req[r])
  <1>1. PICK h \in MsgHandler : h = req[r]
    BY Types
  <1> DEFINE g == [h EXCEPT !.stage = stage]
  <1>2. g \in MsgHandler
    BY DEF MsgHandler
  <1>3. g.stage = stage /\ Same(g, h)
    BY DEF MsgHandler, Same
  <1>4. Goto(r, g)
    BY <1>1 DEF Proceed
  <1> HIDE DEF g
  <1> QED
    BY <1>1, <1>2, <1>3, <1>4

\* A step that leaves the rows, the relay and what is drawn.
LEMMA StillDrawn ==
    ASSUME MsgInv, UNCHANGED <<lastStamp, lastUuid>>, relay' = relay
    PROVE  Drawn' /\ lastUuid <= lastUuid'
  BY DEF MsgInv, Drawn

LEMMA TablesStay ==
    ASSUME MsgInv, UNCHANGED <<load, accounts, dev, relay, lastUuid, job, lost>>, behind' \subseteq Phone,
           parted' \subseteq Device, sock' \in [Socket -> Connection \cup {None}]
    PROVE  TablesOK' /\ Drawn' /\ lastUuid <= lastUuid'
  <1>1. TablesOK /\ UNCHANGED <<stamp, lastStamp, answer, session>>
    BY Types DEF accounts
  <1>2. TablesOK'
    BY <1>1 DEF TablesOK
  <1> QED
    BY <1>1, <1>2, StillDrawn

LEMMA AllStay ==
    ASSUME MsgInv, UNCHANGED <<load, accounts, pushes, hub>>
    PROVE  TablesOK' /\ Drawn' /\ lastUuid <= lastUuid'
  <1>1. UNCHANGED <<dev, relay, lastUuid, behind, parted, sock, job, lost>>
    BY DEF pushes, hub
  <1> QED
    BY <1>1, Types, TablesStay DEF TablesOK

\* Devices that handlers work on are devices.
LEMMA EngagedTypes ==
    ASSUME NEW h, h.stage \in OnDevice => h.device \in Device, h.stage = "unregister" /\ h.route = "clear" => h.device \in Phone
    PROVE  Engaged(h) \subseteq Device
  BY PhoneAssumption DEF Engaged, OnDevice, Whole

LEMMA MeetsTypes ==
    ASSUME MsgInv, NEW r \in Req, Meets(r)
    PROVE  parted' \subseteq Device
  <1>1. parted \subseteq Device /\ \A q \in Req : Engaged(req[q]) \subseteq Device
    BY Types, EngagedTypes DEF TablesOK, Sound
  <1> QED
    BY <1>1 DEF Meets

-----------------------------------------------------------------------------
\* Types and handlers, step by step

\* What a request holds at first.
LEMMA Begins ==
    ASSUME MsgInv, NEW r \in Req, MsgBegin(r)
    PROVE  /\ At(r, "idle") /\ UNCHANGED <<load, accounts, pushes, hub>>
           /\ \E g \in MsgHandler : /\ Goto(r, g) /\ Sound(g) /\ g.stage \in {"vet", "find"} /\ g.uuid = None
                                    /\ g.device \in Device
  <1>1. CASE \E d \in Device : StartLogin(r, d)
    <2>1. PICK d \in Device : StartLogin(r, d)
      BY <1>1
    <2>2. PICK i \in MsgHandler : i = MsgIdle /\ i.uuid = None /\ i.created = FALSE
      BY IdleSound DEF MsgIdle
    <2> DEFINE a == [i EXCEPT !.stage = "find", !.route = "login", !.device = d, !.socket = None, !.token = None]
               g == [a EXCEPT !.stamp = stamp]
    <2>3. a \in MsgHandler
      BY DEF MsgHandler, MsgStage, MsgRoutes
    <2>4. stamp \in Nat
      BY Types DEF TablesOK, Drawn
    <2>5. g \in MsgHandler
      BY <2>3, <2>4 DEF MsgHandler
    <2>6. /\ g.stage = "find" /\ g.route = "login" /\ g.device = d /\ g.uuid = None /\ g.created = FALSE
          /\ g.token = None
      BY <2>2, <2>3 DEF MsgHandler
    <2>7. Goto(r, g) /\ At(r, "idle") /\ UNCHANGED <<load, accounts, pushes, hub>>
      BY <2>1, <2>2 DEF StartLogin, Begin, Asks
    <2> HIDE DEF a, g
    <2>8. Sound(g)
      BY <2>6 DEF Sound, OnDevice, Pushing
    <2> QED
      BY <2>5, <2>6, <2>7, <2>8
  <1>2. CASE ~\E d \in Device : StartLogin(r, d)
    <2>1. PICK d \in Device, route \in {"token", "clear", "password", "sstamp", "deleteAccount", "approve", "connect"},
               s \in Socket \cup {None}, t \in PushToken \cup {None} :
            /\ Start(r, route, d, s, t)
            /\ route = "token" => t # None
            /\ route = "clear" => t = None
            /\ route = "connect" => s \in Socket
      BY <1>2, MsgNoneAssumption DEF MsgBegin
    <2>2. PICK i \in MsgHandler : i = MsgIdle /\ i.uuid = None /\ i.created = FALSE
      BY IdleSound DEF MsgIdle
    <2> DEFINE g == [i EXCEPT !.stage = "vet", !.route = route, !.device = d, !.socket = s, !.token = t]
    <2>3. g \in MsgHandler
      BY DEF MsgHandler, MsgStage, MsgRoutes
    <2>4. /\ g.stage = "vet" /\ g.route = route /\ g.device = d /\ g.socket = s /\ g.token = t /\ g.uuid = None
          /\ g.created = FALSE
      BY <2>2 DEF MsgHandler
    <2>5. Goto(r, g) /\ At(r, "idle") /\ UNCHANGED <<load, accounts, pushes, hub>>
      BY <2>1, <2>2 DEF Start, Begin, Asks
    <2> HIDE DEF g
    <2>6. Sound(g)
      BY <2>1, <2>4 DEF Sound, OnDevice, Pushing, Whole
    <2> QED
      BY <2>3, <2>4, <2>5, <2>6
  <1> QED
    BY <1>1, <1>2

LEMMA BeginStep ==
    ASSUME MsgInv, NEW r \in Req, MsgBegin(r)
    PROVE  MsgInv'
  <1>1. PICK g \in MsgHandler : Goto(r, g) /\ Sound(g) /\ g.uuid = None
    BY Begins
  <1>2. TablesOK' /\ Drawn' /\ lastUuid <= lastUuid'
    BY Begins, AllStay
  <1>3. Sound(g)'
    BY <1>1 DEF Sound
  <1> QED
    BY <1>1, <1>2, <1>3, SlotStep

LEMMA VetStep ==
    ASSUME MsgInv, NEW r \in Req, Vet(r)
    PROVE  MsgInv'
  <1>1. Sound(req[r]) /\ req[r].stage = "vet" /\ req[r].device \in Device
    BY Types DEF Vet, At, Sound, OnDevice
  <1>2. UNCHANGED <<load, accounts, dev, relay, lastUuid, behind, parted, job, lost>>
    BY DEF Vet, pushes
  <1>3. TablesOK
    BY Types
  <1>4. CASE Finish(r)
    <2>1. sock' \in [Socket -> Connection \cup {None}]
      <3>1. Opening("account") \in Connection
        BY DEF Opening, Connection, Topic
      <3> QED
        BY <1>3, <3>1 DEF Vet, TablesOK
    <2> QED
      BY <1>2, <1>3, <1>4, <2>1, TablesStay, FinishStep DEF TablesOK
  <1>5. CASE ~Finish(r)
    <2>1. Proceed(r, AfterVet(req[r].route)) /\ sock' = sock /\ req[r].route # "connect"
      BY <1>5 DEF Vet
    <2>2. PICK stage \in MsgStage : stage = AfterVet(req[r].route) /\ stage \in {"readRow", "listUuids", "replace", "readRequest"}
            /\ (stage = "readRow" => req[r].route \in {"token", "clear"}) /\ (stage = "listUuids" => req[r].route \in Whole)
      BY <1>1, <2>1 DEF AfterVet, MsgStage, Sound, Whole
    <2>3. PICK g \in MsgHandler : Goto(r, g) /\ g.stage = stage /\ Same(g, req[r])
      BY <2>1, <2>2, Goes
    <2>4. Sound(g)'
      BY <1>1, <1>2, <2>2, <2>3 DEF Sound, Same, OnDevice, Pushing
    <2> QED
      BY <1>2, <1>3, <2>1, <2>3, <2>4, TablesStay, SlotStep DEF TablesOK
  <1> QED
    BY <1>4, <1>5

LEMMA ReadRowDoes ==
    ASSUME MsgInv, NEW r \in Req, ReadRow(r)
    PROVE  /\ req[r].stage = "readRow" /\ req[r].device \in Device /\ Meets(r)
           /\ UNCHANGED <<load, accounts, dev, relay, lastUuid, behind, hub>>
           /\ \/ Finish(r)
              \/ \E g \in MsgHandler :
                    /\ Goto(r, g) /\ g.stage = "setToken" /\ dev[req[r].device] # None /\ g.uuid = dev[req[r].device].uuid
                    /\ g.device = req[r].device /\ g.route = req[r].route /\ g.token = req[r].token
                    /\ g.created = req[r].created
  <1>1. PICK h \in MsgHandler : h = req[r] /\ Sound(h) /\ h.stage = "readRow"
    BY Types DEF ReadRow, At
  <1>2. h.device \in Device /\ dev[h.device] \in DevRow \cup {None}
    BY <1>1, Types DEF Sound, OnDevice, TablesOK
  <1>3. CASE Finish(r)
    BY <1>1, <1>2, <1>3 DEF ReadRow
  <1>4. CASE ~Finish(r)
    <2>1. /\ dev[h.device] # None
          /\ Goto(r, [h EXCEPT !.stage = "setToken", !.uuid = dev[h.device].uuid])
      BY <1>1, <1>4 DEF ReadRow
    <2>2. PICK u \in Nat \cup {None} : u = dev[h.device].uuid
      BY <1>2, <2>1 DEF DevRow
    <2> DEFINE g == [h EXCEPT !.stage = "setToken", !.uuid = u]
    <2>3. g \in MsgHandler
      BY DEF MsgHandler, MsgStage
    <2>4. g.stage = "setToken" /\ g.uuid = u /\ g.device = h.device /\ g.route = h.route /\ g.token = h.token /\ g.created = h.created
      BY DEF MsgHandler
    <2>5. Goto(r, g)
      BY <2>1, <2>2
    <2> HIDE DEF g
    <2> QED
      BY <1>1, <1>2, <2>1, <2>2, <2>3, <2>4, <2>5 DEF ReadRow
  <1> QED
    BY <1>3, <1>4

LEMMA ReadRowStep ==
    ASSUME MsgInv, NEW r \in Req, ReadRow(r)
    PROVE  MsgInv'
  <1>1. /\ req[r].stage = "readRow" /\ req[r].device \in Device /\ Meets(r) /\ Sound(req[r])
        /\ UNCHANGED <<load, accounts, dev, relay, lastUuid, behind, sock, job, lost>>
    BY ReadRowDoes, Types DEF hub
  <1>2. TablesOK' /\ Drawn' /\ lastUuid <= lastUuid'
    BY <1>1, MeetsTypes, Types, TablesStay DEF TablesOK
  <1>3. CASE Finish(r)
    BY <1>2, <1>3, FinishStep
  <1>4. CASE ~Finish(r)
    <2>1. PICK g \in MsgHandler :
                    /\ Goto(r, g) /\ g.stage = "setToken" /\ dev[req[r].device] # None /\ g.uuid = dev[req[r].device].uuid
                    /\ g.device = req[r].device /\ g.route = req[r].route /\ g.token = req[r].token
                    /\ g.created = req[r].created
      BY <1>4, ReadRowDoes
    <2>2. g.uuid # None => g.device \in Phone /\ g.uuid \in 1..lastUuid'
      BY <1>1, <2>1, Types DEF TablesOK
    <2>3. Sound(g)'
      BY <1>1, <2>1, <2>2 DEF Sound, OnDevice, Pushing
    <2> QED
      BY <1>2, <2>1, <2>3, SlotStep
  <1> QED
    BY <1>3, <1>4

\* One column of one row, or no row.
LEMMA SetDoes ==
    ASSUME MsgInv, NEW d \in Device, NEW t \in PushToken \cup {None}, Set(d, "token", t)
    PROVE  /\ dev' \in [Device -> DevRow \cup {None}]
           /\ \A e \in Device \ {d} : dev'[e] = dev[e]
           /\ dev[d] = None => dev'[d] = None
           /\ dev[d] # None => dev'[d] # None /\ dev'[d].token = t /\ dev'[d].uuid = dev[d].uuid
  <1>1. dev \in [Device -> DevRow \cup {None}]
    BY Types DEF TablesOK
  <1>2. CASE dev[d] = None
    BY <1>1, <1>2 DEF Set
  <1>3. CASE dev[d] # None
    <2>1. PICK row \in DevRow : row = dev[d]
      BY <1>1, <1>3
    <2> DEFINE new == [row EXCEPT !.token = t]
    <2>2. new \in DevRow /\ new.token = t /\ new.uuid = row.uuid
      BY DEF DevRow
    <2>3. dev' = [dev EXCEPT ![d] = new]
      BY <1>3, <2>1 DEF Set
    <2> HIDE DEF new
    <2> QED
      BY <1>1, <1>3, <2>1, <2>2, <2>3, DevRowAssumption
  <1> QED
    BY <1>2, <1>3

LEMMA SetUuidDoes ==
    ASSUME MsgInv, NEW d \in Device, NEW u \in Nat, Set(d, "uuid", u)
    PROVE  /\ dev' \in [Device -> DevRow \cup {None}]
           /\ \A e \in Device \ {d} : dev'[e] = dev[e]
           /\ dev[d] = None => dev'[d] = None
           /\ dev[d] # None => dev'[d] # None /\ dev'[d].token = dev[d].token /\ dev'[d].uuid = u
  <1>1. dev \in [Device -> DevRow \cup {None}]
    BY Types DEF TablesOK
  <1>2. CASE dev[d] = None
    BY <1>1, <1>2 DEF Set
  <1>3. CASE dev[d] # None
    <2>1. PICK row \in DevRow : row = dev[d]
      BY <1>1, <1>3
    <2> DEFINE new == [row EXCEPT !.uuid = u]
    <2>2. new \in DevRow /\ new.uuid = u /\ new.token = row.token
      BY DEF DevRow
    <2>3. dev' = [dev EXCEPT ![d] = new]
      BY <1>3, <2>1 DEF Set
    <2> HIDE DEF new
    <2> QED
      BY <1>1, <1>3, <2>1, <2>2, <2>3, DevRowAssumption
  <1> QED
    BY <1>2, <1>3

\* A step that writes rows of devices and nothing else.
LEMMA RowsWritten ==
    ASSUME MsgInv, UNCHANGED <<load, accounts, relay, lastUuid, behind, parted, hub>>,
           dev' \in [Device -> DevRow \cup {None}],
           stamp = 0 => \A d \in Device : dev'[d] = None,
           \A d \in Device : dev'[d] # None /\ dev'[d].uuid # None => d \in Phone /\ dev'[d].uuid \in 1..lastUuid
    PROVE  TablesOK' /\ Drawn' /\ lastUuid <= lastUuid'
  <1>1. TablesOK /\ UNCHANGED <<stamp, lastStamp, answer, session, sock, job, lost>>
    BY Types DEF accounts, hub
  <1>2. TablesOK'
    BY <1>1 DEF TablesOK
  <1> QED
    BY <1>1, <1>2, StillDrawn

LEMMA SetTokenDoes ==
    ASSUME MsgInv, NEW r \in Req, SetToken(r)
    PROVE  /\ req[r].stage = "setToken" /\ req[r].device \in Device /\ Sound(req[r])
           /\ req[r].token \in PushToken \cup {None}
           /\ Set(req[r].device, "token", req[r].token)
           /\ UNCHANGED <<load, accounts, relay, lastUuid, behind, parted, hub>>
           /\ \/ Finish(r) /\ (req[r].device \in Phone => req[r].route = "clear" /\ req[r].uuid = None)
              \/ \E g \in MsgHandler :
                    /\ Goto(r, g) /\ Same(g, req[r]) /\ req[r].device \in Phone
                    /\ \/ g.stage = "register" /\ req[r].route = "token"
                       \/ g.stage = "unregister" /\ req[r].route = "clear" /\ req[r].uuid # None
  <1>1. PICK h \in MsgHandler : h = req[r] /\ Sound(h) /\ h.stage = "setToken"
    BY Types DEF SetToken, At
  <1>2. h.device \in Device /\ h.token \in PushToken \cup {None} /\ h.route \in {"token", "clear"}
    BY <1>1 DEF Sound, OnDevice, MsgHandler
  <1>3. Set(h.device, "token", h.token) /\ UNCHANGED <<load, accounts, relay, lastUuid, behind, parted, hub>>
    BY <1>1 DEF SetToken
  <1>4. "register" \in MsgStage /\ "unregister" \in MsgStage
    BY DEF MsgStage
  <1>5. CASE h.route = "token" /\ h.device \in Phone
    <2>1. PICK g \in MsgHandler : Goto(r, g) /\ g.stage = "register" /\ Same(g, req[r])
      BY <1>1, <1>4, <1>5, Goes DEF SetToken
    <2> QED
      BY <1>1, <1>2, <1>3, <1>5, <2>1
  <1>6. CASE h.route = "clear" /\ h.uuid # None
    <2>1. PICK g \in MsgHandler : Goto(r, g) /\ g.stage = "unregister" /\ Same(g, req[r])
      BY <1>1, <1>4, <1>6, Goes DEF SetToken
    <2>2. h.device \in Phone
      BY <1>1, <1>6 DEF Sound
    <2> QED
      BY <1>1, <1>2, <1>3, <1>6, <2>1, <2>2
  <1>7. CASE ~(h.route = "token" /\ h.device \in Phone) /\ ~(h.route = "clear" /\ h.uuid # None)
    <2>1. Finish(r)
      BY <1>1, <1>7 DEF SetToken
    <2> QED
      BY <1>1, <1>2, <1>3, <1>7, <2>1
  <1> QED
    BY <1>5, <1>6, <1>7

LEMMA SetTokenStep ==
    ASSUME MsgInv, NEW r \in Req, SetToken(r)
    PROVE  MsgInv'
  <1>1. /\ req[r].stage = "setToken" /\ req[r].device \in Device /\ Sound(req[r])
        /\ req[r].token \in PushToken \cup {None}
        /\ Set(req[r].device, "token", req[r].token)
        /\ UNCHANGED <<load, accounts, relay, lastUuid, behind, parted, hub>>
    BY SetTokenDoes
  <1>2. /\ dev' \in [Device -> DevRow \cup {None}]
        /\ \A d \in Device : dev[d] = None => dev'[d] = None
        /\ \A d \in Device : dev'[d] # None => dev'[d].uuid = dev[d].uuid
    BY <1>1, SetDoes
  <1>3. TablesOK' /\ Drawn' /\ lastUuid <= lastUuid'
    <2>1. stamp = 0 => \A d \in Device : dev'[d] = None
      BY <1>2, Types DEF TablesOK
    <2>2. \A d \in Device : dev'[d] # None /\ dev'[d].uuid # None => d \in Phone /\ dev'[d].uuid \in 1..lastUuid
      BY <1>2, Types DEF TablesOK
    <2> QED
      BY <1>1, <1>2, <2>1, <2>2, RowsWritten
  <1>4. CASE Finish(r)
    BY <1>3, <1>4, FinishStep
  <1>5. CASE ~Finish(r)
    <2>1. PICK g \in MsgHandler :
                    /\ Goto(r, g) /\ Same(g, req[r]) /\ req[r].device \in Phone
                    /\ \/ g.stage = "register" /\ req[r].route = "token"
                       \/ g.stage = "unregister" /\ req[r].route = "clear" /\ req[r].uuid # None
      BY <1>5, SetTokenDoes
    <2>2. ~g.created
      BY <1>1, <2>1 DEF Same, Sound
    <2>3. Sound(g)'
      BY <1>1, <2>1, <2>2 DEF Sound, Same, OnDevice, Pushing
    <2> QED
      BY <1>3, <2>1, <2>3, SlotStep
  <1> QED
    BY <1>4, <1>5

-----------------------------------------------------------------------------
\* Registering a phone

LEMMA Ensured ==
    ASSUME MsgInv, NEW r \in Req, req[r].stage = "register"
    PROVE  \E g \in MsgHandler :
              /\ g = EnsureUuid(req[r]) /\ g.stage = "register" /\ g.route = req[r].route /\ g.route \in {"token", "login"}
              /\ g.device = req[r].device /\ g.device \in Phone /\ g.device \in Device
              /\ g.token = req[r].token /\ g.token \in PushToken /\ g.uuid \in Nat
              /\ g.created => req[r].uuid = None /\ g.uuid = lastUuid + 1
              /\ ~g.created => g.uuid = req[r].uuid /\ g.uuid \in 1..lastUuid
  <1>1. PICK h \in MsgHandler : h = req[r] /\ Sound(h) /\ h.stage = "register"
    BY Types
  <1>2. /\ h.device \in Phone /\ h.device \in Device /\ h.token \in PushToken /\ h.route \in {"token", "login"}
        /\ ~h.created /\ (h.uuid # None => h.uuid \in 1..lastUuid)
    BY <1>1 DEF Sound, OnDevice, Pushing, MsgHandler
  <1>3. lastUuid \in Nat /\ lastUuid + 1 \in Nat /\ lastUuid + 1 # None
    BY Types, MsgNoneAssumption DEF Drawn
  <1>4. CASE h.uuid = None
    <2>1. PICK u \in Nat : u = lastUuid + 1
      BY <1>3
    <2> DEFINE g == [h EXCEPT !.uuid = u, !.created = TRUE]
    <2>2. g \in MsgHandler
      BY DEF MsgHandler
    <2>3. g.uuid = u /\ g.created /\ g.stage = h.stage /\ g.route = h.route /\ g.device = h.device /\ g.token = h.token
      BY DEF MsgHandler
    <2>4. g = EnsureUuid(req[r])
      BY <1>1, <1>4, <2>1 DEF EnsureUuid
    <2> HIDE DEF g
    <2> QED
      BY <1>1, <1>2, <1>3, <1>4, <2>1, <2>2, <2>3, <2>4
  <1>5. CASE h.uuid # None
    BY <1>1, <1>2, <1>3, <1>5 DEF EnsureUuid
  <1> QED
    BY <1>4, <1>5

\* What follows the relay's answer.
LEMMA AfterRelayStep ==
    ASSUME MsgInv, NEW r \in Req, NEW h \in MsgHandler, AfterRelay(r, h), h.device \in Device, TablesOK', Drawn', lastUuid <= lastUuid'
    PROVE  MsgInv'
  <1>1. CASE h.route = "login"
    <2> DEFINE g == [h EXCEPT !.stage = "issue"]
    <2>1. g \in MsgHandler
      BY DEF MsgHandler, MsgStage
    <2>2. g.stage = "issue" /\ g.route = "login" /\ g.device = h.device
      BY <1>1 DEF MsgHandler
    <2>3. Goto(r, g)
      BY <1>1 DEF AfterRelay
    <2> HIDE DEF g
    <2>4. Sound(g)'
      BY <2>2 DEF Sound, OnDevice, Pushing
    <2> QED
      BY <2>1, <2>3, <2>4, SlotStep
  <1>2. CASE h.route # "login"
    BY <1>2, FinishStep DEF AfterRelay
  <1> QED
    BY <1>1, <1>2

\* The relay holds one registration more, in place of the one of its uuid.
LEMMA RegisteringDoes ==
    ASSUME MsgInv, NEW h \in MsgHandler, Registering(h), h.device \in Phone, h.token \in PushToken, h.uuid \in Nat,
           lastUuid' \in Nat, lastUuid <= lastUuid', h.uuid \in 1..lastUuid'
    PROVE  /\ relay' \subseteq Registration
           /\ \A g, k \in relay' : g.uuid = k.uuid => g = k
           /\ \A g \in relay' : g.uuid \in 1..lastUuid' /\ g.device \in Phone
  <1>1. PICK n \in Registration : n = [uuid |-> h.uuid, token |-> h.token, device |-> h.device]
    BY PhoneAssumption DEF Registration
  <1>2. n.uuid = h.uuid /\ n.device = h.device
    BY <1>1
  <1>3. relay \subseteq Registration /\ (\A g, k \in relay : g.uuid = k.uuid => g = k)
        /\ (\A g \in relay : g.uuid \in 1..lastUuid /\ g.device \in Phone) /\ lastUuid \in Nat
    BY Types DEF TablesOK, Drawn
  <1>4. relay' = {g \in relay : g.uuid # h.uuid} \cup {n}
    BY <1>1 DEF Registering
  <1>5. \A g \in relay' : g = n \/ (g \in relay /\ g.uuid # h.uuid)
    BY <1>4
  <1>6. relay' \subseteq Registration
    BY <1>3, <1>5
  <1>7. \A g, k \in relay' : g.uuid = k.uuid => g = k
    BY <1>2, <1>3, <1>5
  <1>8. \A g \in relay' : g.uuid \in 1..lastUuid' /\ g.device \in Phone
    BY <1>2, <1>3, <1>5
  <1> QED
    BY <1>6, <1>7, <1>8

\* A step that changes what the relay holds.
LEMMA RelayChanged ==
    ASSUME MsgInv, UNCHANGED <<load, accounts, dev, hub>>, lastUuid' \in Nat, lastUuid <= lastUuid',
           relay' \subseteq Registration, \A g, k \in relay' : g.uuid = k.uuid => g = k,
           \A g \in relay' : g.uuid \in 1..lastUuid' /\ g.device \in Phone,
           behind' \subseteq Phone, parted' \subseteq Device
    PROVE  TablesOK' /\ Drawn'
  <1>1. TablesOK /\ Drawn /\ UNCHANGED <<stamp, lastStamp, answer, session, sock, job, lost>>
    BY Types DEF accounts, hub
  <1>2. \A d \in Device : dev'[d] # None /\ dev'[d].uuid # None => d \in Phone /\ dev'[d].uuid \in 1..lastUuid'
    BY <1>1 DEF TablesOK, Drawn
  <1>3. TablesOK'
    BY <1>1, <1>2 DEF TablesOK
  <1>4. Drawn'
    BY <1>1 DEF Drawn
  <1> QED
    BY <1>3, <1>4

LEMMA RegisterStep ==
    ASSUME MsgInv, NEW r \in Req, Register(r)
    PROVE  MsgInv'
  <1>1. req[r].stage = "register"
    BY DEF Register, At
  <1>2. PICK h \in MsgHandler :
              /\ h = EnsureUuid(req[r]) /\ h.stage = "register" /\ h.route = req[r].route /\ h.route \in {"token", "login"}
              /\ h.device = req[r].device /\ h.device \in Phone /\ h.device \in Device
              /\ h.token = req[r].token /\ h.token \in PushToken /\ h.uuid \in Nat
              /\ h.created => req[r].uuid = None /\ h.uuid = lastUuid + 1
              /\ ~h.created => h.uuid = req[r].uuid /\ h.uuid \in 1..lastUuid
    BY <1>1, Ensured
  <1>3. /\ Registering(h) /\ UNCHANGED <<load, accounts, dev, parted, hub>>
        /\ behind' = IF h.created THEN behind ELSE behind \ {h.device}
        /\ lastUuid' = IF h.created THEN h.uuid ELSE lastUuid
        /\ IF h.created THEN Goto(r, [h EXCEPT !.stage = "persist"]) ELSE AfterRelay(r, h)
    BY <1>2 DEF Register
  <1>4. lastUuid \in Nat /\ lastUuid' \in Nat /\ lastUuid <= lastUuid' /\ h.uuid \in 1..lastUuid'
    BY <1>2, <1>3, Types DEF Drawn
  <1>5. TablesOK' /\ Drawn'
    <2>1. behind' \subseteq Phone /\ parted' \subseteq Device
      BY <1>3, Types DEF TablesOK
    <2> QED
      BY <1>2, <1>3, <1>4, <2>1, RegisteringDoes, RelayChanged
  <1>6. CASE ~h.created
    BY <1>2, <1>3, <1>4, <1>5, <1>6, AfterRelayStep
  <1>7. CASE h.created
    <2> DEFINE g == [h EXCEPT !.stage = "persist"]
    <2>1. g \in MsgHandler
      BY DEF MsgHandler, MsgStage
    <2>2. /\ g.stage = "persist" /\ g.route = h.route /\ g.device = h.device /\ g.token = h.token /\ g.uuid = h.uuid
          /\ g.created
      BY <1>7 DEF MsgHandler
    <2>3. Goto(r, g)
      BY <1>3, <1>7
    <2> HIDE DEF g
    <2>4. g.token # None /\ g.uuid # None
      BY <1>2, <2>2, MsgNoneAssumption
    <2>5. Sound(g)'
      BY <1>2, <1>4, <2>2, <2>4 DEF Sound, OnDevice, Pushing
    <2> QED
      BY <1>4, <1>5, <2>1, <2>3, <2>5, SlotStep
  <1> QED
    BY <1>6, <1>7

LEMMA RegisterFailsStep ==
    ASSUME MsgInv, NEW r \in Req, RegisterFails(r)
    PROVE  MsgInv'
  <1>1. req[r].stage = "register"
    BY DEF RegisterFails, At
  <1>2. PICK h \in MsgHandler :
              /\ h = EnsureUuid(req[r]) /\ h.stage = "register" /\ h.route = req[r].route /\ h.route \in {"token", "login"}
              /\ h.device = req[r].device /\ h.device \in Phone /\ h.device \in Device
              /\ h.token = req[r].token /\ h.token \in PushToken /\ h.uuid \in Nat
              /\ h.created => req[r].uuid = None /\ h.uuid = lastUuid + 1
              /\ ~h.created => h.uuid = req[r].uuid /\ h.uuid \in 1..lastUuid
    BY <1>1, Ensured
  <1>3. /\ AfterRelay(r, h) /\ UNCHANGED <<load, accounts, dev, hub>>
        /\ \/ h.created /\ Registering(h) /\ lastUuid' = h.uuid /\ parted' = parted \cup {h.device} /\ UNCHANGED behind
           \/ /\ behind' = IF h.created THEN behind ELSE behind \cup {h.device}
              /\ UNCHANGED <<relay, lastUuid, parted>>
    BY <1>2 DEF RegisterFails
  <1>4. lastUuid \in Nat /\ behind' \subseteq Phone /\ parted' \subseteq Device
    BY <1>2, <1>3, Types DEF TablesOK, Drawn
  <1>5. TablesOK' /\ Drawn' /\ lastUuid <= lastUuid'
    <2>1. CASE h.created /\ Registering(h) /\ lastUuid' = h.uuid
      <3>1. lastUuid' \in Nat /\ lastUuid <= lastUuid' /\ h.uuid \in 1..lastUuid'
        BY <1>2, <1>4, <2>1
      <3> QED
        BY <1>2, <1>3, <1>4, <2>1, <3>1, RegisteringDoes, RelayChanged
    <2>2. CASE UNCHANGED <<relay, lastUuid, parted>>
      <3>1. lastUuid' \in Nat /\ lastUuid <= lastUuid'
        BY <1>4, <2>2
      <3>2. /\ relay' \subseteq Registration /\ (\A g, k \in relay' : g.uuid = k.uuid => g = k)
            /\ (\A g \in relay' : g.uuid \in 1..lastUuid' /\ g.device \in Phone)
        BY <2>2, Types DEF TablesOK, Drawn
      <3> QED
        BY <1>3, <1>4, <3>1, <3>2, RelayChanged
    <2> QED
      BY <1>3, <2>1, <2>2
  <1> QED
    BY <1>2, <1>3, <1>5, AfterRelayStep

LEMMA PersistStep ==
    ASSUME MsgInv, NEW r \in Req, Persist(r)
    PROVE  MsgInv'
  <1>1. PICK h \in MsgHandler : h = req[r] /\ Sound(h) /\ h.stage = "persist"
    BY Types DEF Persist, At
  <1>2. h.device \in Device /\ h.device \in Phone /\ h.uuid \in 1..lastUuid /\ h.uuid \in Nat
    BY <1>1, Types DEF Sound, OnDevice, Pushing, Drawn
  <1>3. Set(h.device, "uuid", h.uuid) /\ AfterRelay(r, h) /\ UNCHANGED <<load, accounts, relay, lastUuid, behind, parted, hub>>
    BY <1>1 DEF Persist
  <1>4. /\ dev' \in [Device -> DevRow \cup {None}]
        /\ \A e \in Device \ {h.device} : dev'[e] = dev[e]
        /\ dev[h.device] = None => dev'[h.device] = None
        /\ dev[h.device] # None => dev'[h.device] # None /\ dev'[h.device].token = dev[h.device].token
                                   /\ dev'[h.device].uuid = h.uuid
    BY <1>2, <1>3, SetUuidDoes
  <1>5. stamp = 0 => \A d \in Device : dev'[d] = None
    BY <1>4, Types DEF TablesOK
  <1>6. \A d \in Device : dev'[d] # None /\ dev'[d].uuid # None => d \in Phone /\ dev'[d].uuid \in 1..lastUuid
    BY <1>2, <1>4, Types DEF TablesOK
  <1>7. TablesOK' /\ Drawn' /\ lastUuid <= lastUuid'
    BY <1>3, <1>4, <1>5, <1>6, RowsWritten
  <1> QED
    BY <1>2, <1>3, <1>7, AfterRelayStep

LEMMA PersistFailsStep ==
    ASSUME MsgInv, NEW r \in Req, PersistFails(r)
    PROVE  MsgInv'
  <1>1. PICK h \in MsgHandler : h = req[r] /\ Sound(h) /\ h.stage = "persist"
    BY Types DEF PersistFails, At
  <1>2. h.device \in Device
    BY <1>1 DEF Sound, OnDevice, Pushing
  <1>3. /\ parted' = parted \cup {h.device} /\ AfterRelay(r, h)
        /\ UNCHANGED <<load, accounts, dev, relay, lastUuid, behind, hub>>
    BY <1>1 DEF PersistFails
  <1>4. /\ lastUuid' \in Nat /\ lastUuid <= lastUuid' /\ behind' \subseteq Phone /\ parted' \subseteq Device
        /\ relay' \subseteq Registration /\ (\A g, k \in relay' : g.uuid = k.uuid => g = k)
        /\ \A g \in relay' : g.uuid \in 1..lastUuid' /\ g.device \in Phone
    BY <1>2, <1>3, Types DEF TablesOK, Drawn
  <1>5. TablesOK' /\ Drawn'
    BY <1>3, <1>4, RelayChanged
  <1> QED
    BY <1>2, <1>3, <1>4, <1>5, AfterRelayStep

\* The relay forgets a uuid, or does not answer.
LEMMA RelayShrinks ==
    ASSUME MsgInv, UNCHANGED <<load, accounts, dev, lastUuid, hub>>, relay' \subseteq relay, behind' \subseteq Phone, parted' \subseteq Device
    PROVE  TablesOK' /\ Drawn' /\ lastUuid <= lastUuid'
  <1>1. lastUuid' \in Nat /\ lastUuid <= lastUuid'
    BY Types DEF Drawn
  <1>2. /\ relay' \subseteq Registration /\ (\A g, k \in relay' : g.uuid = k.uuid => g = k)
        /\ (\A g \in relay' : g.uuid \in 1..lastUuid' /\ g.device \in Phone)
    BY Types DEF TablesOK, Drawn
  <1> QED
    BY <1>1, <1>2, RelayChanged

LEMMA UnregisterStep ==
    ASSUME MsgInv, NEW r \in Req, Unregister(r)
    PROVE  MsgInv'
  <1>1. req[r].device \in Phone /\ Finish(r) /\ UNCHANGED <<load, accounts, dev, lastUuid, parted, hub>>
        /\ relay' \subseteq relay /\ (behind' = behind \ {req[r].device} \/ behind' = behind \cup {req[r].device})
    BY Types DEF Unregister, At, Sound
  <1>2. behind' \subseteq Phone /\ parted' \subseteq Device
    BY <1>1, Types DEF TablesOK
  <1> QED
    BY <1>1, <1>2, RelayShrinks, FinishStep

-----------------------------------------------------------------------------
\* A login

LEMMA FindDeviceDoes ==
    ASSUME MsgInv, NEW r \in Req, FindDevice(r)
    PROVE  /\ req[r].stage = "find" /\ req[r].device \in Device /\ Meets(r)
           /\ UNCHANGED <<load, accounts, dev, relay, lastUuid, behind, hub>>
           /\ \E g \in MsgHandler :
                 /\ Goto(r, g) /\ g.device = req[r].device /\ g.route = "login" /\ ~g.created
                 /\ \/ g.stage = "insert" /\ dev[g.device] = None /\ g.uuid = req[r].uuid /\ g.token = req[r].token
                    \/ /\ g.stage = "touch" /\ dev[g.device] # None
                       /\ g.uuid = dev[g.device].uuid /\ g.token = dev[g.device].token
  <1>1. PICK h \in MsgHandler : h = req[r] /\ Sound(h) /\ h.stage = "find"
    BY Types DEF FindDevice, At
  <1>2. h.device \in Device /\ dev[h.device] \in DevRow \cup {None} /\ h.route = "login" /\ ~h.created
    BY <1>1, Types DEF Sound, OnDevice, TablesOK
  <1>3. CASE dev[h.device] = None
    <2>1. "insert" \in MsgStage
      BY DEF MsgStage
    <2>2. Proceed(r, "insert")
      BY <1>1, <1>3 DEF FindDevice
    <2>3. PICK g \in MsgHandler : Goto(r, g) /\ g.stage = "insert" /\ Same(g, req[r])
      BY <2>1, <2>2, Goes
    <2>4. g.device = h.device /\ g.route = "login" /\ ~g.created /\ g.uuid = h.uuid /\ g.token = h.token
      BY <1>1, <1>2, <2>3 DEF Same
    <2> QED
      BY <1>1, <1>2, <1>3, <2>3, <2>4 DEF FindDevice
  <1>4. CASE dev[h.device] # None
    <2>1. PICK u \in Nat \cup {None}, t \in PushToken \cup {None} : u = dev[h.device].uuid /\ t = dev[h.device].token
      BY <1>2, <1>4 DEF DevRow
    <2> DEFINE g == [h EXCEPT !.stage = "touch", !.token = t, !.uuid = u]
    <2>2. g \in MsgHandler
      BY DEF MsgHandler, MsgStage
    <2>3. /\ g.stage = "touch" /\ g.uuid = u /\ g.token = t /\ g.device = h.device /\ g.route = h.route
          /\ g.created = h.created
      BY DEF MsgHandler
    <2>4. Goto(r, g)
      BY <1>1, <1>4, <2>1 DEF FindDevice
    <2> HIDE DEF g
    <2> QED
      BY <1>1, <1>2, <1>4, <2>1, <2>2, <2>3, <2>4 DEF FindDevice
  <1> QED
    BY <1>3, <1>4

LEMMA FindDeviceStep ==
    ASSUME MsgInv, NEW r \in Req, FindDevice(r)
    PROVE  MsgInv'
  <1>1. /\ req[r].stage = "find" /\ req[r].device \in Device /\ Meets(r) /\ Sound(req[r])
        /\ UNCHANGED <<load, accounts, dev, relay, lastUuid, behind, sock, job, lost>>
    BY FindDeviceDoes, Types DEF hub
  <1>2. TablesOK' /\ Drawn' /\ lastUuid <= lastUuid'
    BY <1>1, MeetsTypes, Types, TablesStay DEF TablesOK
  <1>3. PICK g \in MsgHandler :
                 /\ Goto(r, g) /\ g.device = req[r].device /\ g.route = "login" /\ ~g.created
                 /\ \/ g.stage = "insert" /\ dev[g.device] = None /\ g.uuid = req[r].uuid /\ g.token = req[r].token
                    \/ /\ g.stage = "touch" /\ dev[g.device] # None
                       /\ g.uuid = dev[g.device].uuid /\ g.token = dev[g.device].token
    BY FindDeviceDoes
  <1>4. g.uuid # None => g.device \in Phone /\ g.uuid \in 1..lastUuid'
    BY <1>1, <1>3, Types DEF TablesOK, Sound
  <1>5. Sound(g)'
    BY <1>1, <1>3, <1>4 DEF Sound, OnDevice, Pushing
  <1> QED
    BY <1>2, <1>3, <1>5, SlotStep

LEMMA NewRow == [token |-> None, uuid |-> None] \in DevRow /\ [token |-> None, uuid |-> None].uuid = None
  <1>1. [token |-> None, uuid |-> None] \in DevRow
    BY DEF DevRow
  <1>2. [token |-> None, uuid |-> None].uuid = None
    OBVIOUS
  <1> QED
    BY <1>1, <1>2

LEMMA InsertDeviceStep ==
    ASSUME MsgInv, NEW r \in Req, InsertDevice(r)
    PROVE  MsgInv'
  <1>1. req[r].stage = "insert" /\ req[r].device \in Device /\ Sound(req[r]) /\ "touch" \in MsgStage
    BY Types DEF InsertDevice, At, Sound, OnDevice, MsgStage
  <1>2. UNCHANGED <<load, accounts, relay, lastUuid, behind, parted, hub>>
    BY DEF InsertDevice
  <1>3. CASE stamp = 0 \/ dev[req[r].device] # None
    <2>1. dev' = dev /\ Finish(r)
      BY <1>3 DEF InsertDevice
    <2>2. /\ dev' \in [Device -> DevRow \cup {None}]
          /\ stamp = 0 => \A d \in Device : dev'[d] = None
          /\ \A d \in Device : dev'[d] # None /\ dev'[d].uuid # None => d \in Phone /\ dev'[d].uuid \in 1..lastUuid
      BY <2>1, Types DEF TablesOK
    <2>3. TablesOK' /\ Drawn' /\ lastUuid <= lastUuid'
      BY <1>2, <2>2, RowsWritten
    <2> QED
      BY <2>1, <2>3, FinishStep
  <1>4. CASE ~(stamp = 0 \/ dev[req[r].device] # None)
    <2>1. dev' = [dev EXCEPT ![req[r].device] = [token |-> None, uuid |-> None]] /\ Proceed(r, "touch")
      BY <1>4 DEF InsertDevice
    <2>2. PICK row \in DevRow : row = [token |-> None, uuid |-> None] /\ row.uuid = None
      BY NewRow
    <2>3. dev' \in [Device -> DevRow \cup {None}] /\ \A d \in Device : dev'[d] = IF d = req[r].device THEN row ELSE dev[d]
      BY <1>1, <2>1, <2>2, Types DEF TablesOK
    <2>4. \A d \in Device : dev'[d] # None /\ dev'[d].uuid # None => d \in Phone /\ dev'[d].uuid \in 1..lastUuid
      BY <2>2, <2>3, Types DEF TablesOK
    <2>5. TablesOK' /\ Drawn' /\ lastUuid <= lastUuid'
      BY <1>2, <1>4, <2>3, <2>4, RowsWritten
    <2>6. PICK g \in MsgHandler : Goto(r, g) /\ g.stage = "touch" /\ Same(g, req[r])
      BY <1>1, <2>1, Goes
    <2>7. g.uuid # None => g.device \in Phone /\ g.uuid \in 1..lastUuid'
      BY <1>1, <1>2, <2>6 DEF Same, Sound
    <2>8. Sound(g)'
      BY <1>1, <2>6, <2>7 DEF Sound, Same, OnDevice, Pushing
    <2> QED
      BY <2>5, <2>6, <2>8, SlotStep
  <1> QED
    BY <1>3, <1>4

LEMMA ReregisterStep ==
    ASSUME MsgInv, NEW r \in Req, Reregister(r)
    PROVE  MsgInv'
  <1>1. req[r].stage = "touch" /\ Sound(req[r]) /\ UNCHANGED <<load, accounts, pushes, hub>> /\ lastUuid' = lastUuid
    BY Types DEF Reregister, At, pushes
  <1>2. PICK stage \in MsgStage : /\ stage = "issue" \/ (stage = "register" /\ req[r].token # None /\ req[r].device \in Phone)
                                  /\ Proceed(r, stage)
    BY DEF Reregister, MsgStage
  <1>3. PICK g \in MsgHandler : Goto(r, g) /\ g.stage = stage /\ Same(g, req[r])
    BY <1>2, Goes
  <1>4. Sound(g)'
    BY <1>1, <1>2, <1>3 DEF Sound, Same, OnDevice, Pushing
  <1> QED
    BY <1>1, <1>3, <1>4, AllStay, SlotStep

\* A step of which pushes and hub have no part.
LEMMA PushesStay ==
    ASSUME MsgInv, UNCHANGED <<load, pushes, sock, lost>>, lastStamp' \in Nat, stamp' \in 0..lastStamp', answer' \in Nat,
           stamp' = 0 => stamp = 0, session' \subseteq AccessToken, job' \subseteq Message
    PROVE  TablesOK' /\ Drawn' /\ lastUuid <= lastUuid'
  <1>1. TablesOK /\ Drawn /\ UNCHANGED <<dev, relay, lastUuid, behind, parted>>
    BY Types DEF pushes
  <1>2. TablesOK'
    BY <1>1 DEF TablesOK
  <1>3. Drawn' /\ lastUuid <= lastUuid'
    BY <1>1 DEF Drawn
  <1> QED
    BY <1>2, <1>3

LEMMA IssueStep ==
    ASSUME MsgInv, NEW r \in Req, Issue(r)
    PROVE  MsgInv'
  <1>1. PICK h \in MsgHandler : h = req[r] /\ Sound(h) /\ h.stage = "issue"
    BY Types DEF Issue, At
  <1>2. [device |-> h.device, stamp |-> h.stamp] \in AccessToken
    BY <1>1 DEF Sound, OnDevice, MsgHandler, AccessToken
  <1>3. session' = session \cup {[device |-> h.device, stamp |-> h.stamp]} /\ Finish(r)
        /\ UNCHANGED <<load, stamp, lastStamp, answer, pushes, sock, job, lost>>
    BY <1>1 DEF Issue, hub
  <1>4. session' \subseteq AccessToken
    BY <1>2, <1>3, Types DEF TablesOK
  <1>5. TablesOK' /\ Drawn' /\ lastUuid <= lastUuid'
    BY <1>3, <1>4, Types, PushesStay DEF TablesOK, Drawn
  <1> QED
    BY <1>3, <1>5, FinishStep

-----------------------------------------------------------------------------
\* Whole accounts

LEMMA ListDoes ==
    ASSUME MsgInv, NEW r \in Req, List(r)
    PROVE  /\ req[r].stage = "listUuids" /\ Meets(r)
           /\ UNCHANGED <<load, accounts, dev, relay, lastUuid, behind, hub>>
           /\ \E g \in MsgHandler :
                 /\ Goto(r, g) /\ g.uuids = ListUuids(req[r]) /\ g.route = req[r].route /\ g.route \in Whole
                 /\ g.stage = IF g.uuids = {} THEN AfterList(req[r]) ELSE "unregister"
                 /\ g.stage \in {"unregister", "dropDevices", "dropUser"}
                 /\ g.device = req[r].device /\ g.uuid = req[r].uuid /\ g.created = req[r].created /\ g.token = req[r].token
  <1>1. PICK h \in MsgHandler : h = req[r] /\ Sound(h) /\ h.stage = "listUuids"
    BY Types DEF List, At
  <1>2. ListUuids(h) \subseteq Nat
    BY Types DEF ListUuids, UuidOf, TablesOK, DevRow
  <1>3. PICK us \in SUBSET Nat : us = ListUuids(h)
    BY <1>2
  <1>4. PICK stage \in {"unregister", "dropDevices", "dropUser"} : stage = IF us = {} THEN AfterList(h) ELSE "unregister"
    BY DEF AfterList
  <1> DEFINE g == [h EXCEPT !.uuids = us, !.stage = stage]
  <1>5. g \in MsgHandler
    BY DEF MsgHandler, MsgStage
  <1>6. /\ g.stage = stage /\ g.uuids = us /\ g.route = h.route /\ g.device = h.device /\ g.uuid = h.uuid
        /\ g.created = h.created /\ g.token = h.token
    BY DEF MsgHandler
  <1>7. Goto(r, g)
    BY <1>1, <1>3, <1>4 DEF List
  <1> HIDE DEF g
  <1>8. h.route \in Whole
    BY <1>1 DEF Sound
  <1> QED
    BY <1>1, <1>3, <1>4, <1>5, <1>6, <1>7, <1>8 DEF List

LEMMA ListStep ==
    ASSUME MsgInv, NEW r \in Req, List(r)
    PROVE  MsgInv'
  <1>1. /\ req[r].stage = "listUuids" /\ Meets(r) /\ Sound(req[r])
        /\ UNCHANGED <<load, accounts, dev, relay, lastUuid, behind, sock, job, lost>>
    BY ListDoes, Types DEF hub
  <1>2. TablesOK' /\ Drawn' /\ lastUuid <= lastUuid'
    BY <1>1, MeetsTypes, Types, TablesStay DEF TablesOK
  <1>3. PICK g \in MsgHandler :
                 /\ Goto(r, g) /\ g.uuids = ListUuids(req[r]) /\ g.route = req[r].route /\ g.route \in Whole
                 /\ g.stage = IF g.uuids = {} THEN AfterList(req[r]) ELSE "unregister"
                 /\ g.stage \in {"unregister", "dropDevices", "dropUser"}
                 /\ g.device = req[r].device /\ g.uuid = req[r].uuid /\ g.created = req[r].created /\ g.token = req[r].token
    BY ListDoes
  <1>4. Sound(g)'
    BY <1>1, <1>3 DEF Sound, OnDevice, Pushing, Whole
  <1> QED
    BY <1>2, <1>3, <1>4, SlotStep

LEMMA UnregisterEachDoes ==
    ASSUME MsgInv, NEW r \in Req, UnregisterEach(r)
    PROVE  /\ req[r].stage = "unregister" /\ req[r].route \in Whole
           /\ UNCHANGED <<load, accounts, dev, lastUuid, behind, hub>>
           /\ \E u \in req[r].uuids, g \in MsgHandler :
                 /\ \/ relay' = {k \in relay : k.uuid # u} /\ UNCHANGED parted
                    \/ UNCHANGED relay /\ parted' = parted \cup {k.device : k \in {k \in relay : k.uuid = u}}
                 /\ Goto(r, g) /\ g.uuids = req[r].uuids \ {u} /\ g.route = req[r].route
                 /\ g.stage = IF req[r].uuids = {u} THEN AfterList(req[r]) ELSE "unregister"
                 /\ g.stage \in {"unregister", "dropDevices", "dropUser"}
                 /\ g.device = req[r].device /\ g.uuid = req[r].uuid /\ g.created = req[r].created /\ g.token = req[r].token
  <1>1. PICK h \in MsgHandler : h = req[r] /\ h.stage = "unregister" /\ h.route \in Whole
    BY Types DEF UnregisterEach, At
  <1>2. PICK u \in h.uuids :
          /\ \/ relay' = {k \in relay : k.uuid # u} /\ UNCHANGED parted
             \/ UNCHANGED relay /\ parted' = parted \cup {k.device : k \in {k \in relay : k.uuid = u}}
          /\ Goto(r, [h EXCEPT !.uuids = @ \ {u}, !.stage = IF h.uuids = {u} THEN AfterList(h) ELSE @])
    BY <1>1 DEF UnregisterEach
  <1>3. PICK stage \in {"unregister", "dropDevices", "dropUser"} : stage = IF h.uuids = {u} THEN AfterList(h) ELSE "unregister"
    BY DEF AfterList
  <1>4. PICK us \in SUBSET Nat : us = h.uuids \ {u}
    BY DEF MsgHandler
  <1> DEFINE g == [h EXCEPT !.uuids = us, !.stage = stage]
  <1>5. g \in MsgHandler
    BY DEF MsgHandler, MsgStage
  <1>6. /\ g.stage = stage /\ g.uuids = us /\ g.route = h.route /\ g.device = h.device /\ g.uuid = h.uuid
        /\ g.created = h.created /\ g.token = h.token
    BY DEF MsgHandler
  <1>7. Goto(r, g)
    BY <1>1, <1>2, <1>3, <1>4
  <1> HIDE DEF g
  <1> QED
    BY <1>1, <1>2, <1>3, <1>4, <1>5, <1>6, <1>7 DEF UnregisterEach

LEMMA UnregisterEachStep ==
    ASSUME MsgInv, NEW r \in Req, UnregisterEach(r)
    PROVE  MsgInv'
  <1>1. /\ req[r].stage = "unregister" /\ req[r].route \in Whole /\ Sound(req[r])
        /\ UNCHANGED <<load, accounts, dev, lastUuid, behind, hub>>
    BY UnregisterEachDoes, Types
  <1>2. PICK u \in req[r].uuids, g \in MsgHandler :
                 /\ \/ relay' = {k \in relay : k.uuid # u} /\ UNCHANGED parted
                    \/ UNCHANGED relay /\ parted' = parted \cup {k.device : k \in {k \in relay : k.uuid = u}}
                 /\ Goto(r, g) /\ g.uuids = req[r].uuids \ {u} /\ g.route = req[r].route
                 /\ g.stage = IF req[r].uuids = {u} THEN AfterList(req[r]) ELSE "unregister"
                 /\ g.stage \in {"unregister", "dropDevices", "dropUser"}
                 /\ g.device = req[r].device /\ g.uuid = req[r].uuid /\ g.created = req[r].created /\ g.token = req[r].token
    BY UnregisterEachDoes
  <1>3. relay' \subseteq relay /\ behind' \subseteq Phone /\ parted' \subseteq Device
    <2>1. behind' \subseteq Phone /\ relay' \subseteq relay
      BY <1>1, <1>2, Types DEF TablesOK
    <2>2. \A k \in relay : k.device \in Device
      BY Types DEF TablesOK, Registration
    <2> QED
      BY <1>2, <2>1, <2>2, Types DEF TablesOK
  <1>4. TablesOK' /\ Drawn' /\ lastUuid <= lastUuid'
    BY <1>1, <1>3, RelayShrinks
  <1>5. Sound(g)'
    BY <1>1, <1>2 DEF Sound, OnDevice, Pushing, Whole
  <1> QED
    BY <1>2, <1>4, <1>5, SlotStep

\* No row at all.
LEMMA AllRowsGone ==
    ASSUME dev' = [d \in Device |-> None]
    PROVE  /\ dev' \in [Device -> DevRow \cup {None}]
           /\ \A d \in Device : dev'[d] = None
  OBVIOUS

LEMMA DropDevicesStep ==
    ASSUME MsgInv, NEW r \in Req, DropDevices(r)
    PROVE  MsgInv'
  <1>1. req[r].stage = "dropDevices" /\ Sound(req[r]) /\ "replace" \in MsgStage /\ Proceed(r, "replace")
        /\ dev' = [d \in Device |-> None] /\ UNCHANGED <<load, accounts, relay, lastUuid, behind, parted, hub>>
    BY Types DEF DropDevices, At, MsgStage
  <1>2. TablesOK' /\ Drawn' /\ lastUuid <= lastUuid'
    BY <1>1, AllRowsGone, RowsWritten
  <1>3. PICK g \in MsgHandler : Goto(r, g) /\ g.stage = "replace" /\ Same(g, req[r])
    BY <1>1, Goes
  <1>4. Sound(g)'
    BY <1>1, <1>3 DEF Sound, Same, OnDevice, Pushing
  <1> QED
    BY <1>2, <1>3, <1>4, SlotStep

LEMMA DropUserStep ==
    ASSUME MsgInv, NEW r \in Req, DropUser(r)
    PROVE  MsgInv'
  <1>1. /\ stamp' = 0 /\ dev' = [d \in Device |-> None] /\ Finish(r)
        /\ UNCHANGED <<load, lastStamp, answer, session, relay, lastUuid, behind, parted, sock, job, lost>>
    BY DEF DropUser, hub
  <1>2. stamp' \in 0..lastStamp'
    BY <1>1, Types DEF Drawn
  <1>3. TablesOK'
    BY <1>1, <1>2, AllRowsGone, Types DEF TablesOK
  <1>4. Drawn' /\ lastUuid <= lastUuid'
    BY <1>1, StillDrawn
  <1> QED
    BY <1>1, <1>3, <1>4, FinishStep

LEMMA PublishTypes ==
    ASSUME MsgInv, NEW topic \in Topic, NEW n \in Nat, Publish(topic, n)
    PROVE  job' \subseteq Message
  BY Types DEF Publish, TablesOK, Message

LEMMA ReplaceStep ==
    ASSUME MsgInv, NEW r \in Req, Replace(r)
    PROVE  MsgInv'
  <1>1. Finish(r) /\ Publish("account", lastStamp') /\ UNCHANGED <<load, answer, session, pushes, sock, lost>>
    BY DEF Replace
  <1>2. lastStamp' \in Nat /\ stamp' \in 0..lastStamp' /\ (stamp' = 0 => stamp = 0)
    <2>1. lastStamp \in Nat /\ stamp \in 0..lastStamp
      BY Types DEF Drawn, TablesOK
    <2> QED
      BY <2>1 DEF Replace
  <1>3. job' \subseteq Message
    BY <1>1, <1>2, PublishTypes DEF Topic
  <1>4. TablesOK' /\ Drawn' /\ lastUuid <= lastUuid'
    BY <1>1, <1>2, <1>3, Types, PushesStay DEF TablesOK
  <1> QED
    BY <1>1, <1>4, FinishStep

-----------------------------------------------------------------------------
\* Auth requests, and a handler cut short

LEMMA ReadRequestStep ==
    ASSUME MsgInv, NEW r \in Req, ReadRequest(r)
    PROVE  MsgInv'
  <1>1. req[r].stage = "readRequest" /\ Sound(req[r]) /\ "approve" \in MsgStage /\ UNCHANGED <<load, accounts, pushes, hub>>
        /\ lastUuid' = lastUuid
    BY Types DEF ReadRequest, At, MsgStage, pushes
  <1>2. CASE Finish(r)
    BY <1>1, <1>2, AllStay, FinishStep
  <1>3. CASE ~Finish(r)
    <2>1. Proceed(r, "approve")
      BY <1>3 DEF ReadRequest
    <2>2. PICK g \in MsgHandler : Goto(r, g) /\ g.stage = "approve" /\ Same(g, req[r])
      BY <1>1, <2>1, Goes
    <2>3. Sound(g)'
      BY <1>1, <2>2 DEF Sound, Same, OnDevice, Pushing
    <2> QED
      BY <1>1, <2>2, <2>3, AllStay, SlotStep
  <1> QED
    BY <1>2, <1>3

LEMMA ApproveStep ==
    ASSUME MsgInv, NEW r \in Req, Approve(r)
    PROVE  MsgInv'
  <1>1. answer' = answer + 1 /\ Publish("request", answer') /\ Finish(r)
        /\ UNCHANGED <<load, stamp, lastStamp, session, pushes, sock, lost>>
    BY DEF Approve
  <1>2. answer' \in Nat
    BY <1>1, Types DEF TablesOK
  <1>3. job' \subseteq Message
    BY <1>1, <1>2, PublishTypes DEF Topic
  <1>4. TablesOK' /\ Drawn' /\ lastUuid <= lastUuid'
    BY <1>1, <1>2, <1>3, Types, PushesStay DEF TablesOK, Drawn
  <1> QED
    BY <1>1, <1>4, FinishStep

LEMMA CrashStep ==
    ASSUME MsgInv, NEW r \in Req, Crash(r)
    PROVE  MsgInv'
  <1>1. Finish(r) /\ UNCHANGED <<load, accounts, dev, relay, lastUuid, hub>>
    BY DEF Crash
  <1>2. behind' \subseteq Phone
    <2>1. Sound(req[r]) /\ behind \subseteq Phone
      BY Types DEF TablesOK
    <2> QED
      BY <2>1 DEF Crash, At, Sound, Pushing
  <1>3. parted' \subseteq Device
    <2>1. Sound(req[r]) /\ parted \subseteq Device
      BY Types DEF TablesOK
    <2> QED
      BY <2>1 DEF Crash, At, Sound, OnDevice
  <1> QED
    BY <1>1, <1>2, <1>3, RelayShrinks, FinishStep

-----------------------------------------------------------------------------
\* The durable object

\* A step of which the handlers and the tables have no part.
LEMMA SocketStep ==
    ASSUME MsgInv, UNCHANGED <<load, accounts, pushes, req>>, sock' \in [Socket -> Connection \cup {None}],
           job' \subseteq Message, lost' \subseteq Message
    PROVE  MsgInv'
  <1>1. TablesOK /\ Drawn /\ UNCHANGED <<stamp, lastStamp, answer, session, dev, relay, lastUuid, behind, parted>>
    BY Types DEF accounts, pushes
  <1>2. TablesOK'
    BY <1>1 DEF TablesOK
  <1>3. MsgTypeOK' /\ Drawn'
    BY <1>1, <1>2 DEF MsgInv, MsgTypeOK, TablesOK, Drawn
  <1>4. AllSound'
    BY <1>1 DEF MsgInv, AllSound, Sound
  <1> QED
    BY <1>3, <1>4 DEF MsgInv

LEMMA OpeningTypes ==
    ASSUME NEW topic \in Topic
    PROVE  Opening(topic) \in Connection /\ ~Opening(topic).initialized /\ Opening(topic).since = None
  BY DEF Opening, Connection

LEMMA CurrentTypes ==
    ASSUME MsgInv, NEW topic
    PROVE  Current(topic) \in Nat
  BY Types DEF Current, TablesOK, Drawn

LEMMA ListenDoes ==
    ASSUME MsgInv, NEW s \in Socket, Listen(s)
    PROVE  /\ UNCHANGED <<load, accounts, pushes, job, lost, req>>
           /\ sock' \in [Socket -> Connection \cup {None}]
           /\ \A t \in Socket \ {s} : sock'[t] = sock[t]
           /\ ~sock'[s].initialized /\ sock'[s].since = None
  <1>1. PICK c \in Connection : c = Opening("request") /\ ~c.initialized /\ c.since = None
    BY OpeningTypes DEF Topic
  <1>2. sock' = [sock EXCEPT ![s] = c] /\ UNCHANGED <<load, accounts, pushes, job, lost, req>>
    BY <1>1 DEF Listen
  <1> QED
    BY <1>1, <1>2, Types DEF TablesOK

LEMMA HandshakeDoes ==
    ASSUME MsgInv, NEW s \in Socket, Handshake(s)
    PROVE  /\ UNCHANGED <<load, accounts, pushes, job, lost, req>>
           /\ sock' \in [Socket -> Connection \cup {None}]
           /\ \A t \in Socket \ {s} : sock'[t] = sock[t]
           /\ sock[s] # None /\ ~sock[s].broken /\ sock'[s].initialized /\ sock'[s].told = sock[s].told
           /\ sock'[s].topic = sock[s].topic
           /\ sock'[s].since = IF sock[s].since = None THEN Current(sock[s].topic) ELSE sock[s].since
  <1>1. PICK c \in Connection : c = sock[s] /\ c # None /\ ~c.broken
    BY Types DEF Handshake, TablesOK
  <1>2. PICK n \in Nat \cup {None} : n = IF c.since = None THEN Current(c.topic) ELSE c.since
    BY CurrentTypes DEF Connection
  <1> DEFINE g == [c EXCEPT !.initialized = TRUE, !.since = n]
  <1>3. g \in Connection
    BY DEF Connection
  <1>4. g.initialized /\ g.since = n /\ g.told = c.told /\ g.topic = c.topic
    BY DEF Connection
  <1>5. sock' = [sock EXCEPT ![s] = g] /\ UNCHANGED <<load, accounts, pushes, job, lost, req>>
    BY <1>1, <1>2 DEF Handshake
  <1> HIDE DEF g
  <1> QED
    BY <1>1, <1>2, <1>3, <1>4, <1>5, Types DEF TablesOK

LEMMA BreakDoes ==
    ASSUME MsgInv, NEW s \in Socket, Break(s)
    PROVE  /\ UNCHANGED <<load, accounts, pushes, job, lost, req>>
           /\ sock' \in [Socket -> Connection \cup {None}]
           /\ \A t \in Socket \ {s} : sock'[t] = sock[t]
           /\ sock[s] # None /\ sock'[s].broken /\ sock'[s].initialized = sock[s].initialized
           /\ sock'[s].since = sock[s].since
  <1>1. PICK c \in Connection : c = sock[s] /\ c # None /\ ~c.broken
    BY Types DEF Break, TablesOK
  <1> DEFINE g == [c EXCEPT !.broken = TRUE]
  <1>2. g \in Connection
    BY DEF Connection
  <1>3. g.broken /\ g.initialized = c.initialized /\ g.since = c.since
    BY DEF Connection
  <1>4. sock' = [sock EXCEPT ![s] = g] /\ UNCHANGED <<load, accounts, pushes, job, lost, req>>
    BY <1>1 DEF Break
  <1> HIDE DEF g
  <1> QED
    BY <1>1, <1>2, <1>3, <1>4, Types DEF TablesOK

LEMMA CloseDoes ==
    ASSUME MsgInv, NEW s \in Socket, Close(s)
    PROVE  /\ UNCHANGED <<load, accounts, pushes, job, lost, req>>
           /\ sock' \in [Socket -> Connection \cup {None}]
           /\ \A t \in Socket \ {s} : sock'[t] = sock[t]
           /\ sock'[s] = None
  BY Types DEF Close, TablesOK

\* What a message makes of a socket.
LEMMA FanOutDoes ==
    ASSUME MsgInv, NEW m \in job, FanOut(m)
    PROVE  /\ UNCHANGED <<load, accounts, pushes, lost, req>> /\ job' = job \ {m}
           /\ sock' \in [Socket -> Connection \cup {None}]
           /\ \A s \in Socket :
                 \/ s \notin Matched(m) /\ sock'[s] = sock[s]
                 \/ sock'[s] = None
                 \/ /\ s \in Matched(m) /\ sock'[s] \in Connection /\ sock'[s].told = sock[s].told \cup {m.number}
                    /\ sock'[s].initialized = sock[s].initialized /\ sock'[s].since = sock[s].since
                    /\ sock'[s].broken = sock[s].broken /\ sock'[s].topic = sock[s].topic
  <1>1. sock' = Fanned(m) /\ job' = job \ {m} /\ UNCHANGED <<load, accounts, pushes, lost, req>>
    BY DEF FanOut
  <1>2. \A s \in Socket : sock'[s] = IF s \notin Matched(m) THEN sock[s]
                                     ELSE IF sock[s].broken THEN None ELSE Sent(m, s)
    BY <1>1 DEF Fanned
  <1>3. ASSUME NEW s \in Matched(m)
        PROVE  /\ Sent(m, s) \in Connection /\ Sent(m, s).told = sock[s].told \cup {m.number}
               /\ Sent(m, s).initialized = sock[s].initialized /\ Sent(m, s).since = sock[s].since
               /\ Sent(m, s).broken = sock[s].broken /\ Sent(m, s).topic = sock[s].topic
    <2>1. PICK c \in Connection : c = sock[s]
      BY <1>3, Types DEF Matched, Tagged, TablesOK
    <2>2. m.number \in Nat
      BY Types DEF TablesOK, Message
    <2> DEFINE g == [c EXCEPT !.told = c.told \cup {m.number}]
    <2>3. g \in Connection
      BY <2>2 DEF Connection
    <2>4. /\ g.told = c.told \cup {m.number} /\ g.initialized = c.initialized /\ g.since = c.since
          /\ g.broken = c.broken /\ g.topic = c.topic
      BY DEF Connection
    <2>5. Sent(m, s) = g
      BY <2>1 DEF Sent
    <2> HIDE DEF g
    <2> QED
      BY <2>1, <2>3, <2>4, <2>5
  <1>4. sock' \in [Socket -> Connection \cup {None}]
    <2>1. sock \in [Socket -> Connection \cup {None}]
      BY Types DEF TablesOK
    <2>2. \A s \in Socket : sock'[s] \in Connection \cup {None}
      BY <1>2, <1>3, <2>1
    <2>3. sock' = [s \in Socket |-> sock'[s]]
      BY <1>1 DEF Fanned
    <2> QED
      BY <2>2, <2>3
  <1> QED
    BY <1>1, <1>2, <1>3, <1>4

-----------------------------------------------------------------------------
\* The types of Messages

LEMMA MsgStarts == MsgInit => MsgInv
  <1> SUFFICES ASSUME MsgInit PROVE MsgInv
    OBVIOUS
  <1>1. AllSound /\ req \in [Req -> MsgHandler]
    <2>1. req = [r \in Req |-> MsgIdle]
      BY DEF MsgInit
    <2>2. AllSound
      BY <2>1, IdleSound DEF AllSound
    <2> QED
      BY <2>1, <2>2, IdleSound
  <1>2. dev \in [Device -> DevRow \cup {None}] /\ \A d \in Device : dev[d].uuid = None
    BY NewRow DEF MsgInit
  <1>3. MsgTypeOK
    <2>1. session \subseteq AccessToken /\ stamp = 1 /\ lastStamp = 1 /\ answer = 0 /\ lastUuid = 0 /\ relay = {}
      BY DEF MsgInit, AccessToken
    <2>2. sock \in [Socket -> Connection \cup {None}] /\ job = {} /\ lost = {} /\ behind = {} /\ parted = {}
          /\ load \in MsgWorkloads
      BY DEF MsgInit
    <2> QED
      BY <1>1, <1>2, <2>1, <2>2 DEF MsgTypeOK
  <1>4. Drawn
    BY DEF MsgInit, Drawn
  <1> QED
    BY <1>1, <1>3, <1>4 DEF MsgInv

LEMMA MsgKeepsInv == MsgInv /\ [MsgNext]_msgVars => MsgInv'
  <1> SUFFICES ASSUME MsgInv, [MsgNext]_msgVars PROVE MsgInv'
    OBVIOUS
  <1>1. CASE \E r \in Req : MsgStep(r)
    <2>1. PICK r \in Req : MsgStep(r)
      BY <1>1
    <2> QED
      BY <2>1, BeginStep, VetStep, ReadRowStep, SetTokenStep, RegisterStep, RegisterFailsStep, PersistStep, PersistFailsStep, UnregisterStep,
         FindDeviceStep, InsertDeviceStep, ReregisterStep, IssueStep, ListStep, UnregisterEachStep, DropDevicesStep,
         DropUserStep, ReplaceStep, ReadRequestStep, ApproveStep, CrashStep DEF MsgStep
  <1>2. CASE \E s \in Socket : Listen(s) \/ Handshake(s) \/ Break(s) \/ Close(s)
    <2>1. UNCHANGED <<load, accounts, pushes, job, lost, req>> /\ sock' \in [Socket -> Connection \cup {None}]
      BY <1>2, ListenDoes, HandshakeDoes, BreakDoes, CloseDoes
    <2> QED
      BY <2>1, SocketStep, Types DEF TablesOK
  <1>3. CASE \E m \in job : FanOut(m)
    <2>1. UNCHANGED <<load, accounts, pushes, lost, req>> /\ sock' \in [Socket -> Connection \cup {None}] /\ job' \subseteq job
      BY <1>3, FanOutDoes
    <2> QED
      BY <2>1, SocketStep, Types DEF TablesOK
  <1>4. CASE \E m \in job : Lose(m)
    <2>1. UNCHANGED <<load, accounts, pushes, sock, req>> /\ job' \subseteq job /\ lost' \subseteq job \cup lost
      BY <1>4 DEF Lose
    <2> QED
      BY <2>1, SocketStep, Types DEF TablesOK
  <1>5. CASE UNCHANGED msgVars
    <2>1. UNCHANGED <<load, accounts, pushes, req, sock, job, lost>>
      BY <1>5 DEF msgVars, accounts, pushes
    <2> QED
      BY <2>1, SocketStep, Types DEF TablesOK
  <1> QED
    BY <1>1, <1>2, <1>3, <1>4, <1>5 DEF MsgNext

\* The types hold, a row of a device has an account, and a uuid is that of one
\* registration (upsert_device_token, Device::get_or_create, delete_account).
THEOREM MsgTypeCorrect == MsgSpec => []MsgTypeOK
  <1>1. MsgInv => MsgTypeOK
    BY DEF MsgInv
  <1> QED
    BY <1>1, MsgStarts, MsgKeepsInv, PTL DEF MsgSpec

-----------------------------------------------------------------------------
\* Who is told of a logout

\* A socket counts from its first handshake, and misses no message that was then to come.
Heard(c) ==
    c # None =>
        /\ c.initialized <=> c.since # None
        /\ ~c.broken /\ c.initialized =>
              \A n \in (c.since + 1)..Current(c.topic) :
                  n \in c.told \/ [topic |-> c.topic, number |-> n] \in job \cup lost

AllHeard == \A s \in Socket : Heard(sock[s])

\* While no message is sent, a socket that is left alone has heard what it had.
LEMMA HeardStays ==
    ASSUME AllHeard, NEW s \in Socket, sock'[s] = sock[s], UNCHANGED <<lastStamp, answer>>,
           job \cup lost \subseteq job' \cup lost'
    PROVE  Heard(sock[s])'
  <1>1. Heard(sock[s])
    BY DEF AllHeard
  <1> QED
    BY <1>1 DEF Heard, Current

LEMMA NoNews ==
    ASSUME AllHeard, UNCHANGED <<lastStamp, answer, sock, job, lost>>
    PROVE  AllHeard'
  BY HeardStays DEF AllHeard

\* One message more, of one topic, of which a task is made in the same step.
LEMMA News ==
    ASSUME MsgInv, AllHeard, sock' = sock, lost' = lost, NEW topic \in Topic,
           Current(topic)' \in {Current(topic), Current(topic) + 1},
           \A other \in Topic \ {topic} : Current(other)' = Current(other),
           job' = job \cup {[topic |-> topic, number |-> Current(topic)']}
    PROVE  AllHeard'
  <1> SUFFICES ASSUME NEW s \in Socket PROVE Heard(sock[s])'
    BY DEF AllHeard
  <1>1. Heard(sock[s]) /\ sock[s] \in Connection \cup {None}
    BY Types DEF AllHeard, TablesOK
  <1>2. CASE sock[s] = None
    BY <1>2 DEF Heard
  <1>3. CASE sock[s] # None
    <2>1. PICK c \in Connection : c = sock[s] /\ c.topic \in Topic /\ c.since \in Nat \cup {None}
      BY <1>1, <1>3 DEF Connection
    <2>2. Current(c.topic) \in Nat
      BY CurrentTypes
    <2>3. ASSUME ~c.broken, c.initialized, NEW n \in (c.since + 1)..Current(c.topic)'
          PROVE  n \in c.told \/ [topic |-> c.topic, number |-> n] \in job' \cup lost'
      <3>1. c.since \in Nat
        BY <1>1, <1>3, <2>1, <2>3 DEF Heard
      <3>2. CASE n \in (c.since + 1)..Current(c.topic)
        BY <1>1, <1>3, <2>1, <2>3, <3>2 DEF Heard
      <3>3. CASE n \notin (c.since + 1)..Current(c.topic)
        <4>1. c.topic = topic
          BY <2>1, <2>3, <3>3
        <4>2. n = Current(topic)'
          BY <2>2, <2>3, <3>1, <3>3, <4>1
        <4> QED
          BY <4>1, <4>2
      <3> QED
        BY <3>2, <3>3
    <2>4. (c.initialized <=> c.since # None)
      BY <1>1, <1>3, <2>1 DEF Heard
    <2>5. sock'[s] = c
      BY <2>1
    <2> QED
      BY <2>3, <2>4, <2>5 DEF Heard
  <1> QED
    BY <1>2, <1>3

LEMMA VetHeard ==
    ASSUME MsgInv, AllHeard, NEW r \in Req, Vet(r)
    PROVE  AllHeard'
  <1>1. UNCHANGED <<lastStamp, answer, job, lost>>
    BY DEF Vet, accounts
  <1>2. CASE sock' = sock
    BY <1>1, <1>2, NoNews
  <1>3. CASE sock' # sock
    <2>1. PICK c \in Connection : c = Opening("account") /\ ~c.initialized /\ c.since = None
      BY OpeningTypes DEF Topic
    <2>2. sock' = [sock EXCEPT ![req[r].socket] = c]
      BY <1>3, <2>1 DEF Vet
    <2> SUFFICES ASSUME NEW s \in Socket PROVE Heard(sock[s])'
      BY DEF AllHeard
    <2>3. sock'[s] = IF s = req[r].socket THEN c ELSE sock[s]
      BY <2>2, Types DEF TablesOK
    <2>4. CASE s = req[r].socket
      <3>1. sock'[s] = c
        BY <2>3, <2>4
      <3> QED
        BY <2>1, <3>1 DEF Heard
    <2>5. CASE s # req[r].socket
      <3>1. sock'[s] = sock[s]
        BY <2>3, <2>5
      <3> QED
        BY <1>1, <3>1, HeardStays
    <2> QED
      BY <2>4, <2>5
  <1> QED
    BY <1>2, <1>3

LEMMA ReplaceHeard ==
    ASSUME MsgInv, AllHeard, NEW r \in Req, Replace(r)
    PROVE  AllHeard'
  <1>1. UNCHANGED <<answer, sock, lost>> /\ job' = job \cup {[topic |-> "account", number |-> lastStamp']}
    BY DEF Replace, Publish
  <1>2. lastStamp' = lastStamp \/ lastStamp' = lastStamp + 1
    BY DEF Replace
  <1>3. Current("account")' \in {Current("account"), Current("account") + 1} /\ Current("account")' = lastStamp'
    BY <1>2 DEF Current
  <1>4. \A other \in Topic \ {"account"} : Current(other)' = Current(other)
    BY <1>1 DEF Current, Topic
  <1> QED
    BY <1>1, <1>3, <1>4, News DEF Topic

LEMMA ApproveHeard ==
    ASSUME MsgInv, AllHeard, NEW r \in Req, Approve(r)
    PROVE  AllHeard'
  <1>1. UNCHANGED <<lastStamp, sock, lost>> /\ job' = job \cup {[topic |-> "request", number |-> answer']}
        /\ answer' = answer + 1
    BY DEF Approve, Publish
  <1>2. Current("request")' \in {Current("request"), Current("request") + 1} /\ Current("request")' = answer'
    BY <1>1 DEF Current
  <1>3. \A other \in Topic \ {"request"} : Current(other)' = Current(other)
    BY <1>1 DEF Current, Topic
  <1> QED
    BY <1>1, <1>2, <1>3, News DEF Topic

\* The other steps of a handler: nobody is to hear of them.
LEMMA QuietSteps ==
    ASSUME NEW r \in Req, MsgStep(r), ~Vet(r), ~Replace(r), ~Approve(r)
    PROVE  UNCHANGED <<lastStamp, answer, sock, job, lost>>
  <1>1. CASE MsgBegin(r)
    BY <1>1 DEF MsgBegin, Start, StartLogin, Begin, accounts, hub
  <1>2. CASE ReadRow(r) \/ SetToken(r) \/ Register(r) \/ RegisterFails(r) \/ Persist(r) \/ PersistFails(r) \/ Unregister(r) \/ FindDevice(r)
    BY <1>2 DEF ReadRow, SetToken, Register, RegisterFails, Persist, PersistFails, Unregister, FindDevice, accounts, hub
  <1>3. CASE InsertDevice(r) \/ Reregister(r) \/ Issue(r) \/ List(r) \/ UnregisterEach(r) \/ DropDevices(r) \/ DropUser(r)
             \/ ReadRequest(r) \/ Crash(r)
    BY <1>3 DEF InsertDevice, Reregister, Issue, List, UnregisterEach, DropDevices, DropUser, ReadRequest, Crash, accounts, hub
  <1> QED
    BY <1>1, <1>2, <1>3 DEF MsgStep

LEMMA SocketsHeard ==
    ASSUME MsgInv, AllHeard, NEW s \in Socket, Listen(s) \/ Handshake(s) \/ Break(s) \/ Close(s)
    PROVE  AllHeard'
  <1>1. UNCHANGED <<lastStamp, answer, job, lost>> /\ \A t \in Socket \ {s} : sock'[t] = sock[t]
    BY ListenDoes, HandshakeDoes, BreakDoes, CloseDoes DEF accounts
  <1>2. \A t \in Socket \ {s} : Heard(sock[t])'
    BY <1>1, HeardStays
  <1>3. Heard(sock[s])
    BY DEF AllHeard
  <1>4. Heard(sock[s])'
    <2>1. CASE Listen(s)
      BY <2>1, ListenDoes DEF Heard
    <2>2. CASE Handshake(s)
      <3>1. /\ sock[s] # None /\ ~sock[s].broken /\ sock'[s].initialized /\ sock'[s].told = sock[s].told
            /\ sock'[s].topic = sock[s].topic
            /\ sock'[s].since = IF sock[s].since = None THEN Current(sock[s].topic) ELSE sock[s].since
        BY <2>2, HandshakeDoes
      <3>2. PICK c \in Nat : c = Current(sock[s].topic) /\ c # None
        BY CurrentTypes, MsgNoneAssumption
      <3>3. Current(sock[s].topic)' = c
        BY <1>1, <3>1, <3>2 DEF Current
      <3>4. CASE sock[s].since = None
        <4>1. sock'[s].since = c
          BY <3>1, <3>2, <3>4
        <4>2. (c + 1)..c = {}
          OBVIOUS
        <4> QED
          BY <3>1, <3>2, <3>3, <4>1, <4>2 DEF Heard
      <3>5. CASE sock[s].since # None
        <4>1. sock[s].initialized /\ sock'[s].since = sock[s].since
          BY <1>3, <3>1, <3>5 DEF Heard
        <4>2. \A n \in (sock[s].since + 1)..c :
                 n \in sock[s].told \/ [topic |-> sock[s].topic, number |-> n] \in job \cup lost
          BY <1>3, <3>1, <3>2, <4>1 DEF Heard
        <4> QED
          BY <1>1, <3>1, <3>3, <3>5, <4>1, <4>2 DEF Heard
      <3> QED
        BY <3>4, <3>5
    <2>3. CASE Break(s)
      BY <1>3, <2>3, BreakDoes DEF Heard
    <2>4. CASE Close(s)
      BY <2>4, CloseDoes DEF Heard
    <2> QED
      BY <2>1, <2>2, <2>3, <2>4
  <1> QED
    BY <1>2, <1>4 DEF AllHeard

LEMMA FanOutHeard ==
    ASSUME MsgInv, AllHeard, NEW m \in job, FanOut(m)
    PROVE  AllHeard'
  <1>1. UNCHANGED <<lastStamp, answer, lost>> /\ job' = job \ {m}
    BY FanOutDoes DEF accounts
  <1> SUFFICES ASSUME NEW s \in Socket PROVE Heard(sock[s])'
    BY DEF AllHeard
  <1>2. Heard(sock[s])
    BY DEF AllHeard
  <1>3. CASE sock'[s] = None
    BY <1>3 DEF Heard
  <1>4. CASE s \notin Matched(m) /\ sock'[s] = sock[s]
    <2>1. \A n : sock[s] # None /\ sock[s].initialized => [topic |-> sock[s].topic, number |-> n] # m
      BY <1>4 DEF Matched, Tagged
    <2>2. Current(sock[s].topic)' = Current(sock[s].topic)
      BY <1>1, <1>4 DEF Current
    <2> QED
      BY <1>1, <1>2, <1>4, <2>1, <2>2 DEF Heard
  <1>5. CASE /\ s \in Matched(m) /\ sock'[s] \in Connection /\ sock'[s].told = sock[s].told \cup {m.number}
             /\ sock'[s].initialized = sock[s].initialized /\ sock'[s].since = sock[s].since
             /\ sock'[s].broken = sock[s].broken /\ sock'[s].topic = sock[s].topic
    <2>1. sock[s] # None
      BY <1>5 DEF Matched, Tagged
    <2>2. Current(sock[s].topic)' = Current(sock[s].topic)
      BY <1>1, <1>5 DEF Current
    <2>3. \A n : [topic |-> sock[s].topic, number |-> n] = m => n = m.number
      OBVIOUS
    <2> QED
      BY <1>1, <1>2, <1>5, <2>1, <2>2, <2>3 DEF Heard
  <1> QED
    BY <1>3, <1>4, <1>5, FanOutDoes

LEMMA AllHeardStep == MsgInv /\ AllHeard /\ [MsgNext]_msgVars => AllHeard'
  <1> SUFFICES ASSUME MsgInv, AllHeard, [MsgNext]_msgVars PROVE AllHeard'
    OBVIOUS
  <1>1. CASE \E r \in Req : MsgStep(r)
    <2>1. PICK r \in Req : MsgStep(r)
      BY <1>1
    <2> QED
      BY <2>1, VetHeard, ReplaceHeard, ApproveHeard, QuietSteps, NoNews
  <1>2. CASE \E s \in Socket : Listen(s) \/ Handshake(s) \/ Break(s) \/ Close(s)
    BY <1>2, SocketsHeard
  <1>3. CASE \E m \in job : FanOut(m)
    BY <1>3, FanOutHeard
  <1>4. CASE \E m \in job : Lose(m)
    <2>1. UNCHANGED <<lastStamp, answer, sock>> /\ job \cup lost \subseteq job' \cup lost'
      BY <1>4 DEF Lose, accounts
    <2> QED
      BY <2>1, HeardStays DEF AllHeard
  <1>5. CASE UNCHANGED msgVars
    BY <1>5, NoNews DEF msgVars
  <1> QED
    BY <1>1, <1>2, <1>3, <1>4, <1>5 DEF MsgNext

\* Whoever had the protocol initialized when the stamp changed or the request was
\* approved is told, unless the message is under way or was lost (publish_user_logout,
\* publish_anonymous_update, ws_fanout).
THEOREM LogoutIsTold == MsgSpec => []LogoutTold
  <1>1. MsgInit => AllHeard
    BY DEF MsgInit, AllHeard, Heard
  <1>2. MsgInv /\ AllHeard => LogoutTold
    BY DEF AllHeard, Heard, LogoutTold
  <1> QED
    BY <1>1, <1>2, MsgStarts, MsgKeepsInv, AllHeardStep, PTL DEF MsgSpec

-----------------------------------------------------------------------------
\* Phones at the relay

\* A handler has read the row of one device, or those of all.
OnRow(h) ==
    \/ h.stage \in {"setToken", "register", "persist"}
    \/ h.stage = "touch" /\ h.token # None
    \/ h.stage = "unregister" /\ h.route = "clear"
OnAll(h) == h.stage \in {"unregister", "dropDevices", "dropUser"} /\ h.route \in Whole

\* Who knows a uuid, and for which device: never for two.
Owns(u, d) ==
    \/ \E k \in relay : k.uuid = u /\ k.device = d
    \/ dev[d] # None /\ dev[d].uuid = u
    \/ \E r \in Req : req[r].stage # "issue" /\ req[r].uuid = u /\ req[r].device = d
Own == \A u \in Nat, d, e \in Device : Owns(u, d) /\ Owns(u, e) => d = e

\* Handlers that work on the same phone have parted it.
Apart == \A q, r \in Req : q # r => Engaged(req[q]) \cap Engaged(req[r]) \subseteq parted

\* What a handler knows of the row of its device and of its registrations is still so.
KnowsRow(h) ==
    OnRow(h) /\ h.device \notin parted =>
        /\ dev[h.device] # None
        /\ h.stage # "setToken" => dev[h.device].token = h.token
        /\ h.stage # "persist" => dev[h.device].uuid = h.uuid
        /\ h.stage = "persist" =>
              /\ dev[h.device].uuid = None
              /\ \E k \in relay : k.device = h.device
              /\ \A k \in relay : k.device = h.device => k.uuid = h.uuid /\ k.token = h.token
KnowsAll(h) ==
    OnAll(h) => \A k \in relay : k.device \in parted \/ (h.stage = "unregister" /\ k.uuid \in h.uuids)
AllKnow == \A r \in Req : KnowsRow(req[r]) /\ KnowsAll(req[r])

\* The registrations of a phone have the uuid of its row, or the row is about to have it.
Fits(d) ==
    \A k \in relay : k.device = d =>
        \/ \E r \in Req : req[r].stage = "persist" /\ req[r].device = d
        \/ dev[d] # None /\ dev[d].uuid = k.uuid
\* No handler has changed one of row and registration and not the other.
Settled(d) == \A r \in Req : d \in Engaged(req[r]) => req[r].stage \in {"setToken", "touch"}
Mirrors(d) ==
    /\ \A k \in relay : k.device = d => dev[d] # None /\ dev[d].uuid = k.uuid /\ dev[d].token = k.token
    /\ dev[d] # None /\ dev[d].uuid # None /\ dev[d].token # None => \E k \in relay : k.device = d
Kept(d) == Fits(d) /\ (d \notin behind /\ Settled(d) => Mirrors(d))
AllKept == \A d \in Device \ parted : Kept(d)

RelayInv == MsgInv /\ Own /\ Apart /\ AllKnow /\ AllKept

LEMMA EngagedIs ==
    ASSUME NEW h, NEW d \in Device
    PROVE  d \in Engaged(h) <=> (OnRow(h) /\ d = h.device) \/ OnAll(h)
  BY DEF Engaged, OnRow, OnAll, Whole

LEMMA MirrorsAgree ==
    ASSUME MsgInv, NEW d \in Device, Mirrors(d)
    PROVE  Registered(d) = Held(d)
  <1>1. relay \subseteq Registration /\ dev[d] \in DevRow \cup {None}
    BY Types DEF TablesOK
  <1>2. \A k \in relay : k.uuid # None /\ k.token # None
    BY <1>1, MsgNoneAssumption DEF Registration
  <1>3. CASE \E k \in relay : k.device = d
    <2>1. PICK k \in relay : k.device = d
      BY <1>3
    <2>2. dev[d] # None /\ dev[d].uuid = k.uuid /\ dev[d].token = k.token
      BY <2>1 DEF Mirrors
    <2>3. Held(d) = {<<k.uuid, k.token>>}
      BY <1>2, <2>1, <2>2 DEF Held
    <2>4. \A g \in relay : g.device = d => <<g.uuid, g.token>> = <<k.uuid, k.token>>
      BY <2>2 DEF Mirrors
    <2> QED
      BY <2>1, <2>3, <2>4 DEF Registered
  <1>4. CASE ~\E k \in relay : k.device = d
    <2>1. Registered(d) = {}
      BY <1>4 DEF Registered
    <2>2. Held(d) = {}
      BY <1>4 DEF Held, Mirrors
    <2> QED
      BY <2>1, <2>2
  <1> QED
    BY <1>3, <1>4

\* A browser has no registration, and no uuid to have one.
LEMMA NoPhoneKept ==
    ASSUME MsgInv', NEW d \in Device, d \notin Phone
    PROVE  Kept(d)'
  <1>1. \A k \in relay' : k.device # d
    BY DEF MsgInv, Drawn
  <1>2. dev'[d] # None => dev'[d].uuid = None
    BY DEF MsgInv, MsgTypeOK
  <1>3. Fits(d)' /\ Mirrors(d)'
    BY <1>1, <1>2 DEF Fits, Mirrors
  <1> QED
    BY <1>3 DEF Kept

LEMMA DrawnBefore ==
    ASSUME MsgInv, NEW u \in Nat, NEW d \in Device, Owns(u, d)
    PROVE  u \in 1..lastUuid
  <1>1. CASE \E k \in relay : k.uuid = u /\ k.device = d
    BY <1>1, Types DEF Drawn
  <1>2. CASE dev[d] # None /\ dev[d].uuid = u
    BY <1>2, Types, MsgNoneAssumption DEF TablesOK
  <1>3. CASE \E r \in Req : req[r].stage # "issue" /\ req[r].uuid = u /\ req[r].device = d
    BY <1>3, Types, MsgNoneAssumption DEF Sound
  <1> QED
    BY <1>1, <1>2, <1>3 DEF Owns

\* No owner but those there were, or the one of a uuid just drawn.
LEMMA OwnStep ==
    ASSUME MsgInv, Own, NEW r \in Req, NEW g, Goto(r, g), NEW x,
           \A k \in relay' : Owns(k.uuid, k.device) \/ (k.uuid = lastUuid + 1 /\ k.device = x),
           \A d \in Device : dev'[d] # None /\ dev'[d].uuid # None => Owns(dev'[d].uuid, d) \/ (dev'[d].uuid = lastUuid + 1 /\ d = x),
           g.stage # "issue" /\ g.uuid # None => Owns(g.uuid, g.device) \/ (g.uuid = lastUuid + 1 /\ g.device = x)
    PROVE  Own'
  <1>1. ASSUME NEW u \in Nat, NEW d \in Device, Owns(u, d)'
        PROVE  Owns(u, d) \/ (u = lastUuid + 1 /\ d = x)
    <2>1. u # None
      BY MsgNoneAssumption
    <2>2. CASE \E k \in relay' : k.uuid = u /\ k.device = d
      BY <2>2
    <2>3. CASE dev'[d] # None /\ dev'[d].uuid = u
      BY <2>1, <2>3
    <2>4. CASE \E q \in Req : req'[q].stage # "issue" /\ req'[q].uuid = u /\ req'[q].device = d
      <3>1. PICK q \in Req : req'[q].stage # "issue" /\ req'[q].uuid = u /\ req'[q].device = d
        BY <2>4
      <3>2. req'[q] = IF q = r THEN g ELSE req[q]
        BY Types DEF Goto
      <3>3. CASE q = r
        BY <2>1, <3>1, <3>2, <3>3
      <3>4. CASE q # r
        BY <3>1, <3>2, <3>4 DEF Owns
      <3> QED
        BY <3>3, <3>4
    <2> QED
      BY <1>1, <2>2, <2>3, <2>4 DEF Owns
  <1>2. lastUuid \in Nat
    BY Types DEF Drawn
  <1> SUFFICES ASSUME NEW u \in Nat, NEW d \in Device, NEW e \in Device, Owns(u, d)', Owns(u, e)' PROVE d = e
    BY DEF Own
  <1>3. Owns(u, d) \/ (u = lastUuid + 1 /\ d = x)
    BY <1>1
  <1>4. Owns(u, e) \/ (u = lastUuid + 1 /\ e = x)
    BY <1>1
  <1>5. u = lastUuid + 1 => ~Owns(u, d) /\ ~Owns(u, e)
    BY <1>2, DrawnBefore
  <1> QED
    BY <1>3, <1>4, <1>5 DEF Own

\* One step of one handler: what is left to be shown of it.
SameRegs(d) == \A k : k.device = d => (k \in relay' <=> k \in relay)

LEMMA OthersKnow ==
    ASSUME RelayInv, MsgInv', NEW r \in Req, NEW g, Goto(r, g), parted \subseteq parted',
           \A d \in Device \ parted' : d \in Engaged(req[r]) \/ (SameRegs(d) /\ (dev'[d] = dev[d] \/ dev[d] = None)),
           NEW q \in Req, q # r
    PROVE  KnowsRow(req[q])' /\ KnowsAll(req[q])'
  <1>1. req'[q] = req[q] /\ KnowsRow(req[q]) /\ KnowsAll(req[q])
    BY Types DEF Goto, RelayInv, AllKnow
  <1>2. \A d \in Device \ parted' : d \in Engaged(req[q]) => SameRegs(d) /\ (dev'[d] = dev[d] \/ dev[d] = None)
    BY DEF RelayInv, Apart
  <1>3. Sound(req[q])
    BY Types DEF RelayInv
  <1>4. KnowsRow(req[q])'
    <2> SUFFICES ASSUME OnRow(req[q]), req[q].device \notin parted'
                 PROVE  KnowsRow(req[q])'
      BY <1>1 DEF KnowsRow, OnRow
    <2>1. PICK d \in Device : d = req[q].device
      BY <1>3, PhoneAssumption DEF OnRow, Sound, OnDevice
    <2>2. d \in Engaged(req[q])
      BY <2>1, EngagedIs
    <2>3. d \notin parted /\ dev[d] # None
      BY <1>1, <2>1 DEF KnowsRow
    <2>4. dev'[d] = dev[d] /\ SameRegs(d)
      BY <1>2, <2>1, <2>2, <2>3
    <2>5. \A k : k.device = d => (k \in relay' <=> k \in relay)
      BY <2>4 DEF SameRegs
    <2> QED
      BY <1>1, <2>1, <2>3, <2>4, <2>5 DEF KnowsRow, OnRow
  <1>5. KnowsAll(req[q])'
    <2> SUFFICES ASSUME OnAll(req[q]), NEW k \in relay', k.device \notin parted'
                 PROVE  req[q].stage = "unregister" /\ k.uuid \in req[q].uuids
      BY <1>1 DEF KnowsAll, OnAll
    <2>1. PICK d \in Device : d = k.device
      BY PhoneAssumption DEF MsgInv, Drawn
    <2>2. d \in Engaged(req[q])
      BY EngagedIs
    <2>3. k \in relay /\ k.device \notin parted
      BY <1>2, <2>1, <2>2 DEF SameRegs
    <2> QED
      BY <1>1, <2>3 DEF KnowsAll
  <1> QED
    BY <1>4, <1>5

\* A phone of which a step left row and registrations, unless it was in a handler's hands.
StaysKept(r, d) ==
    /\ SameRegs(d) /\ dev'[d] = dev[d] /\ (d \in behind => d \in behind')
    /\ d \in Engaged(req[r]) => req[r].stage \in {"setToken", "touch"}

LEMMA KeptStays ==
    ASSUME RelayInv, NEW r \in Req, NEW g, Goto(r, g), parted \subseteq parted', NEW d \in Device \ parted', StaysKept(r, d)
    PROVE  Kept(d)'
  <1>1. \A q \in Req : req'[q] = IF q = r THEN g ELSE req[q]
    BY Types DEF Goto, RelayInv
  <1>2. Fits(d) /\ (d \notin behind /\ Settled(d) => Mirrors(d))
    BY DEF RelayInv, AllKept, Kept
  <1>3. dev'[d] = dev[d] /\ \A k : k.device = d => (k \in relay' <=> k \in relay)
    BY DEF StaysKept, SameRegs
  <1>4. Settled(d)' => Settled(d)
    <2> SUFFICES ASSUME Settled(d)', NEW q \in Req, d \in Engaged(req[q]) PROVE req[q].stage \in {"setToken", "touch"}
      BY DEF Settled
    <2>1. CASE q = r
      BY <2>1 DEF StaysKept
    <2>2. CASE q # r
      BY <1>1, <2>2 DEF Settled
    <2> QED
      BY <2>1, <2>2
  <1>5. ASSUME NEW q \in Req, req[q].stage = "persist", req[q].device = d
        PROVE  req'[q].stage = "persist" /\ req'[q].device = d
    <2>1. d \in Engaged(req[q])
      BY <1>5, EngagedIs DEF OnRow
    <2>2. q # r
      BY <1>5, <2>1 DEF StaysKept
    <2> QED
      BY <1>1, <1>5, <2>2
  <1>6. Fits(d)'
    BY <1>2, <1>3, <1>5 DEF Fits
  <1>7. Mirrors(d) => Mirrors(d)'
    BY <1>3 DEF Mirrors
  <1> QED
    BY <1>2, <1>4, <1>6, <1>7 DEF Kept, StaysKept

LEMMA RelayStep ==
    ASSUME RelayInv, MsgInv', NEW r \in Req, NEW g, Goto(r, g), parted \subseteq parted', Own',
           \A d \in Engaged(g) \ parted' : \A q \in Req \ {r} : d \notin Engaged(req[q]),
           \A d \in Device \ parted' : d \in Engaged(req[r]) \/ (SameRegs(d) /\ (dev'[d] = dev[d] \/ dev[d] = None)),
           KnowsRow(g)', KnowsAll(g)',
           \A d \in Device \ parted' : StaysKept(r, d) \/ Kept(d)'
    PROVE  RelayInv'
  <1>1. \A q \in Req : req'[q] = IF q = r THEN g ELSE req[q]
    BY Types DEF Goto, RelayInv
  <1>2. Apart'
    <2> SUFFICES ASSUME NEW p \in Req, NEW q \in Req, p # q, NEW d \in Engaged(req'[p]) \cap Engaged(req'[q]), d \notin parted'
                 PROVE  FALSE
      BY DEF Apart, Engaged
    <2>1. CASE p = r
      BY <1>1, <2>1
    <2>2. CASE q = r
      BY <1>1, <2>2
    <2>3. CASE p # r /\ q # r
      BY <1>1, <2>3 DEF RelayInv, Apart
    <2> QED
      BY <2>1, <2>2, <2>3
  <1>3. AllKnow'
    <2> SUFFICES ASSUME NEW q \in Req PROVE KnowsRow(req[q])' /\ KnowsAll(req[q])'
      BY DEF AllKnow
    <2>1. CASE q = r
      <3>1. req'[q] = g
        BY <1>1, <2>1
      <3> QED
        BY <3>1 DEF KnowsRow, KnowsAll
    <2>2. CASE q # r
      BY <2>2, OthersKnow
    <2> QED
      BY <2>1, <2>2
  <1>4. AllKept'
    BY KeptStays DEF AllKept
  <1> QED
    BY <1>2, <1>3, <1>4 DEF RelayInv

\* What is known of a row before a step that leaves rows and registrations.
LEMMA SameKnown ==
    ASSUME NEW g, KnowsRow(g), UNCHANGED <<dev, relay>>, parted \subseteq parted'
    PROVE  KnowsRow(g)'
  BY DEF KnowsRow, OnRow

LEMMA RelayStays ==
    ASSUME RelayInv, MsgInv', NEW r \in Req, NEW g, Goto(r, g), UNCHANGED <<dev, relay>>, parted \subseteq parted', behind \subseteq behind',
           g.stage # "issue" /\ g.uuid # None => Owns(g.uuid, g.device),
           \A d \in Engaged(g) \ parted' : \A q \in Req \ {r} : d \notin Engaged(req[q]),
           KnowsRow(g)', KnowsAll(g)',
           \A d \in Engaged(req[r]) \ parted' : req[r].stage \in {"setToken", "touch"} \/ Kept(d)'
    PROVE  RelayInv'
  <1>1. Own'
    <2>1. \A k \in relay' : Owns(k.uuid, k.device)
      BY DEF Owns
    <2>2. \A d \in Device : dev'[d] # None /\ dev'[d].uuid # None => Owns(dev'[d].uuid, d)
      BY DEF Owns
    <2>3. MsgInv /\ Own
      BY DEF RelayInv
    <2> QED
      BY <2>1, <2>2, <2>3, OwnStep
  <1>2. \A d \in Device \ parted' : SameRegs(d) /\ dev'[d] = dev[d]
    BY DEF SameRegs
  <1>3. \A d \in Device \ parted' : StaysKept(r, d) \/ Kept(d)'
    BY <1>2 DEF StaysKept
  <1> QED
    BY <1>1, <1>2, <1>3, RelayStep

\* A handler that goes on, or ends, and has no phone in its hands.
LEMMA RelayApart ==
    ASSUME RelayInv, MsgInv', NEW r \in Req, NEW g, Goto(r, g), UNCHANGED <<dev, relay>>, parted \subseteq parted', behind \subseteq behind',
           g.stage # "issue" /\ g.uuid # None => Owns(g.uuid, g.device),
           ~OnRow(g), ~OnAll(g),
           OnRow(req[r]) \/ OnAll(req[r]) => req[r].stage \in {"setToken", "touch"}
    PROVE  RelayInv'
  <1>1. Engaged(g) = {}
    BY DEF OnRow, OnAll, Engaged, Whole
  <1>2. KnowsRow(g)' /\ KnowsAll(g)'
    BY DEF KnowsRow, KnowsAll, OnRow, OnAll
  <1>3. Engaged(req[r]) = {} \/ req[r].stage \in {"setToken", "touch"}
    BY DEF OnRow, OnAll, Engaged, Whole
  <1> QED
    BY <1>1, <1>2, <1>3, RelayStays

LEMMA RelayFinish ==
    ASSUME RelayInv, MsgInv', NEW r \in Req, Finish(r), UNCHANGED <<dev, relay>>, parted \subseteq parted', behind \subseteq behind',
           OnRow(req[r]) \/ OnAll(req[r]) => req[r].stage \in {"setToken", "touch"}
    PROVE  RelayInv'
  <1>1. PICK i \in MsgHandler : i = MsgIdle /\ i.stage = "idle" /\ i.uuid = None
    BY IdleSound DEF MsgIdle
  <1>2. ~OnRow(i) /\ ~OnAll(i)
    BY <1>1 DEF OnRow, OnAll
  <1>3. Goto(r, i)
    BY <1>1 DEF Finish
  <1> QED
    BY <1>1, <1>2, <1>3, RelayApart

\* What a handler holds of a uuid it still holds.
LEMMA StillOwns ==
    ASSUME NEW r \in Req, req[r].stage # "issue"
    PROVE  Owns(req[r].uuid, req[r].device)
  BY DEF Owns

LEMMA BeginRelay ==
    ASSUME RelayInv, NEW r \in Req, MsgBegin(r)
    PROVE  RelayInv'
  <1>1. MsgInv /\ MsgInv'
    BY BeginStep DEF RelayInv
  <1>2. PICK g \in MsgHandler : Goto(r, g) /\ Sound(g) /\ g.stage \in {"vet", "find"} /\ g.uuid = None /\ g.device \in Device
    BY <1>1, Begins
  <1>3. ~OnRow(g) /\ ~OnAll(g) /\ ~OnRow(req[r]) /\ ~OnAll(req[r])
    BY <1>1, <1>2, Begins DEF OnRow, OnAll, At
  <1>4. UNCHANGED <<dev, relay, behind, parted>>
    BY <1>1, Begins DEF pushes
  <1> QED
    BY <1>1, <1>2, <1>3, <1>4, RelayApart

\* Steps that only go on, of a handler with no phone in its hands.
LEMMA ProceedRelay ==
    ASSUME RelayInv, MsgInv', NEW r \in Req, NEW stage \in {"readRow", "listUuids", "replace", "readRequest", "issue", "approve"},
           Proceed(r, stage), UNCHANGED <<dev, relay, behind, parted>>, req[r].stage # "issue",
           OnRow(req[r]) \/ OnAll(req[r]) => req[r].stage \in {"setToken", "touch"}
    PROVE  RelayInv'
  <1>1. stage \in MsgStage /\ MsgInv
    BY DEF MsgStage, RelayInv
  <1>2. PICK g \in MsgHandler : Goto(r, g) /\ g.stage = stage /\ Same(g, req[r])
    BY <1>1, Goes
  <1>3. ~OnRow(g) /\ ~OnAll(g)
    BY <1>2 DEF OnRow, OnAll
  <1>4. Owns(g.uuid, g.device)
    BY <1>2, StillOwns DEF Same
  <1> QED
    BY <1>2, <1>3, <1>4, RelayApart

LEMMA QuietRelay ==
    ASSUME RelayInv, NEW r \in Req, Vet(r) \/ Issue(r) \/ Replace(r) \/ ReadRequest(r) \/ Approve(r)
    PROVE  RelayInv'
  <1>1. MsgInv /\ MsgInv' /\ UNCHANGED <<dev, relay, behind, parted>>
    BY VetStep, IssueStep, ReplaceStep, ReadRequestStep, ApproveStep DEF RelayInv, Vet, Issue, Replace, ReadRequest, Approve, pushes
  <1>2. ~OnRow(req[r]) /\ ~OnAll(req[r])
    BY DEF Vet, Issue, Replace, ReadRequest, Approve, At, OnRow, OnAll
  <1>3. CASE Finish(r)
    BY <1>1, <1>2, <1>3, RelayFinish
  <1>4. CASE ~Finish(r)
    <2>1. CASE Vet(r)
      <3>1. req[r].stage = "vet" /\ Sound(req[r]) /\ Proceed(r, AfterVet(req[r].route)) /\ req[r].route # "connect"
        BY <1>1, <1>4, <2>1, Types DEF Vet, At
      <3>2. AfterVet(req[r].route) \in {"readRow", "listUuids", "replace", "readRequest", "issue", "approve"}
        BY <3>1 DEF AfterVet, Sound, Whole
      <3> QED
        BY <1>1, <1>2, <3>1, <3>2, ProceedRelay
    <2>2. CASE ReadRequest(r)
      <3>1. req[r].stage = "readRequest" /\ Proceed(r, "approve")
        BY <1>4, <2>2 DEF ReadRequest, At
      <3> QED
        BY <1>1, <1>2, <3>1, ProceedRelay
    <2> QED
      BY <1>4, <2>1, <2>2 DEF Issue, Replace, Approve
  <1> QED
    BY <1>3, <1>4

LEMMA MeetsApart ==
    ASSUME MsgInv, NEW r \in Req, NEW g, Goto(r, g), Meets(r)
    PROVE  /\ parted \subseteq parted'
           /\ \A d \in Engaged(g) \ parted' : \A q \in Req \ {r} : d \notin Engaged(req[q])
  <1>1. req'[r] = g
    BY Types DEF Goto
  <1>2. parted' = parted \cup UNION {Engaged(req[q]) \cap Engaged(g) : q \in Req \ {r}}
    BY <1>1 DEF Meets
  <1> QED
    BY <1>2

LEMMA ReadRowRelay ==
    ASSUME RelayInv, NEW r \in Req, ReadRow(r)
    PROVE  RelayInv'
  <1>1. MsgInv /\ MsgInv'
    BY ReadRowStep DEF RelayInv
  <1>2. req[r].stage = "readRow" /\ req[r].device \in Device /\ Meets(r) /\ UNCHANGED <<dev, relay, behind>>
    BY <1>1, ReadRowDoes
  <1>3. ~OnRow(req[r]) /\ ~OnAll(req[r]) /\ Engaged(req[r]) = {}
    BY <1>2 DEF OnRow, OnAll, Engaged
  <1>4. CASE Finish(r)
    <2>1. parted \subseteq parted'
      BY <1>2 DEF Meets
    <2> QED
      BY <1>1, <1>2, <1>3, <1>4, <2>1, RelayFinish
  <1>5. CASE ~Finish(r)
    <2>1. PICK g \in MsgHandler :
                    /\ Goto(r, g) /\ g.stage = "setToken" /\ dev[req[r].device] # None /\ g.uuid = dev[req[r].device].uuid
                    /\ g.device = req[r].device /\ g.route = req[r].route /\ g.token = req[r].token
                    /\ g.created = req[r].created
      BY <1>1, <1>5, ReadRowDoes
    <2>2. parted \subseteq parted' /\ \A d \in Engaged(g) \ parted' : \A q \in Req \ {r} : d \notin Engaged(req[q])
      BY <1>1, <1>2, <2>1, MeetsApart
    <2>3. KnowsRow(g)' /\ KnowsAll(g)'
      BY <1>2, <2>1 DEF KnowsRow, KnowsAll, OnRow, OnAll
    <2>4. Owns(g.uuid, g.device)
      BY <1>2, <2>1 DEF Owns
    <2> QED
      BY <1>1, <1>2, <1>3, <2>1, <2>2, <2>3, <2>4, RelayStays
  <1> QED
    BY <1>4, <1>5

LEMMA FindDeviceRelay ==
    ASSUME RelayInv, NEW r \in Req, FindDevice(r)
    PROVE  RelayInv'
  <1>1. MsgInv /\ MsgInv'
    BY FindDeviceStep DEF RelayInv
  <1>2. req[r].stage = "find" /\ req[r].device \in Device /\ Meets(r) /\ UNCHANGED <<dev, relay, behind>>
    BY <1>1, FindDeviceDoes
  <1>3. ~OnRow(req[r]) /\ ~OnAll(req[r]) /\ Engaged(req[r]) = {}
    BY <1>2 DEF OnRow, OnAll, Engaged
  <1>4. PICK g \in MsgHandler :
                 /\ Goto(r, g) /\ g.device = req[r].device /\ g.route = "login" /\ ~g.created
                 /\ \/ g.stage = "insert" /\ dev[g.device] = None /\ g.uuid = req[r].uuid /\ g.token = req[r].token
                    \/ /\ g.stage = "touch" /\ dev[g.device] # None
                       /\ g.uuid = dev[g.device].uuid /\ g.token = dev[g.device].token
    BY <1>1, FindDeviceDoes
  <1>5. parted \subseteq parted' /\ \A d \in Engaged(g) \ parted' : \A q \in Req \ {r} : d \notin Engaged(req[q])
    BY <1>1, <1>2, <1>4, MeetsApart
  <1>6. KnowsRow(g)' /\ KnowsAll(g)'
    BY <1>2, <1>4 DEF KnowsRow, KnowsAll, OnRow, OnAll
  <1>7. Owns(g.uuid, g.device)
    BY <1>2, <1>4 DEF Owns
  <1> QED
    BY <1>1, <1>2, <1>3, <1>4, <1>5, <1>6, <1>7, RelayStays

\* A handler goes on with what it has in hands already.
LEMMA StillApart ==
    ASSUME RelayInv, NEW r \in Req, NEW g, Engaged(g) \subseteq Engaged(req[r]), parted \subseteq parted'
    PROVE  \A d \in Engaged(g) \ parted' : \A q \in Req \ {r} : d \notin Engaged(req[q])
  BY DEF RelayInv, Apart

LEMMA ReregisterRelay ==
    ASSUME RelayInv, NEW r \in Req, Reregister(r)
    PROVE  RelayInv'
  <1>1. MsgInv /\ MsgInv' /\ UNCHANGED <<dev, relay, behind, parted>> /\ req[r].stage = "touch" /\ Sound(req[r])
    BY ReregisterStep, Types DEF RelayInv, Reregister, pushes, At
  <1>2. CASE req[r].token # None /\ req[r].device \in Phone
    <2>1. Proceed(r, "register") /\ "register" \in MsgStage
      BY <1>2 DEF Reregister, MsgStage
    <2>2. PICK g \in MsgHandler : Goto(r, g) /\ g.stage = "register" /\ Same(g, req[r])
      BY <1>1, <2>1, Goes
    <2>3. Engaged(g) \subseteq Engaged(req[r])
      BY <1>1, <1>2, <2>2 DEF Engaged, Same
    <2>4. KnowsRow(g)' /\ KnowsAll(g)'
      <3>1. KnowsRow(req[r])
        BY DEF RelayInv, AllKnow
      <3> QED
        BY <1>1, <1>2, <2>2, <3>1 DEF KnowsRow, KnowsAll, OnRow, OnAll, Same
    <2>5. Owns(g.uuid, g.device)
      BY <1>1, <2>2, StillOwns DEF Same
    <2>6. \A d \in Engaged(g) \ parted' : \A q \in Req \ {r} : d \notin Engaged(req[q])
      BY <1>1, <2>3, StillApart
    <2> QED
      BY <1>1, <2>2, <2>4, <2>5, <2>6, RelayStays
  <1>3. CASE ~(req[r].token # None /\ req[r].device \in Phone)
    <2>1. Proceed(r, "issue")
      BY <1>3 DEF Reregister
    <2> QED
      BY <1>1, <2>1, ProceedRelay
  <1> QED
    BY <1>2, <1>3

\* A phone without a row has no registration.
LEMMA NoRowNoRegs ==
    ASSUME RelayInv, NEW d \in Device \ parted, dev[d] = None, NEW k \in relay
    PROVE  k.device # d
  <1>1. Fits(d)
    BY DEF RelayInv, AllKept, Kept
  <1>2. ASSUME NEW q \in Req, req[q].stage = "persist", req[q].device = d
        PROVE  FALSE
    BY <1>2 DEF RelayInv, AllKnow, KnowsRow, OnRow
  <1> QED
    BY <1>1, <1>2 DEF Fits

LEMMA InsertRelay ==
    ASSUME RelayInv, NEW r \in Req, InsertDevice(r)
    PROVE  RelayInv'
  <1>1. /\ MsgInv /\ MsgInv' /\ UNCHANGED <<relay, behind, parted>> /\ req[r].stage = "insert" /\ Sound(req[r])
        /\ req[r].device \in Device /\ req[r].token = None
    BY InsertDeviceStep, Types DEF RelayInv, InsertDevice, At, Sound, OnDevice
  <1>2. ~OnRow(req[r]) /\ ~OnAll(req[r]) /\ Engaged(req[r]) = {}
    BY <1>1 DEF OnRow, OnAll, Engaged
  <1>3. CASE stamp = 0 \/ dev[req[r].device] # None
    BY <1>1, <1>2, <1>3, RelayFinish DEF InsertDevice
  <1>4. CASE ~(stamp = 0 \/ dev[req[r].device] # None)
    <2>1. dev' = [dev EXCEPT ![req[r].device] = [token |-> None, uuid |-> None]] /\ Proceed(r, "touch")
          /\ dev[req[r].device] = None /\ "touch" \in MsgStage
      BY <1>4 DEF InsertDevice, MsgStage
    <2>2. PICK row \in DevRow : row = [token |-> None, uuid |-> None] /\ row.uuid = None
      BY NewRow
    <2>3. \A d \in Device : dev'[d] = IF d = req[r].device THEN row ELSE dev[d]
      BY <1>1, <2>1, <2>2, Types DEF TablesOK
    <2>4. PICK g \in MsgHandler : Goto(r, g) /\ g.stage = "touch" /\ Same(g, req[r])
      BY <1>1, <2>1, Goes
    <2>5. ~OnRow(g) /\ ~OnAll(g) /\ Engaged(g) = {}
      BY <1>1, <2>4 DEF OnRow, OnAll, Engaged, Same
    <2>6. KnowsRow(g)' /\ KnowsAll(g)'
      BY <2>5 DEF KnowsRow, KnowsAll, OnRow, OnAll
    <2>7. Own'
      <3>1. Owns(g.uuid, g.device)
        BY <1>1, <2>4, StillOwns DEF Same
      <3>2. \A k \in relay' : Owns(k.uuid, k.device)
        BY <1>1 DEF Owns
      <3>3. \A d \in Device : dev'[d] # None /\ dev'[d].uuid # None => Owns(dev'[d].uuid, d)
        BY <2>2, <2>3 DEF Owns
      <3>4. MsgInv /\ Own
        BY DEF RelayInv
      <3> QED
        BY <2>4, <3>1, <3>2, <3>3, <3>4, OwnStep
    <2>8. \A d \in Device : SameRegs(d) /\ (dev'[d] = dev[d] \/ dev[d] = None)
      BY <1>1, <2>1, <2>3 DEF SameRegs
    <2>9. \A d \in Device \ parted' : StaysKept(r, d) \/ Kept(d)'
      <3> SUFFICES ASSUME NEW d \in Device \ parted PROVE StaysKept(r, d) \/ Kept(d)'
        BY <1>1
      <3>1. CASE d # req[r].device
        BY <1>1, <1>2, <2>3, <2>8, <3>1 DEF StaysKept
      <3>2. CASE d = req[r].device
        <4>1. \A k \in relay' : k.device # d
          BY <1>1, <2>1, <3>2, NoRowNoRegs
        <4>2. dev'[d] = row
          BY <2>3, <3>2
        <4>3. Fits(d)'
          BY <4>1 DEF Fits
        <4>4. Mirrors(d)'
          BY <2>2, <4>1, <4>2 DEF Mirrors
        <4> QED
          BY <4>3, <4>4 DEF Kept
      <3> QED
        BY <3>1, <3>2
    <2>10. parted \subseteq parted' /\ \A d \in Engaged(g) \ parted' : \A q \in Req \ {r} : d \notin Engaged(req[q])
      BY <1>1, <2>5
    <2> QED
      BY <1>1, <2>4, <2>6, <2>7, <2>8, <2>9, <2>10, RelayStep
  <1> QED
    BY <1>3, <1>4

\* Only the device of a handler that has a row in hands has its row or registrations changed.
LEMMA OtherDevices ==
    ASSUME RelayInv, NEW r \in Req, OnRow(req[r]), req[r].device \in Device,
           \A d \in Device \ parted' : d # req[r].device => SameRegs(d) /\ dev'[d] = dev[d] /\ (d \in behind => d \in behind')
    PROVE  /\ \A d \in Device \ parted' : d \in Engaged(req[r]) \/ (SameRegs(d) /\ (dev'[d] = dev[d] \/ dev[d] = None))
           /\ \A d \in Device \ parted' : d # req[r].device => StaysKept(r, d)
  <1>1. \A d \in Device : d \in Engaged(req[r]) <=> d = req[r].device
    BY EngagedIs DEF OnRow, OnAll, Whole
  <1> QED
    BY <1>1 DEF StaysKept

\* While a handler has a row in hands and is not about to store a uuid, nobody is.
LEMMA InHands ==
    ASSUME RelayInv, NEW r \in Req, OnRow(req[r]), req[r].stage # "persist", req[r].device \in Device, req[r].device \notin parted
    PROVE  /\ dev[req[r].device] # None /\ dev[req[r].device].uuid = req[r].uuid
           /\ \A k \in relay : k.device = req[r].device => k.uuid = req[r].uuid
  <1>1. dev[req[r].device] # None /\ dev[req[r].device].uuid = req[r].uuid
    BY DEF RelayInv, AllKnow, KnowsRow
  <1>2. ASSUME NEW q \in Req, req[q].stage = "persist", req[q].device = req[r].device
        PROVE  FALSE
    <2>1. req[r].device \in Engaged(req[q]) /\ req[r].device \in Engaged(req[r])
      BY <1>2, EngagedIs DEF OnRow
    <2> QED
      BY <1>2, <2>1 DEF RelayInv, Apart
  <1>3. Fits(req[r].device)
    BY DEF RelayInv, AllKept, Kept
  <1> QED
    BY <1>1, <1>2, <1>3 DEF Fits

LEMMA SetTokenRelay ==
    ASSUME RelayInv, NEW r \in Req, SetToken(r)
    PROVE  RelayInv'
  <1>1. MsgInv /\ MsgInv'
    BY SetTokenStep DEF RelayInv
  <1>2. PICK d \in Device : d = req[r].device
    BY <1>1, SetTokenDoes
  <1>3. /\ req[r].stage = "setToken" /\ Sound(req[r]) /\ UNCHANGED <<relay, behind, parted>>
        /\ req[r].token \in PushToken \cup {None}
        /\ Set(d, "token", req[r].token)
    BY <1>1, <1>2, SetTokenDoes
  <1>4. /\ \A e \in Device \ {d} : dev'[e] = dev[e]
        /\ dev[d] = None => dev'[d] = None
        /\ dev[d] # None => dev'[d] # None /\ dev'[d].token = req[r].token /\ dev'[d].uuid = dev[d].uuid
    BY <1>1, <1>3, SetDoes
  <1>5. OnRow(req[r])
    BY <1>3 DEF OnRow
  <1>6. d \notin parted => /\ dev[d] # None /\ dev[d].uuid = req[r].uuid
                           /\ \A k \in relay : k.device = d => k.uuid = req[r].uuid
    BY <1>2, <1>3, <1>5, InHands
  <1>7. /\ \A e \in Device \ parted' : e \in Engaged(req[r]) \/ (SameRegs(e) /\ (dev'[e] = dev[e] \/ dev[e] = None))
        /\ \A e \in Device \ parted' : e # d => StaysKept(r, e)
    <2>1. \A e \in Device \ parted' : e # req[r].device => SameRegs(e) /\ dev'[e] = dev[e] /\ (e \in behind => e \in behind')
      BY <1>2, <1>3, <1>4 DEF SameRegs
    <2> QED
      BY <1>2, <1>5, <2>1, OtherDevices
  <1>8. PICK g \in MsgHandler :
            /\ Goto(r, g)
            /\ \/ ~OnRow(g) /\ ~OnAll(g) /\ g.uuid = None /\ (d \in Phone => req[r].route = "clear" /\ req[r].uuid = None)
               \/ /\ Same(g, req[r])
                  /\ g.stage = "register" \/ (g.stage = "unregister" /\ req[r].route = "clear")
    <2>1. PICK i \in MsgHandler : i = MsgIdle /\ i.stage = "idle" /\ i.uuid = None
      BY IdleSound DEF MsgIdle
    <2>2. ~OnRow(i) /\ ~OnAll(i)
      BY <2>1 DEF OnRow, OnAll
    <2> QED
      BY <1>1, <1>2, <2>1, <2>2, SetTokenDoes DEF Finish
  <1>9. Engaged(g) \subseteq Engaged(req[r])
    BY <1>3, <1>8 DEF OnRow, OnAll, Engaged, Same, Whole
  <1>10. KnowsRow(g)' /\ KnowsAll(g)'
    <2>1. CASE ~OnRow(g) /\ ~OnAll(g)
      BY <2>1 DEF KnowsRow, KnowsAll, OnRow, OnAll
    <2>2. CASE /\ Same(g, req[r])
               /\ g.stage = "register" \/ (g.stage = "unregister" /\ req[r].route = "clear")
      <3>1. g.device = d /\ g.uuid = req[r].uuid /\ g.token = req[r].token /\ g.route = req[r].route
        BY <1>2, <2>2 DEF Same
      <3>2. KnowsAll(g)'
        BY <2>2, <3>1 DEF KnowsAll, OnAll, Whole
      <3>3. KnowsRow(g)'
        BY <1>3, <1>4, <1>6, <2>2, <3>1 DEF KnowsRow, OnRow
      <3> QED
        BY <3>2, <3>3
    <2> QED
      BY <1>8, <2>1, <2>2
  <1>11. Own'
    <2>1. g.uuid = None \/ Owns(g.uuid, g.device)
      BY <1>3, <1>8, StillOwns DEF Same
    <2>2. \A k \in relay' : Owns(k.uuid, k.device)
      BY <1>3 DEF Owns
    <2>3. \A e \in Device : dev'[e] # None /\ dev'[e].uuid # None => Owns(dev'[e].uuid, e)
      BY <1>4 DEF Owns
    <2>4. MsgInv /\ Own
      BY DEF RelayInv
    <2> QED
      BY <1>8, <2>1, <2>2, <2>3, <2>4, OwnStep
  <1>12. d \notin parted' => Kept(d)'
    <2> SUFFICES ASSUME d \notin parted PROVE Kept(d)'
      BY <1>3
    <2>1. dev'[d] # None /\ dev'[d].uuid = req[r].uuid /\ \A k \in relay' : k.device = d => k.uuid = req[r].uuid
      BY <1>3, <1>4, <1>6
    <2>2. Fits(d)'
      BY <2>1 DEF Fits
    <2>3. CASE d \notin Phone
      BY <1>1, <2>3, NoPhoneKept
    <2>4. CASE d \in Phone /\ ~OnRow(g)
      <3>1. req[r].uuid = None
        BY <1>8, <2>4 DEF OnRow, OnAll, Same
      <3>2. \A k \in relay' : k.device # d
        BY <1>1, <1>3, <2>1, <3>1, Types, MsgNoneAssumption DEF TablesOK, Registration
      <3>3. Mirrors(d)'
        BY <2>1, <3>1, <3>2 DEF Mirrors
      <3> QED
        BY <2>2, <3>3 DEF Kept
    <2>5. CASE OnRow(g)
      <3>1. g.stage \in {"register", "unregister"} /\ g.device = d
        BY <1>2, <1>8, <2>5 DEF Same
      <3>2. d \in Engaged(g)
        BY <2>5, <3>1, EngagedIs
      <3>3. req'[r] = g
        BY <1>1, <1>8, Types DEF Goto
      <3>4. ~Settled(d)'
        BY <3>1, <3>2, <3>3 DEF Settled
      <3> QED
        BY <2>2, <3>4 DEF Kept
    <2> QED
      BY <2>3, <2>4, <2>5
  <1>13. \A e \in Device \ parted' : StaysKept(r, e) \/ Kept(e)'
    BY <1>7, <1>12
  <1>14. parted \subseteq parted' /\ \A e \in Engaged(g) \ parted' : \A q \in Req \ {r} : e \notin Engaged(req[q])
    BY <1>3, <1>9, StillApart
  <1> QED
    BY <1>1, <1>7, <1>8, <1>10, <1>11, <1>13, <1>14, RelayStep

\* After the relay's answer a handler has no phone in its hands.
LEMMA AfterRelayDoes ==
    ASSUME NEW r \in Req, NEW h \in MsgHandler, AfterRelay(r, h)
    PROVE  \E g \in MsgHandler : Goto(r, g) /\ ~OnRow(g) /\ ~OnAll(g) /\ Engaged(g) = {} /\ (g.stage = "issue" \/ g.uuid = None)
  <1>1. PICK g \in MsgHandler : Goto(r, g) /\ (g.stage = "issue" \/ (g.stage = "idle" /\ g.uuid = None))
    <2>1. CASE h.route = "login"
      <3> DEFINE g == [h EXCEPT !.stage = "issue"]
      <3>1. g \in MsgHandler
        BY DEF MsgHandler, MsgStage
      <3>2. g.stage = "issue"
        BY DEF MsgHandler
      <3>3. Goto(r, g)
        BY <2>1 DEF AfterRelay
      <3> HIDE DEF g
      <3> QED
        BY <3>1, <3>2, <3>3
    <2>2. CASE h.route # "login"
      <3>1. PICK i \in MsgHandler : i = MsgIdle /\ i.stage = "idle" /\ i.uuid = None
        BY IdleSound DEF MsgIdle
      <3> QED
        BY <2>2, <3>1 DEF AfterRelay, Finish
    <2> QED
      BY <2>1, <2>2
  <1>2. ~OnRow(g) /\ ~OnAll(g) /\ Engaged(g) = {}
    BY <1>1 DEF OnRow, OnAll, Engaged
  <1> QED
    BY <1>1, <1>2

\* The registrations of a phone after it is registered.
LEMMA RegisteringRegs ==
    ASSUME RelayInv, NEW r \in Req, req[r].stage = "register", NEW h \in MsgHandler, Registering(h),
           NEW d \in Device, d = req[r].device, h.device = d, h.uuid \in Nat,
           h.created => req[r].uuid = None /\ h.uuid = lastUuid + 1,
           ~h.created => h.uuid = req[r].uuid
    PROVE  /\ \A e \in Device : e # d => SameRegs(e)
           /\ \E k \in relay' : k.device = d /\ k.uuid = h.uuid /\ k.token = h.token
           /\ d \notin parted => \A k \in relay' : k.device = d => k.uuid = h.uuid /\ k.token = h.token
           /\ \A k \in relay' : Owns(k.uuid, k.device) \/ (k.uuid = lastUuid + 1 /\ k.device = d)
  <1>1. PICK n : n = [uuid |-> h.uuid, token |-> h.token, device |-> d]
    OBVIOUS
  <1>2. n.uuid = h.uuid /\ n.token = h.token /\ n.device = d
    BY <1>1
  <1>3. relay' = {k \in relay : k.uuid # h.uuid} \cup {n}
    BY <1>1 DEF Registering
  <1>4. \A k : k \in relay' <=> (k \in relay /\ k.uuid # h.uuid) \/ k = n
    BY <1>3
  <1>5. MsgInv /\ relay \subseteq Registration /\ lastUuid \in Nat /\ \A k \in relay : k.uuid \in 1..lastUuid
    BY Types DEF RelayInv, TablesOK, Drawn
  <1>6. ASSUME NEW k \in relay, k.uuid = h.uuid
        PROVE  k.device = d
    <2>1. ~h.created
      BY <1>5, <1>6
    <2>2. Owns(h.uuid, d) /\ Owns(h.uuid, k.device) /\ k.device \in Device
      BY <1>5, <1>6, <2>1 DEF Owns, Registration
    <2> QED
      BY <2>2 DEF RelayInv, Own
  <1>7. ASSUME NEW e \in Device, e # d
        PROVE  SameRegs(e)
    BY <1>2, <1>4, <1>6, <1>7 DEF SameRegs
  <1>8. ASSUME d \notin parted, NEW k \in relay', k.device = d
        PROVE  k = n
    <2>1. k \in relay => k.uuid = req[r].uuid
      BY <1>8, InHands DEF OnRow
    <2>2. k \in relay => ~h.created
      BY <1>5, <2>1, MsgNoneAssumption DEF Registration
    <2> QED
      BY <1>4, <1>8, <2>1, <2>2
  <1>9. \A k \in relay' : Owns(k.uuid, k.device) \/ (k.uuid = lastUuid + 1 /\ k.device = d)
    <2>1. Owns(n.uuid, n.device) \/ (n.uuid = lastUuid + 1 /\ n.device = d)
      BY <1>2 DEF Owns
    <2>2. \A k \in relay : Owns(k.uuid, k.device)
      BY DEF Owns
    <2> QED
      BY <1>4, <2>1, <2>2
  <1>10. n \in relay'
    BY <1>4
  <1> QED
    BY <1>2, <1>7, <1>8, <1>9, <1>10

LEMMA RegisterRelay ==
    ASSUME RelayInv, NEW r \in Req, Register(r)
    PROVE  RelayInv'
  <1>1. MsgInv /\ MsgInv' /\ req[r].stage = "register" /\ UNCHANGED <<dev, parted>>
    BY RegisterStep DEF RelayInv, Register, At
  <1>2. PICK h \in MsgHandler :
              /\ h = EnsureUuid(req[r]) /\ h.stage = "register" /\ h.route = req[r].route /\ h.route \in {"token", "login"}
              /\ h.device = req[r].device /\ h.device \in Phone /\ h.device \in Device
              /\ h.token = req[r].token /\ h.token \in PushToken /\ h.uuid \in Nat
              /\ h.created => req[r].uuid = None /\ h.uuid = lastUuid + 1
              /\ ~h.created => h.uuid = req[r].uuid /\ h.uuid \in 1..lastUuid
    BY <1>1, Ensured
  <1>3. PICK d \in Device : d = req[r].device /\ h.device = d
    BY <1>2
  <1>4. /\ Registering(h) /\ behind' = IF h.created THEN behind ELSE behind \ {d}
        /\ IF h.created THEN Goto(r, [h EXCEPT !.stage = "persist"]) ELSE AfterRelay(r, h)
    BY <1>2, <1>3 DEF Register
  <1>5. OnRow(req[r])
    BY <1>1 DEF OnRow
  <1>6. d \notin parted => dev[d] # None /\ dev[d].uuid = req[r].uuid /\ dev[d].token = h.token
    BY <1>1, <1>2, <1>3, <1>5 DEF RelayInv, AllKnow, KnowsRow
  <1>7. /\ \A e \in Device : e # d => SameRegs(e)
        /\ \E k \in relay' : k.device = d /\ k.uuid = h.uuid /\ k.token = h.token
        /\ d \notin parted => \A k \in relay' : k.device = d => k.uuid = h.uuid /\ k.token = h.token
        /\ \A k \in relay' : Owns(k.uuid, k.device) \/ (k.uuid = lastUuid + 1 /\ k.device = d)
    BY <1>1, <1>2, <1>3, <1>4, RegisteringRegs
  <1>8. /\ \A e \in Device \ parted' : e \in Engaged(req[r]) \/ (SameRegs(e) /\ (dev'[e] = dev[e] \/ dev[e] = None))
        /\ \A e \in Device \ parted' : e # d => StaysKept(r, e)
    <2>1. \A e \in Device \ parted' : e # req[r].device => SameRegs(e) /\ dev'[e] = dev[e] /\ (e \in behind => e \in behind')
      BY <1>1, <1>3, <1>4, <1>7
    <2> QED
      BY <1>3, <1>5, <2>1, OtherDevices
  <1>9. \A e \in Device : dev'[e] # None /\ dev'[e].uuid # None => Owns(dev'[e].uuid, e)
    BY <1>1 DEF Owns
  <1>10. MsgInv /\ Own
    BY DEF RelayInv
  <1>11. CASE ~h.created
    <2>1. PICK g \in MsgHandler : Goto(r, g) /\ ~OnRow(g) /\ ~OnAll(g) /\ Engaged(g) = {} /\ (g.stage = "issue" \/ g.uuid = None)
      BY <1>4, <1>11, AfterRelayDoes
    <2>2. KnowsRow(g)' /\ KnowsAll(g)'
      BY <2>1 DEF KnowsRow, KnowsAll, OnRow, OnAll
    <2>3. Own'
      BY <1>7, <1>9, <1>10, <2>1, OwnStep
    <2>4. d \notin parted => Kept(d)'
      <3>1. d \notin parted => Fits(d)'
        BY <1>1, <1>2, <1>6, <1>7, <1>11 DEF Fits
      <3>2. d \notin parted => Mirrors(d)'
        BY <1>1, <1>2, <1>6, <1>7, <1>11 DEF Mirrors
      <3> QED
        BY <3>1, <3>2 DEF Kept
    <2>5. \A e \in Device \ parted' : StaysKept(r, e) \/ Kept(e)'
      BY <1>1, <1>8, <2>4
    <2>6. parted \subseteq parted' /\ \A e \in Engaged(g) \ parted' : \A q \in Req \ {r} : e \notin Engaged(req[q])
      BY <1>1, <2>1
    <2> QED
      BY <1>1, <1>8, <2>1, <2>2, <2>3, <2>5, <2>6, RelayStep
  <1>12. CASE h.created
    <2> DEFINE g == [h EXCEPT !.stage = "persist"]
    <2>1. g \in MsgHandler
      BY DEF MsgHandler, MsgStage
    <2>2. /\ g.stage = "persist" /\ g.device = d /\ g.token = h.token /\ g.uuid = h.uuid /\ g.route = h.route
      BY <1>3 DEF MsgHandler
    <2>3. Goto(r, g)
      BY <1>4, <1>12
    <2> HIDE DEF g
    <2>4. KnowsAll(g)'
      BY <2>2 DEF KnowsAll, OnAll
    <2>5. KnowsRow(g)'
      BY <1>1, <1>2, <1>6, <1>7, <1>12, <2>2 DEF KnowsRow, OnRow
    <2>6. Own'
      <3>1. g.uuid = lastUuid + 1 /\ g.device = d
        BY <1>2, <1>12, <2>2
      <3> QED
        BY <1>7, <1>9, <1>10, <2>3, <3>1, OwnStep
    <2>7. Kept(d)'
      <3>1. req'[r] = g
        BY <1>1, <2>3, Types DEF Goto
      <3>2. Fits(d)'
        BY <2>2, <3>1 DEF Fits
      <3>3. d \in Engaged(g)
        BY <2>2, EngagedIs DEF OnRow
      <3>4. ~Settled(d)'
        BY <2>2, <3>1, <3>3 DEF Settled
      <3> QED
        BY <3>2, <3>4 DEF Kept
    <2>8. \A e \in Device \ parted' : StaysKept(r, e) \/ Kept(e)'
      BY <1>8, <2>7
    <2>9. Engaged(g) \subseteq Engaged(req[r])
      BY <1>1, <1>3, <2>2 DEF Engaged
    <2>10. parted \subseteq parted' /\ \A e \in Engaged(g) \ parted' : \A q \in Req \ {r} : e \notin Engaged(req[q])
      BY <1>1, <2>9, StillApart
    <2> QED
      BY <1>1, <1>8, <2>1, <2>3, <2>4, <2>5, <2>6, <2>8, <2>10, RelayStep
  <1> QED
    BY <1>11, <1>12

LEMMA RegisterFailsRelay ==
    ASSUME RelayInv, NEW r \in Req, RegisterFails(r)
    PROVE  RelayInv'
  <1>1. MsgInv /\ MsgInv' /\ req[r].stage = "register" /\ UNCHANGED dev
    BY RegisterFailsStep DEF RelayInv, RegisterFails, At
  <1>2. PICK h \in MsgHandler :
              /\ h = EnsureUuid(req[r]) /\ h.stage = "register" /\ h.route = req[r].route /\ h.route \in {"token", "login"}
              /\ h.device = req[r].device /\ h.device \in Phone /\ h.device \in Device
              /\ h.token = req[r].token /\ h.token \in PushToken /\ h.uuid \in Nat
              /\ h.created => req[r].uuid = None /\ h.uuid = lastUuid + 1
              /\ ~h.created => h.uuid = req[r].uuid /\ h.uuid \in 1..lastUuid
    BY <1>1, Ensured
  <1>3. PICK d \in Device : d = req[r].device /\ h.device = d
    BY <1>2
  <1>4. PICK g \in MsgHandler : Goto(r, g) /\ ~OnRow(g) /\ ~OnAll(g) /\ Engaged(g) = {} /\ (g.stage = "issue" \/ g.uuid = None)
    BY <1>2, AfterRelayDoes DEF RegisterFails
  <1>5. KnowsRow(g)' /\ KnowsAll(g)'
    BY <1>4 DEF KnowsRow, KnowsAll, OnRow, OnAll
  <1>6. OnRow(req[r])
    BY <1>1 DEF OnRow
  <1>7. \A e \in Device : e \in Engaged(req[r]) <=> e = d
    BY <1>1, <1>3, EngagedIs DEF OnRow, OnAll
  <1>8. MsgInv /\ Own
    BY DEF RelayInv
  <1>9. CASE h.created /\ Registering(h) /\ parted' = parted \cup {d} /\ UNCHANGED behind
    <2>1. /\ \A e \in Device : e # d => SameRegs(e)
          /\ \A k \in relay' : Owns(k.uuid, k.device) \/ (k.uuid = lastUuid + 1 /\ k.device = d)
      BY <1>1, <1>2, <1>3, <1>9, RegisteringRegs
    <2>2. \A e \in Device \ parted' : e # d
      BY <1>9
    <2>3. \A e \in Device \ parted' : StaysKept(r, e) /\ SameRegs(e) /\ dev'[e] = dev[e]
      BY <1>1, <1>7, <1>9, <2>1, <2>2 DEF StaysKept
    <2>4. Own'
      <3>1. \A e \in Device : dev'[e] # None /\ dev'[e].uuid # None => Owns(dev'[e].uuid, e)
        BY <1>1 DEF Owns
      <3> QED
        BY <1>4, <1>8, <2>1, <3>1, OwnStep
    <2> QED
      BY <1>1, <1>4, <1>5, <1>9, <2>3, <2>4, RelayStep
  <1>10. CASE behind' = (IF h.created THEN behind ELSE behind \cup {d}) /\ UNCHANGED <<relay, lastUuid, parted>>
    <2>1. ASSUME d \notin parted
          PROVE  Kept(d)'
      <3>1. dev'[d] # None /\ dev'[d].uuid = req[r].uuid /\ \A k \in relay' : k.device = d => k.uuid = req[r].uuid
        BY <1>1, <1>3, <1>6, <1>10, <2>1, InHands
      <3>2. Fits(d)'
        BY <3>1 DEF Fits
      <3>3. CASE h.created
        <4>1. \A k \in relay' : k.uuid # None
          BY <1>8, <1>10, Types, MsgNoneAssumption DEF TablesOK, Registration
        <4>2. Mirrors(d)'
          BY <1>2, <3>1, <3>3, <4>1 DEF Mirrors
        <4> QED
          BY <3>2, <4>2 DEF Kept
      <3>4. CASE ~h.created
        BY <1>10, <3>2, <3>4 DEF Kept
      <3> QED
        BY <3>3, <3>4
    <2>2. \A e \in Engaged(req[r]) \ parted' : Kept(e)'
      <3>1. Engaged(req[r]) \subseteq Device
        BY <1>1, <1>3 DEF Engaged
      <3> QED
        BY <1>7, <1>10, <2>1, <3>1
    <2>3. behind \subseteq behind' /\ parted \subseteq parted'
      BY <1>10
    <2> QED
      BY <1>1, <1>4, <1>5, <1>10, <2>2, <2>3, RelayStays
  <1> QED
    BY <1>2, <1>3, <1>9, <1>10 DEF RegisterFails

LEMMA PersistRelay ==
    ASSUME RelayInv, NEW r \in Req, Persist(r)
    PROVE  RelayInv'
  <1>1. MsgInv /\ MsgInv' /\ UNCHANGED <<relay, behind, parted>>
    BY PersistStep DEF RelayInv, Persist
  <1>2. PICK h \in MsgHandler : h = req[r] /\ Sound(h) /\ h.stage = "persist"
    BY <1>1, Types DEF Persist, At
  <1>3. PICK d \in Device : d = h.device /\ h.uuid \in Nat
    BY <1>1, <1>2, Types DEF Sound, OnDevice, Pushing, Drawn
  <1>4. Set(d, "uuid", h.uuid) /\ AfterRelay(r, h)
    BY <1>2, <1>3 DEF Persist
  <1>5. /\ \A e \in Device \ {d} : dev'[e] = dev[e]
        /\ dev[d] = None => dev'[d] = None
        /\ dev[d] # None => dev'[d] # None /\ dev'[d].token = dev[d].token /\ dev'[d].uuid = h.uuid
    BY <1>1, <1>3, <1>4, SetUuidDoes
  <1>6. OnRow(req[r]) /\ req[r].device = d
    BY <1>2, <1>3 DEF OnRow
  <1>7. d \notin parted => /\ dev[d] # None /\ dev[d].token = h.token
                           /\ \E k \in relay : k.device = d
                           /\ \A k \in relay : k.device = d => k.uuid = h.uuid /\ k.token = h.token
    BY <1>2, <1>3, <1>6 DEF RelayInv, AllKnow, KnowsRow
  <1>8. PICK g \in MsgHandler : Goto(r, g) /\ ~OnRow(g) /\ ~OnAll(g) /\ Engaged(g) = {} /\ (g.stage = "issue" \/ g.uuid = None)
    BY <1>4, AfterRelayDoes
  <1>9. KnowsRow(g)' /\ KnowsAll(g)'
    BY <1>8 DEF KnowsRow, KnowsAll, OnRow, OnAll
  <1>10. /\ \A e \in Device \ parted' : e \in Engaged(req[r]) \/ (SameRegs(e) /\ (dev'[e] = dev[e] \/ dev[e] = None))
         /\ \A e \in Device \ parted' : e # d => StaysKept(r, e)
    <2>1. \A e \in Device \ parted' : e # req[r].device => SameRegs(e) /\ dev'[e] = dev[e] /\ (e \in behind => e \in behind')
      BY <1>1, <1>5, <1>6 DEF SameRegs
    <2> QED
      BY <1>6, <2>1, OtherDevices
  <1>11. d \notin parted => Kept(d)'
    <2>1. d \notin parted => Fits(d)'
      BY <1>1, <1>5, <1>7 DEF Fits
    <2>2. d \notin parted => Mirrors(d)'
      BY <1>1, <1>5, <1>7 DEF Mirrors
    <2> QED
      BY <2>1, <2>2 DEF Kept
  <1>12. \A e \in Device \ parted' : StaysKept(r, e) \/ Kept(e)'
    BY <1>1, <1>10, <1>11
  <1>13. Own'
    <2>1. Owns(h.uuid, d)
      BY <1>2, <1>3 DEF Owns
    <2>2. \A k \in relay' : Owns(k.uuid, k.device)
      BY <1>1 DEF Owns
    <2>3. \A e \in Device : dev'[e] # None /\ dev'[e].uuid # None => Owns(dev'[e].uuid, e)
      BY <1>5, <2>1 DEF Owns
    <2>4. Own
      BY DEF RelayInv
    <2> QED
      BY <1>1, <1>8, <2>2, <2>3, <2>4, OwnStep
  <1> QED
    BY <1>1, <1>8, <1>9, <1>10, <1>12, <1>13, RelayStep

LEMMA PersistFailsRelay ==
    ASSUME RelayInv, NEW r \in Req, PersistFails(r)
    PROVE  RelayInv'
  <1>1. MsgInv /\ MsgInv' /\ UNCHANGED <<dev, relay, behind>>
    BY PersistFailsStep DEF RelayInv, PersistFails
  <1>2. PICK h \in MsgHandler : h = req[r] /\ Sound(h) /\ h.stage = "persist"
    BY <1>1, Types DEF PersistFails, At
  <1>3. AfterRelay(r, h) /\ parted' = parted \cup {h.device}
    BY <1>2 DEF PersistFails
  <1>4. PICK g \in MsgHandler : Goto(r, g) /\ ~OnRow(g) /\ ~OnAll(g) /\ Engaged(g) = {} /\ (g.stage = "issue" \/ g.uuid = None)
    BY <1>3, AfterRelayDoes
  <1>5. KnowsRow(g)' /\ KnowsAll(g)'
    BY <1>4 DEF KnowsRow, KnowsAll, OnRow, OnAll
  <1>6. Engaged(req[r]) = {h.device}
    BY <1>2 DEF Engaged
  <1> QED
    BY <1>1, <1>3, <1>4, <1>5, <1>6, RelayStays

LEMMA UnregisterRelay ==
    ASSUME RelayInv, NEW r \in Req, Unregister(r)
    PROVE  RelayInv'
  <1>1. MsgInv /\ MsgInv' /\ UNCHANGED <<dev, parted>> /\ Finish(r)
    BY UnregisterStep DEF RelayInv, Unregister
  <1>2. PICK h \in MsgHandler : h = req[r] /\ Sound(h) /\ h.stage = "unregister" /\ h.route = "clear"
    BY <1>1, Types DEF Unregister, At
  <1>3. PICK d \in Device : d = h.device /\ h.uuid \in Nat /\ h.token = None
    BY <1>2, PhoneAssumption DEF Sound, MsgHandler
  <1>4. \/ relay' = {k \in relay : k.uuid # h.uuid} /\ behind' = behind \ {d}
        \/ UNCHANGED relay /\ behind' = behind \cup {d}
    BY <1>2, <1>3 DEF Unregister
  <1>5. OnRow(req[r]) /\ req[r].device = d /\ ~OnAll(req[r])
    BY <1>2, <1>3 DEF OnRow, OnAll, Whole
  <1>6. d \notin parted => /\ dev[d] # None /\ dev[d].token = None /\ dev[d].uuid = h.uuid
                           /\ \A k \in relay : k.device = d => k.uuid = h.uuid
    <2>1. d \notin parted => dev[d].token = None
      BY <1>2, <1>3, <1>5 DEF RelayInv, AllKnow, KnowsRow
    <2> QED
      BY <1>2, <1>3, <1>5, <2>1, InHands
  <1>7. PICK i \in MsgHandler : i = MsgIdle /\ i.stage = "idle" /\ i.uuid = None
    BY IdleSound DEF MsgIdle
  <1>8. Goto(r, i) /\ ~OnRow(i) /\ ~OnAll(i) /\ Engaged(i) = {}
    BY <1>1, <1>7 DEF Finish, OnRow, OnAll, Engaged
  <1>9. KnowsRow(i)' /\ KnowsAll(i)'
    BY <1>8 DEF KnowsRow, KnowsAll, OnRow, OnAll
  <1>10. \A e \in Device : e # d => SameRegs(e)
    <2> SUFFICES ASSUME NEW e \in Device, e # d, NEW k, k.device = e, k \in relay
                 PROVE  k \in relay'
      BY <1>4 DEF SameRegs
    <2>1. Owns(h.uuid, d)
      BY <1>2, <1>3 DEF Owns
    <2>2. Owns(k.uuid, e)
      BY DEF Owns
    <2>3. k.uuid # h.uuid
      BY <1>3, <2>1, <2>2 DEF RelayInv, Own
    <2> QED
      BY <1>4, <2>3
  <1>11. /\ \A e \in Device \ parted' : e \in Engaged(req[r]) \/ (SameRegs(e) /\ (dev'[e] = dev[e] \/ dev[e] = None))
         /\ \A e \in Device \ parted' : e # d => StaysKept(r, e)
    <2>1. \A e \in Device \ parted' : e # req[r].device => SameRegs(e) /\ dev'[e] = dev[e] /\ (e \in behind => e \in behind')
      BY <1>1, <1>4, <1>5, <1>10
    <2> QED
      BY <1>5, <2>1, OtherDevices
  <1>12. d \notin parted => Kept(d)'
    <2>1. d \notin parted => Fits(d)'
      BY <1>1, <1>4, <1>6 DEF Fits
    <2>2. d \notin parted /\ d \notin behind' => Mirrors(d)'
      BY <1>1, <1>4, <1>6 DEF Mirrors
    <2> QED
      BY <2>1, <2>2 DEF Kept
  <1>13. \A e \in Device \ parted' : StaysKept(r, e) \/ Kept(e)'
    BY <1>1, <1>11, <1>12
  <1>14. Own'
    <2>1. \A k \in relay' : Owns(k.uuid, k.device)
      BY <1>4 DEF Owns
    <2>2. \A e \in Device : dev'[e] # None /\ dev'[e].uuid # None => Owns(dev'[e].uuid, e)
      BY <1>1 DEF Owns
    <2>3. Own
      BY DEF RelayInv
    <2> QED
      BY <1>1, <1>7, <1>8, <2>1, <2>2, <2>3, OwnStep
  <1> QED
    BY <1>1, <1>8, <1>9, <1>11, <1>13, <1>14, RelayStep

-----------------------------------------------------------------------------
\* Whole accounts at the relay

LEMMA ListRelay ==
    ASSUME RelayInv, NEW r \in Req, List(r)
    PROVE  RelayInv'
  <1>1. MsgInv /\ MsgInv'
    BY ListStep DEF RelayInv
  <1>2. req[r].stage = "listUuids" /\ Meets(r) /\ UNCHANGED <<dev, relay, behind>>
    BY <1>1, ListDoes
  <1>3. PICK g \in MsgHandler :
                 /\ Goto(r, g) /\ g.uuids = ListUuids(req[r]) /\ g.route = req[r].route /\ g.route \in Whole
                 /\ g.stage = IF g.uuids = {} THEN AfterList(req[r]) ELSE "unregister"
                 /\ g.stage \in {"unregister", "dropDevices", "dropUser"}
                 /\ g.device = req[r].device /\ g.uuid = req[r].uuid /\ g.created = req[r].created /\ g.token = req[r].token
    BY <1>1, ListDoes
  <1>4. parted \subseteq parted' /\ \A d \in Engaged(g) \ parted' : \A q \in Req \ {r} : d \notin Engaged(req[q])
    BY <1>1, <1>2, <1>3, MeetsApart
  <1>5. Engaged(req[r]) = {} /\ Owns(g.uuid, g.device) /\ OnAll(g) /\ ~OnRow(g)
    BY <1>2, <1>3, StillOwns DEF Engaged, OnAll, OnRow, Whole
  <1>6. ASSUME NEW k \in relay, k.device \notin parted'
        PROVE  k.uuid \in g.uuids
    <2>1. PICK d \in Device \ parted : d = k.device
      BY <1>1, <1>4, <1>6, Types DEF TablesOK, Registration
    <2>2. d \in Engaged(g)
      BY <1>5, EngagedIs
    <2>3. ASSUME NEW q \in Req, req[q].stage = "persist", req[q].device = d
          PROVE  FALSE
      <3>1. d \in Engaged(req[q]) /\ q # r
        BY <1>2, <2>3, EngagedIs DEF OnRow
      <3> QED
        BY <1>4, <1>6, <2>1, <2>2, <3>1
    <2>4. Fits(d)
      BY DEF RelayInv, AllKept, Kept
    <2>5. dev[d] # None /\ dev[d].uuid = k.uuid
      BY <2>1, <2>3, <2>4 DEF Fits
    <2>6. k.uuid # None
      BY <1>1, Types, MsgNoneAssumption DEF TablesOK, Registration
    <2> QED
      BY <1>3, <2>5, <2>6 DEF ListUuids, UuidOf
  <1>7. KnowsRow(g)' /\ KnowsAll(g)'
    <2>1. KnowsRow(g)'
      BY <1>5 DEF KnowsRow, OnRow
    <2>2. KnowsAll(g)'
      BY <1>2, <1>3, <1>6 DEF KnowsAll
    <2> QED
      BY <2>1, <2>2
  <1> QED
    BY <1>1, <1>2, <1>3, <1>4, <1>5, <1>7, RelayStays

\* While a handler has all phones in hands, nothing is promised of the others' rows.
LEMMA AllInHands ==
    ASSUME RelayInv, NEW r \in Req, OnAll(req[r]), NEW d \in Device \ parted
    PROVE  d \in Engaged(req[r]) /\ \A q \in Req : req[q].stage = "persist" => req[q].device # d
  <1>1. d \in Engaged(req[r])
    BY EngagedIs
  <1>2. ASSUME NEW q \in Req, req[q].stage = "persist", req[q].device = d
        PROVE  FALSE
    <2>1. d \in Engaged(req[q]) /\ q # r
      BY <1>2, EngagedIs DEF OnRow, OnAll
    <2> QED
      BY <1>1, <2>1 DEF RelayInv, Apart
  <1> QED
    BY <1>1, <1>2

LEMMA UnregisterEachRelay ==
    ASSUME RelayInv, NEW r \in Req, UnregisterEach(r)
    PROVE  RelayInv'
  <1>1. MsgInv /\ MsgInv'
    BY UnregisterEachStep DEF RelayInv
  <1>2. req[r].stage = "unregister" /\ req[r].route \in Whole /\ UNCHANGED <<dev, behind>>
    BY <1>1, UnregisterEachDoes
  <1>3. PICK u \in req[r].uuids, g \in MsgHandler :
                 /\ \/ relay' = {k \in relay : k.uuid # u} /\ UNCHANGED parted
                    \/ UNCHANGED relay /\ parted' = parted \cup {k.device : k \in {k \in relay : k.uuid = u}}
                 /\ Goto(r, g) /\ g.uuids = req[r].uuids \ {u} /\ g.route = req[r].route
                 /\ g.stage = IF req[r].uuids = {u} THEN AfterList(req[r]) ELSE "unregister"
                 /\ g.stage \in {"unregister", "dropDevices", "dropUser"}
                 /\ g.device = req[r].device /\ g.uuid = req[r].uuid /\ g.created = req[r].created /\ g.token = req[r].token
    BY <1>1, UnregisterEachDoes
  <1>4. OnAll(req[r]) /\ OnAll(g) /\ ~OnRow(g)
    BY <1>2, <1>3 DEF OnAll, OnRow, Whole
  <1>5. parted \subseteq parted' /\ relay' \subseteq relay
    BY <1>3
  <1>6. Engaged(g) \subseteq Engaged(req[r])
    BY <1>2, <1>3 DEF Engaged, Whole
  <1>7. \A d \in Engaged(g) \ parted' : \A q \in Req \ {r} : d \notin Engaged(req[q])
    BY <1>5, <1>6, StillApart
  <1>8. ASSUME NEW k \in relay', k.device \notin parted'
        PROVE  k.uuid \in g.uuids
    <2>1. k \in relay /\ k.device \notin parted /\ k.uuid # u
      BY <1>3, <1>8
    <2>2. k.uuid \in req[r].uuids
      BY <1>4, <2>1 DEF RelayInv, AllKnow, KnowsAll
    <2> QED
      BY <1>3, <2>1, <2>2
  <1>9. KnowsRow(g)' /\ KnowsAll(g)'
    <2>1. KnowsRow(g)'
      BY <1>4 DEF KnowsRow, OnRow
    <2>2. KnowsAll(g)'
      <3>1. g.stage = "unregister" \/ g.uuids = {}
        BY <1>3
      <3> QED
        BY <1>8, <3>1 DEF KnowsAll
    <2> QED
      BY <2>1, <2>2
  <1>10. \A d \in Device \ parted' : d \in Engaged(req[r])
    BY <1>4, <1>5, AllInHands
  <1>11. ASSUME NEW d \in Device \ parted'
         PROVE  Kept(d)'
    <2>1. Fits(d)'
      <3>1. d \in Device \ parted
        BY <1>5
      <3>2. \A q \in Req : req[q].stage = "persist" => req[q].device # d
        BY <1>4, <3>1, AllInHands
      <3>3. Fits(d)
        BY <3>1 DEF RelayInv, AllKept, Kept
      <3> QED
        BY <1>2, <1>5, <3>2, <3>3 DEF Fits
    <2>2. ~Settled(d)'
      <3>1. req'[r] = g
        BY <1>1, <1>3, Types DEF Goto
      <3>2. d \in Engaged(g)
        BY <1>4, EngagedIs
      <3> QED
        BY <1>3, <3>1, <3>2 DEF Settled
    <2> QED
      BY <2>1, <2>2 DEF Kept
  <1>12. Own'
    <2>1. \A k \in relay' : Owns(k.uuid, k.device)
      BY <1>5 DEF Owns
    <2>2. \A e \in Device : dev'[e] # None /\ dev'[e].uuid # None => Owns(dev'[e].uuid, e)
      BY <1>2 DEF Owns
    <2>3. Own
      BY DEF RelayInv
    <2>4. Owns(g.uuid, g.device)
      BY <1>2, <1>3, StillOwns
    <2> QED
      BY <1>1, <1>3, <2>1, <2>2, <2>3, <2>4, OwnStep
  <1> QED
    BY <1>1, <1>3, <1>5, <1>7, <1>9, <1>10, <1>11, <1>12, RelayStep

\* The rows go, when all there was at the relay is gone.
LEMMA DropRelay ==
    ASSUME RelayInv, NEW r \in Req, DropDevices(r) \/ DropUser(r)
    PROVE  RelayInv'
  <1>1. MsgInv /\ MsgInv' /\ UNCHANGED <<relay, behind, parted>> /\ dev' = [d \in Device |-> None]
    BY DropDevicesStep, DropUserStep DEF RelayInv, DropDevices, DropUser
  <1>2. req[r].stage \in {"dropDevices", "dropUser"} /\ OnAll(req[r])
    BY <1>1, Types DEF DropDevices, DropUser, At, Sound, OnAll
  <1>3. PICK g \in MsgHandler : Goto(r, g) /\ g.stage \in {"idle", "replace"} /\ (g.uuid = None \/ Owns(g.uuid, g.device))
    <2>1. CASE DropDevices(r)
      <3>1. Proceed(r, "replace") /\ "replace" \in MsgStage
        BY <2>1 DEF DropDevices, MsgStage
      <3>2. PICK g \in MsgHandler : Goto(r, g) /\ g.stage = "replace" /\ Same(g, req[r])
        BY <1>1, <3>1, Goes
      <3> QED
        BY <1>2, <3>2, StillOwns DEF Same
    <2>2. CASE DropUser(r)
      <3>1. PICK i \in MsgHandler : i = MsgIdle /\ i.stage = "idle" /\ i.uuid = None
        BY IdleSound DEF MsgIdle
      <3> QED
        BY <2>2, <3>1 DEF DropUser, Finish
    <2> QED
      BY <2>1, <2>2
  <1>4. ~OnRow(g) /\ ~OnAll(g) /\ Engaged(g) = {}
    BY <1>3 DEF OnRow, OnAll, Engaged
  <1>5. KnowsRow(g)' /\ KnowsAll(g)'
    BY <1>4 DEF KnowsRow, KnowsAll, OnRow, OnAll
  <1>6. \A k \in relay' : k.device \in parted
    BY <1>1, <1>2 DEF RelayInv, AllKnow, KnowsAll
  <1>7. \A d \in Device \ parted' : d \in Engaged(req[r])
    BY <1>1, <1>2, AllInHands
  <1>8. ASSUME NEW d \in Device \ parted'
        PROVE  Kept(d)'
    <2>1. Fits(d)' /\ Mirrors(d)'
      BY <1>1, <1>6 DEF Fits, Mirrors
    <2> QED
      BY <2>1 DEF Kept
  <1>9. Own'
    <2>1. \A k \in relay' : Owns(k.uuid, k.device)
      BY <1>1 DEF Owns
    <2>2. \A e \in Device : dev'[e] = None
      BY <1>1
    <2>3. Own
      BY DEF RelayInv
    <2> QED
      BY <1>1, <1>3, <2>1, <2>2, <2>3, OwnStep
  <1>10. parted \subseteq parted' /\ \A d \in Engaged(g) \ parted' : \A q \in Req \ {r} : d \notin Engaged(req[q])
    BY <1>1, <1>4
  <1> QED
    BY <1>1, <1>3, <1>5, <1>7, <1>8, <1>9, <1>10, RelayStep

LEMMA CrashRelay ==
    ASSUME RelayInv, NEW r \in Req, Crash(r)
    PROVE  RelayInv'
  <1>1. MsgInv /\ MsgInv' /\ UNCHANGED <<dev, relay>> /\ Finish(r) /\ behind \subseteq behind' /\ parted \subseteq parted'
    BY CrashStep DEF RelayInv, Crash
  <1>2. PICK h \in MsgHandler : h = req[r] /\ Sound(h)
    BY <1>1, Types
  <1>3. PICK i \in MsgHandler : i = MsgIdle /\ i.stage = "idle" /\ i.uuid = None
    BY IdleSound DEF MsgIdle
  <1>4. Goto(r, i) /\ ~OnRow(i) /\ ~OnAll(i) /\ Engaged(i) = {}
    BY <1>1, <1>3 DEF Finish, OnRow, OnAll, Engaged
  <1>5. KnowsRow(i)' /\ KnowsAll(i)'
    BY <1>4 DEF KnowsRow, KnowsAll, OnRow, OnAll
  <1>6. Engaged(h) \subseteq Device
    BY <1>2, EngagedTypes DEF Sound
  <1>7. ASSUME NEW d \in Engaged(h), d \notin parted'
        PROVE  h.stage \in {"setToken", "touch"} \/ Kept(d)'
    <2>1. d \in Device /\ d \notin parted
      BY <1>1, <1>6, <1>7
    <2>2. CASE OnAll(h)
      <3>1. Fits(d)'
        <4>1. \A q \in Req : req[q].stage = "persist" => req[q].device # d
          BY <1>2, <2>1, <2>2, AllInHands
        <4>2. Fits(d)
          BY <2>1 DEF RelayInv, AllKept, Kept
        <4> QED
          BY <1>1, <4>1, <4>2 DEF Fits
      <3>2. CASE d \in Phone
        <4>1. d \in behind'
          BY <1>2, <2>2, <3>2 DEF Crash, OnAll, At, Whole
        <4> QED
          BY <3>1, <4>1 DEF Kept
      <3>3. CASE d \notin Phone
        BY <1>1, <2>1, <3>3, NoPhoneKept
      <3> QED
        BY <3>2, <3>3
    <2>3. CASE ~OnAll(h) /\ h.stage \notin {"setToken", "touch"}
      <3>1. OnRow(h) /\ d = h.device
        BY <1>7, <2>1, <2>3, EngagedIs
      <3>2. h.stage # "persist"
        BY <1>2, <1>7, <3>1 DEF Crash, At
      <3>3. dev'[d] # None /\ dev'[d].uuid = h.uuid /\ \A k \in relay' : k.device = d => k.uuid = h.uuid
        BY <1>1, <1>2, <2>1, <3>1, <3>2, InHands
      <3>4. Fits(d)'
        BY <3>3 DEF Fits
      <3>5. CASE d \in behind'
        BY <3>4, <3>5 DEF Kept
      <3>6. CASE d \notin behind'
        <4>1. h.uuid = None
          BY <1>2, <2>3, <3>1, <3>2, <3>6 DEF Crash, At, OnRow
        <4>2. \A k \in relay' : k.uuid # None
          BY <1>1, Types, MsgNoneAssumption DEF TablesOK, Registration
        <4>3. Mirrors(d)'
          BY <3>3, <4>1, <4>2 DEF Mirrors
        <4> QED
          BY <3>4, <4>3 DEF Kept
      <3> QED
        BY <3>5, <3>6
    <2> QED
      BY <2>2, <2>3
  <1> QED
    BY <1>1, <1>2, <1>3, <1>4, <1>5, <1>7, RelayStays

-----------------------------------------------------------------------------
\* The relay and the rows

LEMMA RelayStarts == MsgInit => RelayInv
  <1> SUFFICES ASSUME MsgInit PROVE RelayInv
    OBVIOUS
  <1>1. MsgInv
    BY MsgStarts
  <1>2. PICK i \in MsgHandler : i = MsgIdle /\ i.stage = "idle" /\ i.uuid = None
    BY IdleSound DEF MsgIdle
  <1>3. \A r \in Req : req[r] = i
    BY <1>2 DEF MsgInit
  <1>4. relay = {} /\ \A d \in Device : dev[d].uuid = None
    BY NewRow DEF MsgInit
  <1>5. ~OnRow(i) /\ ~OnAll(i) /\ Engaged(i) = {}
    BY <1>2 DEF OnRow, OnAll, Engaged
  <1>6. Own
    BY <1>2, <1>3, <1>4, MsgNoneAssumption DEF Own, Owns
  <1>7. Apart /\ AllKnow
    BY <1>3, <1>5 DEF Apart, AllKnow, KnowsRow, KnowsAll
  <1>8. AllKept
    BY <1>4 DEF AllKept, Kept, Fits, Mirrors
  <1> QED
    BY <1>1, <1>6, <1>7, <1>8 DEF RelayInv

LEMMA RelayKeeps == RelayInv /\ [MsgNext]_msgVars => RelayInv'
  <1> SUFFICES ASSUME RelayInv, [MsgNext]_msgVars PROVE RelayInv'
    OBVIOUS
  <1>1. CASE \E r \in Req : MsgStep(r)
    <2>1. PICK r \in Req : MsgStep(r)
      BY <1>1
    <2> QED
      BY <2>1, BeginRelay, QuietRelay, ReadRowRelay, SetTokenRelay, RegisterRelay, RegisterFailsRelay, PersistRelay, PersistFailsRelay,
         UnregisterRelay, FindDeviceRelay, InsertRelay, ReregisterRelay, ListRelay, UnregisterEachRelay, DropRelay,
         CrashRelay DEF MsgStep
  <1>2. CASE ~\E r \in Req : MsgStep(r)
    <2>1. UNCHANGED <<req, dev, relay, behind, parted>>
      <3>1. CASE UNCHANGED msgVars
        BY <3>1 DEF msgVars
      <3>2. CASE MsgNext
        BY <1>2, <3>2 DEF MsgNext, Listen, Handshake, Break, Close, FanOut, Lose, pushes
      <3> QED
        BY <3>1, <3>2
    <2>2. MsgInv'
      BY MsgKeepsInv DEF RelayInv
    <2>3. Own' /\ Apart'
      BY <2>1 DEF RelayInv, Own, Owns, Apart, Engaged
    <2>4. AllKnow'
      BY <2>1 DEF RelayInv, AllKnow, KnowsRow, KnowsAll, OnRow, OnAll
    <2>5. AllKept'
      BY <2>1 DEF RelayInv, AllKept, Kept, Fits, Settled, Mirrors, Engaged
    <2> QED
      BY <2>2, <2>3, <2>4, <2>5 DEF RelayInv
  <1> QED
    BY <1>1, <1>2

\* What the relay holds of a phone no handler works on is what its row says, but for
\* calls that failed and handlers that met (upsert_device_token, clear_device_token,
\* register_push_device, unregister_push_device).
THEOREM RelayMirrorsRows == MsgSpec => []RelayAgrees
  <1>1. ASSUME RelayInv PROVE RelayAgrees
    <2> SUFFICES ASSUME NEW d \in Device \ (behind \cup parted), \A r \in Req : d \notin Engaged(req[r])
                 PROVE  Registered(d) = Held(d)
      BY DEF RelayAgrees
    <2>1. Settled(d)
      BY DEF Settled
    <2>2. Mirrors(d)
      BY <1>1, <2>1 DEF RelayInv, AllKept, Kept
    <2> QED
      BY <1>1, <2>2, MirrorsAgree DEF RelayInv
  <1> QED
    BY <1>1, RelayStarts, RelayKeeps, PTL DEF MsgSpec
=============================================================================
