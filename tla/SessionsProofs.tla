--------------------------- MODULE SessionsProofs ---------------------------
(***************************************************************************)
(* Proofs about Sessions, for any devices, passwords and auth requests,    *)
(* any finite number of handlers, any workloads and any bounds: its types, *)
(* what password a usable session proves, what a rejection is worth, and   *)
(* the care taken of the second factor by one handler at a time.           *)
(***************************************************************************)
EXTENDS Sessions, FiniteSetTheorems, TLAPS

-----------------------------------------------------------------------------
\* What a handler holds

\* The stages of both password grants, which carry the users row they read.
LoginStages ==
    {"findRequest", "findDevice", "insertDevice", "listFactors", "prove", "useStep",
     "dropFactors", "dropRecovery", "dropRemembers", "migrate", "issue"}

\* Where a verified password leads.
Goals == {"change", "dropDevices", "enrol", "disable", "disableKey", "approve"}

\* A password given with a stamp is the account's as long as the stamp is.
Vouched(stamp, pw) == Settled /\ user # None /\ stamp = user.stamp /\ pw # None => pw = user.pw

\* A login carries a row read when its password was verified, with a stamp drawn by then.
SoundLogin(h) ==
    /\ h.device \in Device /\ h.row \in User
    /\ h.row.stamp \in 1..lastStamp /\ Vouched(h.row.stamp, h.pw)
    /\ "raise" \notin Asked.route => ~h.row.old
    /\ OneAtATime => h.row.stamp = user.stamp

Sound(h) ==
    /\ h.stage \notin {"idle", "register"} => user # None
    /\ h.stage \in {"register", "change"} => h.new \in Password
    /\ h.stage \in LoginStages => SoundLogin(h)
    /\ h.stage = "findRequest" => h.ask \in AuthRequest
    /\ h.stage = "prove" => h.factor \in Factor
    /\ h.stage = "refresh" => h.device \in Device /\ h.step \in 1..lastStamp /\ Vouched(h.step, h.pw)
    /\ h.stage = "verify" => /\ h.goal \in Goals
                             /\ h.goal = "change" => h.new \in Password
                             /\ h.goal = "approve" => h.ask \in asked
    /\ h.stage = "insertRequest" => h.device \in Device /\ h.ask \in AuthRequest
    /\ h.stage \in {"answer", "approve", "reject"} => h.ask \in asked

AllSound == \A r \in Req : Sound(req[r])

\* Where one handler at a time is allowed, r is the one, or none is.
Sole(r) == OneAtATime => \A s \in Req \ {r} : At(s, "idle")
AtMostOne == \A r \in Req : ~At(r, "idle") => Sole(r)

Passwords ==
    /\ "raise" \notin Asked.route /\ user # None => ~user.old
    /\ Settled /\ user # None => user.pw = user.key
    /\ \A s \in session : user # None /\ Vouched(s.stamp, s.pw)

\* A rejected request is gone, and its id is never used again.
RejectedGone == \A a \in rejected : a \in asked /\ request[a] = None

SessionInv == SessionTypeOK /\ AllSound /\ AtMostOne /\ Passwords /\ RejectedGone

-----------------------------------------------------------------------------
\* Slots

LEMMA UnusedSound == Unused \in Slot /\ Sound(Unused) /\ Sound(Unused)'
  BY DEF Unused, Slot, SessionStage, Sound, LoginStages

\* A handler that only moves on to another stage.
LEMMA Moved ==
    ASSUME NEW h \in Slot, NEW stage \in SessionStage
    PROVE  LET g == [h EXCEPT !.stage = stage] IN
           /\ g \in Slot /\ g.stage = stage /\ g.goal = h.goal /\ g.device = h.device /\ g.ask = h.ask
           /\ g.pw = h.pw /\ g.new = h.new /\ g.row = h.row /\ g.factor = h.factor
           /\ g.remember = h.remember /\ g.keep = h.keep /\ g.step = h.step
  BY DEF Slot

LEMMA BusySole == ASSUME SessionInv, NEW r \in Req, ~At(r, "idle") PROVE Sole(r)
  BY DEF SessionInv, AtMostOne

LEMMA BeginSole == ASSUME NEW r \in Req, NEW h, Begin(r, h) PROVE Sole(r)
  <1> SUFFICES ASSUME OneAtATime, NEW s \in Req, ~At(s, "idle")
               PROVE  FALSE
    BY DEF Sole
  <1>1. s \in InFlight /\ InFlight \in SUBSET Req
    BY DEF InFlight
  <1>2. IsFiniteSet(InFlight)
    BY <1>1, SessionFinite, FS_Subset
  <1>3. Cardinality(InFlight) \in Nat /\ Cardinality(InFlight) < 1
    BY <1>2, FS_CardinalityType DEF Begin, OneAtATime
  <1>4. InFlight = {}
    BY <1>2, <1>3, FS_EmptySet
  <1> QED
    BY <1>1, <1>4

\* What a step must keep for what other handlers hold to stay sound: no stamp comes
\* back, and while the stamp is the same so is the password.
Frame ==
    /\ load' = load /\ lastStamp' \in Nat /\ lastStamp <= lastStamp' /\ asked \subseteq asked'
    /\ user # None => user' # None
    /\ \/ user' = None \/ user'.stamp > lastStamp
       \/ user # None /\ user'.stamp = user.stamp /\ (Settled => user'.pw = user.pw)

LEMMA VouchedKept ==
    ASSUME SessionTypeOK, Frame, NEW stamp \in 1..lastStamp, NEW pw, Vouched(stamp, pw)
    PROVE  Vouched(stamp, pw)'
  <1>1. Settled' = Settled
    BY DEF Frame, Settled, OneAtATime, Asked
  <1>2. lastStamp \in Nat
    BY DEF SessionTypeOK
  <1> QED
    BY <1>1, <1>2 DEF Frame, Vouched

LEMMA SoundKept ==
    ASSUME SessionTypeOK, Frame, NEW h \in Slot, Sound(h),
           h.stage \in LoginStages => ~OneAtATime \/ user' = user \/ (user # None /\ user'.stamp = user.stamp)
    PROVE  Sound(h)'
  <1>1. Asked' = Asked /\ OneAtATime' = OneAtATime
    BY DEF Frame, OneAtATime, Asked
  <1>2. lastStamp \in Nat /\ lastStamp' \in Nat /\ lastStamp <= lastStamp' /\ asked \subseteq asked'
    BY DEF Frame, SessionTypeOK
  <1>3. ASSUME h.stage \in LoginStages
        PROVE  SoundLogin(h)'
    <2>1. SoundLogin(h) /\ user # None /\ user' # None
      BY <1>3 DEF Sound, LoginStages, Frame
    <2>2. Vouched(h.row.stamp, h.pw)'
      BY <2>1, VouchedKept DEF SoundLogin
    <2>3. h.row.stamp \in 1..lastStamp'
      BY <1>2, <2>1 DEF SoundLogin
    <2>4. OneAtATime => h.row.stamp = user'.stamp
      BY <1>3, <2>1 DEF SoundLogin
    <2> QED
      BY <1>1, <2>1, <2>2, <2>3, <2>4 DEF SoundLogin
  <1>4. ASSUME h.stage = "refresh"
        PROVE  h.step \in 1..lastStamp' /\ Vouched(h.step, h.pw)'
    <2>1. user # None /\ h.step \in 1..lastStamp /\ Vouched(h.step, h.pw)
      BY <1>4 DEF Sound
    <2> QED
      BY <1>2, <2>1, VouchedKept
  <1>5. h.stage \notin {"idle", "register"} => user' # None
    BY DEF Sound, Frame
  <1> QED
    BY <1>2, <1>3, <1>4, <1>5 DEF Sound

\* A step of r, after which it holds h.
LEMMA SlotStep ==
    ASSUME SessionInv, NEW r \in Req, Sole(r), NEW h \in Slot, Sound(h)', Goto(r, h), Frame
    PROVE  req' \in [Req -> Slot] /\ AllSound' /\ AtMostOne'
  <1>1. req \in [Req -> Slot] /\ SessionTypeOK
    BY DEF SessionInv, SessionTypeOK
  <1>2. req' \in [Req -> Slot] /\ \A s \in Req : req'[s] = IF s = r THEN h ELSE req[s]
    BY <1>1 DEF Goto
  <1>3. OneAtATime' = OneAtATime
    BY DEF Frame, OneAtATime, Asked
  <1>4. ASSUME NEW s \in Req
        PROVE  Sound(req[s])'
    <2>1. CASE s = r
      BY <1>2, <2>1 DEF Sound, SoundLogin, Vouched
    <2>2. CASE s # r
      <3>1. req'[s] = req[s] /\ req[s] \in Slot /\ Sound(req[s])
        BY <1>1, <1>2, <2>2 DEF SessionInv, AllSound
      <3>2. req[s].stage \in LoginStages => ~OneAtATime
        BY <2>2 DEF Sole, At, LoginStages
      <3>3. Sound(req[s])'
        <4> DEFINE k == req[s]
        <4>1. k \in Slot /\ Sound(k) /\ (k.stage \in LoginStages => ~OneAtATime)
          BY <3>1, <3>2
        <4>2. \A j \in Slot : Sound(j) /\ (j.stage \in LoginStages => ~OneAtATime) => Sound(j)'
          BY <1>1, SoundKept
        <4>3. PICK j \in Slot : j = k
          BY <4>1
        <4>4. Sound(j)'
          BY <4>1, <4>2, <4>3
        <4>5. req'[s] = j
          BY <3>1, <4>3
        <4> HIDE DEF k
        <4> QED
          BY <4>4, <4>5 DEF Sound, SoundLogin, Vouched
      <3> QED
        BY <3>3
    <2> QED
      BY <2>1, <2>2
  <1>5. AtMostOne'
    BY <1>2, <1>3 DEF SessionInv, AtMostOne, Sole, At
  <1> QED
    BY <1>2, <1>4, <1>5 DEF AllSound

-----------------------------------------------------------------------------
\* Steps by what they leave alone

\* A query that writes nothing.
LEMMA QueryStep ==
    ASSUME SessionInv, NEW r \in Req, Sole(r), NEW h \in Slot, Sound(h), Goto(r, h), SameRows,
           load' = load
    PROVE  SessionInv'
  <1>1. /\ user' = user /\ lastStamp' = lastStamp /\ asked' = asked /\ session' = session
        /\ rejected' = rejected /\ request' = request
    BY DEF SameRows, drawn, requests
  <1>2. Sound(h)'
    BY <1>1 DEF Sound, SoundLogin, Vouched, Settled, OneAtATime, Asked
  <1>3. Frame
    BY <1>1 DEF Frame, SessionInv, SessionTypeOK
  <1>4. req' \in [Req -> Slot] /\ AllSound' /\ AtMostOne'
    BY <1>2, <1>3, SlotStep
  <1>5. SessionTypeOK'
    BY <1>1, <1>4 DEF SessionInv, SessionTypeOK, SameRows, drawn, requests, codes
  <1>6. Passwords' /\ RejectedGone'
    BY <1>1 DEF SessionInv, Passwords, Vouched, Settled, OneAtATime, Asked, RejectedGone
  <1> QED
    BY <1>4, <1>5, <1>6 DEF SessionInv

\* A query that writes the users row.
LEMMA UserStep ==
    ASSUME SessionInv, NEW r \in Req, Sole(r), NEW h \in Slot, Sound(h)', Goto(r, h), OnlyUser,
           Frame, user' \in User, user'.stamp \in 1..lastStamp',
           "raise" \notin Asked.route => ~user'.old, Settled => user'.pw = user'.key
    PROVE  SessionInv'
  <1>1. asked' = asked /\ session' = session /\ rejected' = rejected /\ request' = request
    BY DEF OnlyUser, requests
  <1>2. req' \in [Req -> Slot] /\ AllSound' /\ AtMostOne'
    BY SlotStep
  <1>3. SessionTypeOK'
    <2>1. lastStamp \in Nat /\ lastStamp' \in Nat /\ lastStamp <= lastStamp'
      BY DEF SessionInv, SessionTypeOK, Frame
    <2>2. \A s \in session : s.stamp \in 1..lastStamp'
      BY <2>1 DEF SessionInv, SessionTypeOK
    <2> QED
      BY <1>1, <1>2, <2>1, <2>2 DEF SessionInv, SessionTypeOK, OnlyUser, requests, codes, Frame
  <1>4. ASSUME NEW s \in session
        PROVE  user' # None /\ Vouched(s.stamp, s.pw)'
    <2> PICK stamp, pw : stamp = s.stamp /\ pw = s.pw
      OBVIOUS
    <2>1. stamp \in 1..lastStamp /\ Vouched(stamp, pw)
      BY DEF SessionInv, SessionTypeOK, Passwords
    <2>2. Vouched(stamp, pw)'
      BY <2>1, VouchedKept DEF SessionInv
    <2> QED
      BY <2>2, SessionNullAssumption DEF Vouched
  <1>5. Passwords'
    BY <1>1, <1>4 DEF Passwords, Vouched, Settled, OneAtATime, Asked, Frame
  <1>6. RejectedGone'
    BY <1>1 DEF SessionInv, RejectedGone
  <1> QED
    BY <1>2, <1>3, <1>5, <1>6 DEF SessionInv

\* A query that writes the authenticator.
LEMMA FactorStep ==
    ASSUME SessionInv, NEW r \in Req, Sole(r), NEW h \in Slot, Sound(h), Goto(r, h), OnlyFactor,
           load' = load, factor' \in Factor \cup {None}, lastFactor' \in Nat, spent' \subseteq Int,
           replayed' \in BOOLEAN
    PROVE  SessionInv'
  <1>1. /\ user' = user /\ lastStamp' = lastStamp /\ asked' = asked /\ session' = session
        /\ rejected' = rejected /\ request' = request
    BY DEF OnlyFactor, requests
  <1>2. Sound(h)'
    BY <1>1 DEF Sound, SoundLogin, Vouched, Settled, OneAtATime, Asked
  <1>3. Frame
    BY <1>1 DEF Frame, SessionInv, SessionTypeOK
  <1>4. req' \in [Req -> Slot] /\ AllSound' /\ AtMostOne'
    BY <1>2, <1>3, SlotStep
  <1>5. SessionTypeOK'
    BY <1>1, <1>4 DEF SessionInv, SessionTypeOK, OnlyFactor, requests
  <1>6. Passwords' /\ RejectedGone'
    BY <1>1 DEF SessionInv, Passwords, Vouched, Settled, OneAtATime, Asked, RejectedGone
  <1> QED
    BY <1>4, <1>5, <1>6 DEF SessionInv

\* A query that writes the devices, or the answer that hands out a session.
LEMMA DeviceStep ==
    ASSUME SessionInv, NEW r \in Req, Sole(r), NEW h \in Slot, Sound(h), Goto(r, h), OnlyDevice,
           load' = load, device' \in [Device -> DeviceRow \cup {None}],
           \A s \in session' : s \in session
              \/ (s \in Session /\ s.stamp \in 1..lastStamp /\ user # None /\ Vouched(s.stamp, s.pw))
    PROVE  SessionInv'
  <1>1. /\ user' = user /\ lastStamp' = lastStamp /\ asked' = asked
        /\ rejected' = rejected /\ request' = request
    BY DEF OnlyDevice, requests, drawn
  <1>2. Sound(h)'
    BY <1>1 DEF Sound, SoundLogin, Vouched, Settled, OneAtATime, Asked
  <1>3. Frame
    BY <1>1 DEF Frame, SessionInv, SessionTypeOK
  <1>4. req' \in [Req -> Slot] /\ AllSound' /\ AtMostOne'
    BY <1>2, <1>3, SlotStep
  <1>5. \A s \in session' : s \in Session /\ s.stamp \in 1..lastStamp
    BY DEF SessionInv, SessionTypeOK
  <1>6. SessionTypeOK'
    BY <1>1, <1>4, <1>5 DEF SessionInv, SessionTypeOK, OnlyDevice, requests, drawn, codes
  <1>7. Passwords' /\ RejectedGone'
    BY <1>1 DEF SessionInv, Passwords, Vouched, Settled, OneAtATime, Asked, RejectedGone
  <1> QED
    BY <1>4, <1>6, <1>7 DEF SessionInv

\* A query that writes the auth requests.
LEMMA RequestStep ==
    ASSUME SessionInv, NEW r \in Req, Sole(r), NEW h \in Slot, Sound(h), Goto(r, h), OnlyRequest,
           load' = load, request' \in [AuthRequest -> RequestRow \cup {None}],
           asked \subseteq asked', asked' \subseteq AuthRequest,
           \A a \in rejected' : a \in asked' /\ request'[a] = None
    PROVE  SessionInv'
  <1>1. user' = user /\ lastStamp' = lastStamp /\ session' = session
    BY DEF OnlyRequest
  <1>2. Sound(h)'
    BY <1>1 DEF Sound, SoundLogin, Vouched, Settled, OneAtATime, Asked
  <1>3. Frame
    BY <1>1 DEF Frame, SessionInv, SessionTypeOK
  <1>4. req' \in [Req -> Slot] /\ AllSound' /\ AtMostOne'
    BY <1>2, <1>3, SlotStep
  <1>5. SessionTypeOK'
    BY <1>1, <1>4 DEF SessionInv, SessionTypeOK, OnlyRequest, codes
  <1>6. Passwords' /\ RejectedGone'
    BY <1>1 DEF SessionInv, Passwords, Vouched, Settled, OneAtATime, Asked, RejectedGone
  <1> QED
    BY <1>4, <1>5, <1>6 DEF SessionInv

\* The request is answered after a query that writes nothing.
LEMMA QueryDone ==
    ASSUME SessionInv, NEW r \in Req, Sole(r), Done(r), SameRows, load' = load
    PROVE  SessionInv'
  BY UnusedSound, QueryStep DEF Done, Goto

\* The stages between which a handler moves by a query alone, with what it holds.
LEMMA QueryGo ==
    ASSUME SessionInv, NEW r \in Req, ~At(r, "idle"), NEW stage \in SessionStage, Go(r, stage),
           SameRows, load' = load,
           \A h \in Slot : Sound(h) /\ h = req[r] => Sound([h EXCEPT !.stage = stage])
    PROVE  SessionInv'
  <1>1. PICK h \in Slot : h = req[r] /\ Sound(h)
    BY DEF SessionInv, SessionTypeOK, AllSound
  <1> DEFINE g == [h EXCEPT !.stage = stage]
  <1>2. g \in Slot /\ Sound(g) /\ Goto(r, g)
    BY <1>1, Moved DEF Go, Goto
  <1> HIDE DEF g
  <1> QED
    BY <1>2, BusySole, QueryStep

\* On to another stage of the login, but those that need more.
LEMMA LoginMoved ==
    ASSUME NEW h \in Slot, Sound(h), h.stage \in LoginStages,
           NEW stage \in LoginStages \ {"findRequest", "prove"}
    PROVE  [h EXCEPT !.stage = stage] \in Slot /\ Sound([h EXCEPT !.stage = stage])
  <1>1. stage \in SessionStage
    BY DEF LoginStages, SessionStage
  <1> DEFINE g == [h EXCEPT !.stage = stage]
  <1>2. /\ g \in Slot /\ g.stage = stage /\ g.device = h.device /\ g.pw = h.pw /\ g.row = h.row
    BY <1>1, Moved
  <1> HIDE DEF g
  <1>3. user # None /\ SoundLogin(g)
    BY <1>2 DEF Sound, SoundLogin, LoginStages
  <1> QED
    BY <1>2, <1>3 DEF Sound, LoginStages, g

-----------------------------------------------------------------------------
\* Registration

LEMMA InviteStep ==
    ASSUME SessionInv, Invite, load' = load
    PROVE  SessionInv'
  <1>1. /\ user = None /\ lastStamp' = lastStamp + 1 /\ lastStamp \in Nat /\ req' = req
        /\ user' = [pw |-> None, key |-> None, stamp |-> lastStamp + 1, old |-> FALSE, recover |-> FALSE]
    BY DEF Invite, Stamp, NewStamp, SessionInv, SessionTypeOK
  <1>2. user' \in User
    BY <1>1 DEF User
  <1>3. user' # None
    BY <1>2, SessionNullAssumption
  <1>4. asked' = asked /\ session' = session /\ rejected' = rejected /\ request' = request
    BY DEF Invite, OnlyUser, requests
  <1>5. Frame
    BY <1>1, <1>2, <1>3, <1>4 DEF Frame
  <1>6. ASSUME NEW h \in Slot, Sound(h)
        PROVE  Sound(h)'
    BY <1>1, <1>5, <1>6, SoundKept DEF SessionInv, Sound, LoginStages
  <1>7. AllSound'
    <2> SUFFICES ASSUME NEW s \in Req PROVE Sound(req[s])'
      BY DEF AllSound
    <2>1. PICK h \in Slot : h = req[s] /\ Sound(h)
      BY DEF SessionInv, SessionTypeOK, AllSound
    <2>2. Sound(h)' /\ req'[s] = h
      BY <1>1, <1>6, <2>1
    <2> QED
      BY <2>2 DEF Sound, SoundLogin, Vouched
  <1>8. SessionTypeOK'
    BY <1>1, <1>2, <1>4 DEF SessionInv, SessionTypeOK, Invite, OnlyUser, requests, codes
  <1>9. \A s \in session : ~(s.stamp = user'.stamp)
    BY <1>1 DEF SessionInv, SessionTypeOK
  <1>10. Passwords' /\ RejectedGone' /\ AtMostOne'
    BY <1>1, <1>4, <1>9 DEF SessionInv, Passwords, Vouched, Settled, OneAtATime, Asked, RejectedGone,
       AtMostOne, Sole, At
  <1> QED
    BY <1>7, <1>8, <1>10 DEF SessionInv

LEMMA RaiseStep ==
    ASSUME SessionInv, RaiseIterations, "raise" \in Asked.route, load' = load
    PROVE  SessionInv'
  <1>1. /\ user \in User /\ lastStamp' = lastStamp /\ lastStamp \in Nat /\ req' = req
        /\ user' = [user EXCEPT !.old = TRUE]
    BY DEF RaiseIterations, SameStamp, Registered, SessionInv, SessionTypeOK
  <1>2. user' \in User /\ user'.stamp = user.stamp /\ user'.pw = user.pw /\ user'.key = user.key
    BY <1>1 DEF User
  <1>3. user' # None /\ user # None
    BY <1>1, <1>2, SessionNullAssumption
  <1>4. asked' = asked /\ session' = session /\ rejected' = rejected /\ request' = request
    BY DEF RaiseIterations, OnlyUser, requests
  <1>5. Frame
    BY <1>1, <1>2, <1>3, <1>4 DEF Frame
  <1>6. ASSUME NEW h \in Slot, Sound(h)
        PROVE  Sound(h)'
    BY <1>2, <1>3, <1>5, <1>6, SoundKept DEF SessionInv
  <1>7. AllSound'
    <2> SUFFICES ASSUME NEW s \in Req PROVE Sound(req[s])'
      BY DEF AllSound
    <2>1. PICK h \in Slot : h = req[s] /\ Sound(h)
      BY DEF SessionInv, SessionTypeOK, AllSound
    <2>2. Sound(h)' /\ req'[s] = h
      BY <1>1, <1>6, <2>1
    <2> QED
      BY <2>2 DEF Sound, SoundLogin, Vouched
  <1>8. SessionTypeOK'
    <2>1. user'.stamp \in 1..lastStamp /\ \A s \in session : s.stamp \in 1..lastStamp
      BY <1>2, <1>3 DEF SessionInv, SessionTypeOK
    <2>2. UNCHANGED <<now, factor, device, lastFactor, spent, replayed, cut>>
      BY DEF RaiseIterations, OnlyUser, codes
    <2> QED
      BY <1>1, <1>2, <1>4, <2>1, <2>2 DEF SessionInv, SessionTypeOK
  <1>9. Passwords' /\ RejectedGone' /\ AtMostOne'
    BY <1>1, <1>2, <1>3, <1>4 DEF SessionInv, Passwords, Vouched, Settled, OneAtATime, Asked, RejectedGone,
       AtMostOne, Sole, At
  <1> QED
    BY <1>7, <1>8, <1>9 DEF SessionInv

\* A request that begins.
LEMMA BeginStep ==
    ASSUME SessionInv, NEW r \in Req, NEW h \in Slot, Sound(h), Begin(r, h), SameRows, load' = load
    PROVE  SessionInv'
  BY BeginSole, QueryStep DEF Begin, Goto

LEMMA StartRegisterStep ==
    ASSUME SessionInv, NEW r \in Req, NEW p \in Password, StartRegister(r, p), load' = load
    PROVE  SessionInv'
  <1>1. PICK row \in User \cup {None}, u \in Slot : row = user /\ u = Unused
    BY UnusedSound DEF SessionInv, SessionTypeOK
  <1> DEFINE h == [u EXCEPT !.stage = "register", !.row = row, !.new = p]
  <1>2. h.stage = "register" /\ h.new = p
    BY DEF Slot
  <1>3. h \in Slot
    BY DEF Slot, SessionStage
  <1>4. Begin(r, h) /\ SameRows
    BY <1>1 DEF StartRegister
  <1> HIDE DEF h
  <1>5. Sound(h)
    BY <1>2 DEF Sound, LoginStages
  <1> QED
    BY <1>3, <1>4, <1>5, BeginStep

LEMMA StoreRegistrationStep ==
    ASSUME SessionInv, NEW r \in Req, StoreRegistration(r), load' = load
    PROVE  SessionInv'
  <1>1. Sole(r) /\ req[r].new \in Password /\ lastStamp \in Nat /\ user \in User \cup {None}
    BY BusySole DEF SessionInv, SessionTypeOK, AllSound, Sound, StoreRegistration, At
  <1>2. Goto(r, Unused) /\ OnlyUser
    BY DEF StoreRegistration, Done, Goto
  <1>3. CASE user' = user /\ lastStamp' = lastStamp
    <2>1. SameRows
      BY <1>2, <1>3 DEF OnlyUser, SameRows, drawn
    <2> QED
      BY <1>1, <2>1, QueryDone DEF StoreRegistration
  <1>4. CASE ~(user' = user /\ lastStamp' = lastStamp)
    <2>1. /\ lastStamp' = lastStamp + 1
          /\ user' = [pw |-> req[r].new, key |-> req[r].new, stamp |-> lastStamp + 1, old |-> FALSE,
                      recover |-> FALSE]
      BY <1>4 DEF StoreRegistration, Stamp, NewStamp
    <2>2. user' \in User
      BY <1>1, <2>1 DEF User
    <2>3. user' # None
      BY <2>2, SessionNullAssumption
    <2>4. Frame
      BY <1>1, <1>2, <2>1, <2>3 DEF Frame, OnlyUser
    <2>5. user'.stamp \in 1..lastStamp' /\ ~user'.old /\ user'.pw = user'.key
      BY <1>1, <2>1
    <2> QED
      BY <1>1, <1>2, <2>2, <2>4, <2>5, UnusedSound, UserStep
  <1> QED
    BY <1>3, <1>4

-----------------------------------------------------------------------------
\* The password grant

LEMMA StartLoginStep ==
    ASSUME SessionInv, NEW r \in Req, NEW d \in Device, NEW p \in Password, StartLogin(r, d, p),
           load' = load
    PROVE  SessionInv'
  <1>1. PICK row \in User, u \in Slot : row = user /\ u = Unused
    BY UnusedSound DEF SessionInv, SessionTypeOK, StartLogin, Registered
  <1> DEFINE h == [u EXCEPT !.stage = "findDevice", !.device = d, !.row = row, !.pw = p]
  <1>2. h.stage = "findDevice" /\ h.device = d /\ h.row = row /\ h.pw = p
    BY DEF Slot
  <1>3. h \in Slot
    BY DEF Slot, SessionStage
  <1>4. Begin(r, h) /\ SameRows /\ user # None /\ user.pw = p
    BY <1>1 DEF StartLogin, Registered
  <1> HIDE DEF h
  <1>5. SoundLogin(h)
    BY <1>1, <1>2, <1>4 DEF SessionInv, SessionTypeOK, Passwords, SoundLogin, Vouched
  <1>6. Sound(h)
    BY <1>2, <1>4, <1>5 DEF Sound, LoginStages
  <1> QED
    BY <1>3, <1>4, <1>6, BeginStep

LEMMA StartLoginByRequestStep ==
    ASSUME SessionInv, NEW r \in Req, NEW d \in Device, NEW a \in AuthRequest,
           StartLoginByRequest(r, d, a), load' = load
    PROVE  SessionInv'
  <1>1. PICK row \in User, u \in Slot : row = user /\ u = Unused /\ u.pw = None
    BY UnusedSound DEF SessionInv, SessionTypeOK, StartLoginByRequest, Unused
  <1> DEFINE h == [u EXCEPT !.stage = "findRequest", !.device = d, !.row = row, !.ask = a]
  <1>2. h.stage = "findRequest" /\ h.device = d /\ h.row = row /\ h.ask = a /\ h.pw = None
    BY <1>1 DEF Slot
  <1>3. h \in Slot
    BY DEF Slot, SessionStage
  <1>4. Begin(r, h) /\ SameRows /\ user # None
    BY <1>1 DEF StartLoginByRequest
  <1> HIDE DEF h
  <1>5. SoundLogin(h)
    BY <1>1, <1>2, <1>4 DEF SessionInv, SessionTypeOK, Passwords, SoundLogin, Vouched
  <1>6. Sound(h)
    BY <1>2, <1>4, <1>5 DEF Sound, LoginStages
  <1> QED
    BY <1>3, <1>4, <1>6, BeginStep

\* A query of a login after which it goes on to another stage.
LEMMA LoginQuery ==
    ASSUME SessionInv, NEW r \in Req, req[r].stage \in LoginStages,
           NEW stage \in LoginStages \ {"findRequest", "prove"}, Go(r, stage), SameRows, load' = load
    PROVE  SessionInv'
  <1>1. ~At(r, "idle") /\ stage \in SessionStage
    BY DEF At, LoginStages, SessionStage
  <1>2. \A h \in Slot : Sound(h) /\ h = req[r] => Sound([h EXCEPT !.stage = stage])
    BY LoginMoved
  <1> QED
    BY <1>1, <1>2, QueryGo

LEMMA FindRequestStep ==
    ASSUME SessionInv, NEW r \in Req, FindRequest(r), load' = load
    PROVE  SessionInv'
  <1>1. Sole(r) /\ req[r].stage \in LoginStages /\ "findDevice" \in LoginStages \ {"findRequest", "prove"}
    BY BusySole DEF FindRequest, At, LoginStages
  <1> QED
    BY <1>1, QueryDone, LoginQuery DEF FindRequest

\* A login takes note of a value it read: any slot with the row and password it had.
LEMMA LoginNoted ==
    ASSUME SessionInv, NEW r \in Req, req[r].stage \in LoginStages, NEW g \in Slot,
           g.stage \in LoginStages \ {"findRequest"}, g.device = req[r].device, g.row = req[r].row,
           g.pw = req[r].pw, g.stage = "prove" => g.factor \in Factor, Goto(r, g), SameRows,
           load' = load
    PROVE  SessionInv'
  <1>1. Sole(r) /\ Sound(req[r])
    BY BusySole DEF SessionInv, AllSound, At, LoginStages
  <1>2. user # None /\ SoundLogin(g)
    BY <1>1 DEF Sound, SoundLogin, LoginStages
  <1>3. Sound(g)
    BY <1>2 DEF Sound, LoginStages
  <1> QED
    BY <1>1, <1>3, QueryStep

LEMMA FindDeviceStep ==
    ASSUME SessionInv, NEW r \in Req, FindDevice(r), load' = load
    PROVE  SessionInv'
  <1>1. PICK h \in Slot : h = req[r] /\ h.stage = "findDevice" /\ Sound(h)
    BY DEF FindDevice, At, SessionInv, SessionTypeOK, AllSound
  <1>2. h.stage \in LoginStages /\ h.device \in Device
    BY <1>1 DEF Sound, SoundLogin, LoginStages
  <1>3. CASE device[h.device] = None
    <2>1. Go(r, "insertDevice") /\ SameRows
      BY <1>1, <1>3 DEF FindDevice
    <2>2. "insertDevice" \in LoginStages \ {"findRequest", "prove"}
      BY DEF LoginStages
    <2> QED
      BY <1>1, <1>2, <2>1, <2>2, LoginQuery
  <1>4. CASE device[h.device] # None
    <2>1. PICK m \in Nat \cup {None} : m = device[h.device].remember
      BY <1>2, <1>4 DEF SessionInv, SessionTypeOK, DeviceRow
    <2> DEFINE g == [h EXCEPT !.stage = "listFactors", !.remember = m]
    <2>2. Goto(r, g) /\ SameRows
      BY <1>1, <1>4, <2>1 DEF FindDevice
    <2>3. g \in Slot
      BY DEF Slot, SessionStage
    <2>4. g.stage = "listFactors" /\ g.device = h.device /\ g.row = h.row /\ g.pw = h.pw
      BY DEF Slot
    <2> HIDE DEF g
    <2> QED
      BY <1>1, <1>2, <2>2, <2>3, <2>4, LoginNoted DEF LoginStages
  <1> QED
    BY <1>3, <1>4

LEMMA InsertDeviceStep ==
    ASSUME SessionInv, NEW r \in Req, InsertDevice(r), load' = load
    PROVE  SessionInv'
  <1>1. PICK h \in Slot : h = req[r] /\ h.stage = "insertDevice" /\ Sound(h)
    BY DEF InsertDevice, At, SessionInv, SessionTypeOK, AllSound
  <1>2. Sole(r) /\ h.stage \in LoginStages /\ h.device \in Device /\ OnlyDevice /\ session' = session
    BY <1>1, BusySole DEF At, Sound, SoundLogin, LoginStages, InsertDevice
  <1>3. CASE device[h.device] # None
    <2>1. Goto(r, Unused) /\ device' = device
      BY <1>1, <1>3 DEF InsertDevice, Done, Goto
    <2> QED
      BY <1>2, <2>1, UnusedSound, DeviceStep DEF SessionInv, SessionTypeOK
  <1>4. CASE device[h.device] = None
    <2> DEFINE g == [h EXCEPT !.stage = "listFactors"]
    <2>1. Goto(r, g) /\ device' = [device EXCEPT ![h.device] = [remember |-> None]]
      BY <1>1, <1>4 DEF InsertDevice, Go, Goto
    <2>2. [remember |-> None] \in DeviceRow
      BY DEF DeviceRow
    <2>3. device' \in [Device -> DeviceRow \cup {None}]
      BY <2>1, <2>2 DEF SessionInv, SessionTypeOK
    <2>4. g \in Slot /\ Sound(g)
      BY <1>1, <1>2, LoginMoved DEF LoginStages
    <2> HIDE DEF g
    <2> QED
      BY <1>2, <2>1, <2>3, <2>4, DeviceStep
  <1> QED
    BY <1>3, <1>4

LEMMA ListFactorsStep ==
    ASSUME SessionInv, NEW r \in Req, ListFactors(r), load' = load
    PROVE  SessionInv'
  <1>1. PICK h \in Slot, f \in Factor \cup {None} :
           h = req[r] /\ f = factor /\ h.stage = "listFactors" /\ Sound(h)
    BY DEF ListFactors, At, SessionInv, SessionTypeOK, AllSound
  <1>2. PICK stage \in {"migrate", "prove"} : stage = IF f = None THEN "migrate" ELSE "prove"
    OBVIOUS
  <1> DEFINE g == [h EXCEPT !.stage = stage, !.factor = f]
  <1>3. Goto(r, g) /\ SameRows
    BY <1>1, <1>2 DEF ListFactors
  <1>4. stage \in SessionStage
    BY DEF SessionStage
  <1>5. g \in Slot
    BY <1>4 DEF Slot
  <1>6. g.stage = stage /\ g.device = h.device /\ g.row = h.row /\ g.pw = h.pw /\ g.factor = f
    BY DEF Slot
  <1> HIDE DEF g
  <1> QED
    BY <1>1, <1>2, <1>3, <1>5, <1>6, LoginNoted DEF LoginStages

LEMMA ProveStepStep ==
    ASSUME SessionInv, NEW r \in Req, NEW n \in (now - Drift)..(now + Drift), NEW keep \in BOOLEAN,
           ProveStep(r, n, keep), load' = load
    PROVE  SessionInv'
  <1>1. PICK h \in Slot : h = req[r] /\ h.stage = "prove" /\ Sound(h)
    BY DEF ProveStep, At, SessionInv, SessionTypeOK, AllSound
  <1>2. PICK m \in Nat, step \in Int : m = h.factor.uuid /\ step = n
    BY <1>1, SessionBoundsAssumption DEF Sound, Factor, SessionInv, SessionTypeOK
  <1> DEFINE g == [h EXCEPT !.stage = "useStep", !.step = step, !.keep = keep, !.remember = m]
  <1>3. Goto(r, g) /\ SameRows
    BY <1>1, <1>2 DEF ProveStep
  <1>4. g \in Slot
    BY DEF Slot, SessionStage
  <1>5. g.stage = "useStep" /\ g.device = h.device /\ g.row = h.row /\ g.pw = h.pw
    BY DEF Slot
  <1> HIDE DEF g
  <1> QED
    BY <1>1, <1>3, <1>4, <1>5, LoginNoted DEF LoginStages

LEMMA ProveRememberedStep ==
    ASSUME SessionInv, NEW r \in Req, NEW keep \in BOOLEAN, ProveRemembered(r, keep), load' = load
    PROVE  SessionInv'
  <1>1. PICK h \in Slot : h = req[r] /\ h.stage = "prove"
    BY DEF ProveRemembered, At, SessionInv, SessionTypeOK
  <1> DEFINE g == [h EXCEPT !.stage = "migrate", !.keep = keep]
  <1>2. Goto(r, g) /\ SameRows
    BY <1>1 DEF ProveRemembered
  <1>3. g \in Slot
    BY DEF Slot, SessionStage
  <1>4. g.stage = "migrate" /\ g.device = h.device /\ g.row = h.row /\ g.pw = h.pw
    BY DEF Slot
  <1> HIDE DEF g
  <1> QED
    BY <1>1, <1>2, <1>3, <1>4, LoginNoted DEF LoginStages

LEMMA ProveRecoveryStep ==
    ASSUME SessionInv, NEW r \in Req, ProveRecovery(r), load' = load
    PROVE  SessionInv'
  BY LoginQuery DEF ProveRecovery, At, LoginStages

LEMMA RefuseLoginStep ==
    ASSUME SessionInv, NEW r \in Req, RefuseLogin(r), load' = load
    PROVE  SessionInv'
  BY BusySole, QueryDone DEF RefuseLogin, At

\* A write of a login to the authenticator.
LEMMA LoginFactor ==
    ASSUME SessionInv, NEW r \in Req, req[r].stage \in LoginStages,
           NEW stage \in LoginStages \ {"findRequest", "prove"}, Go(r, stage), OnlyFactor, load' = load,
           factor' \in Factor \cup {None}, lastFactor' = lastFactor, spent' \subseteq Int,
           replayed' \in BOOLEAN
    PROVE  SessionInv'
  <1>1. PICK h \in Slot : h = req[r] /\ Sound(h)
    BY DEF SessionInv, SessionTypeOK, AllSound
  <1>2. Sole(r)
    BY BusySole DEF At, LoginStages
  <1> DEFINE g == [h EXCEPT !.stage = stage]
  <1>3. g \in Slot /\ Sound(g) /\ Goto(r, g)
    BY <1>1, LoginMoved DEF Go, Goto
  <1> HIDE DEF g
  <1>4. lastFactor' \in Nat
    BY DEF SessionInv, SessionTypeOK
  <1> QED
    BY <1>2, <1>3, <1>4, FactorStep

LEMMA UseStepStep ==
    ASSUME SessionInv, NEW r \in Req, UseStep(r), load' = load
    PROVE  SessionInv'
  <1>1. /\ req[r].stage = "useStep" /\ Go(r, "migrate") /\ OnlyFactor /\ lastFactor' = lastFactor
        /\ spent' = spent \cup {req[r].step} /\ replayed' \in BOOLEAN
    BY DEF UseStep, At, Spend, SessionInv, SessionTypeOK
  <1>2. req[r].step \in Int /\ spent \subseteq Int
    BY DEF SessionInv, SessionTypeOK, Slot
  <1>3. factor' \in Factor \cup {None}
    <2>1. CASE factor' = factor
      BY <2>1 DEF SessionInv, SessionTypeOK
    <2>2. CASE factor \in Factor /\ factor' = [factor EXCEPT !.last = req[r].step]
      BY <1>2, <2>2 DEF Factor
    <2> QED
      BY <2>1, <2>2 DEF UseStep, SessionInv, SessionTypeOK
  <1> QED
    BY <1>1, <1>2, <1>3, LoginFactor DEF LoginStages

LEMMA DropFactorsStep ==
    ASSUME SessionInv, NEW r \in Req, DropFactors(r), load' = load
    PROVE  SessionInv'
  <1>1. /\ req[r].stage = "dropFactors" /\ Go(r, "dropRecovery") /\ OnlyFactor
        /\ lastFactor' = lastFactor /\ spent' = {} /\ replayed' = replayed /\ factor' = None
    BY DEF DropFactors, At
  <1>2. replayed' \in BOOLEAN
    BY <1>1 DEF SessionInv, SessionTypeOK
  <1> QED
    BY <1>1, <1>2, LoginFactor DEF LoginStages

\* A write of the users row that keeps stamp, password and key, and its age or makes it new.
LEMMA UserEdit ==
    ASSUME SessionInv, NEW r \in Req, Sole(r), NEW h \in Slot, Sound(h), Goto(r, h), OnlyUser, SameStamp,
           load' = load, user \in User, user' \in User, user'.stamp = user.stamp,
           Settled => user'.pw = user.pw, user'.key = user.key, user.old = FALSE => user'.old = FALSE
    PROVE  SessionInv'
  <1>1. user # None /\ user' # None /\ lastStamp' = lastStamp /\ lastStamp \in Nat /\ asked' = asked
    BY SessionNullAssumption DEF SameStamp, SessionInv, SessionTypeOK, OnlyUser
  <1>2. Frame
    BY <1>1 DEF Frame
  <1>3. Sound(h)'
    BY <1>1, <1>2, SoundKept DEF SessionInv
  <1>4. user'.stamp \in 1..lastStamp'
    BY <1>1 DEF SessionInv, SessionTypeOK
  <1>5. "raise" \notin Asked.route => ~user'.old
    <2>1. user.old \in BOOLEAN
      BY DEF User
    <2> QED
      BY <1>1, <2>1 DEF SessionInv, Passwords
  <1>6. Settled => user'.pw = user'.key
    BY <1>1 DEF SessionInv, Passwords
  <1> QED
    BY <1>2, <1>3, <1>4, <1>5, <1>6, UserStep

LEMMA DropRecoveryStep ==
    ASSUME SessionInv, NEW r \in Req, DropRecovery(r), load' = load
    PROVE  SessionInv'
  <1>1. PICK h \in Slot : h = req[r] /\ h.stage = "dropRecovery" /\ Sound(h)
    BY DEF DropRecovery, At, SessionInv, SessionTypeOK, AllSound
  <1>2. Sole(r) /\ user \in User
    BY <1>1, BusySole DEF At, Sound, SessionInv, SessionTypeOK
  <1> DEFINE g == [h EXCEPT !.stage = "dropRemembers"]
  <1>3. g \in Slot /\ Sound(g) /\ Goto(r, g)
    BY <1>1, LoginMoved DEF LoginStages, DropRecovery, Go, Goto
  <1> HIDE DEF g
  <1>4. /\ user' \in User /\ user'.stamp = user.stamp /\ user'.pw = user.pw
        /\ user'.key = user.key /\ user'.old = user.old
    BY <1>2 DEF DropRecovery, User
  <1> QED
    BY <1>2, <1>3, <1>4, UserEdit DEF DropRecovery

LEMMA ForgottenTypes == ASSUME SessionTypeOK PROVE Forgotten \in [Device -> DeviceRow \cup {None}]
  <1>1. [remember |-> None] \in DeviceRow
    BY DEF DeviceRow
  <1> QED
    BY <1>1 DEF Forgotten

LEMMA DropRemembersStep ==
    ASSUME SessionInv, NEW r \in Req, DropRemembers(r), load' = load
    PROVE  SessionInv'
  <1>1. PICK h \in Slot : h = req[r] /\ h.stage = "dropRemembers" /\ Sound(h)
    BY DEF DropRemembers, At, SessionInv, SessionTypeOK, AllSound
  <1>2. Sole(r) /\ device' \in [Device -> DeviceRow \cup {None}] /\ session' = session /\ OnlyDevice
    BY <1>1, BusySole, ForgottenTypes DEF At, DropRemembers, SessionInv
  <1> DEFINE g == [h EXCEPT !.stage = "migrate"]
  <1>3. g \in Slot /\ Sound(g) /\ Goto(r, g)
    BY <1>1, LoginMoved DEF LoginStages, DropRemembers, Go, Goto
  <1> HIDE DEF g
  <1> QED
    BY <1>2, <1>3, DeviceStep

\* Without overlap a migration writes the password that is there; without a raise none is due.
LEMMA MigrateStep ==
    ASSUME SessionInv, NEW r \in Req, Migrate(r), load' = load
    PROVE  SessionInv'
  <1>1. PICK h \in Slot : h = req[r] /\ h.stage = "migrate" /\ Sound(h)
    BY DEF Migrate, At, SessionInv, SessionTypeOK, AllSound
  <1>2. Sole(r) /\ user \in User /\ user # None /\ SoundLogin(h)
    BY <1>1, BusySole DEF At, Sound, SessionInv, SessionTypeOK, LoginStages
  <1> DEFINE g == [h EXCEPT !.stage = "issue"]
  <1>3. g \in Slot /\ Sound(g) /\ Goto(r, g)
    BY <1>1, LoginMoved DEF LoginStages, Migrate, Go, Goto
  <1> HIDE DEF g
  <1>4. CASE user' = user
    BY <1>2, <1>3, <1>4, UserEdit DEF Migrate
  <1>5. CASE user' # user
    <2>1. h.pw # None /\ h.row.old /\ user' = [user EXCEPT !.pw = h.pw, !.old = FALSE]
      BY <1>1, <1>5 DEF Migrate
    <2>2. h.pw \in Password
      BY <2>1 DEF Slot
    <2>3. /\ user' \in User /\ user'.stamp = user.stamp /\ user'.pw = h.pw
          /\ user'.key = user.key /\ user'.old = FALSE
      BY <1>2, <2>1, <2>2 DEF User
    <2>4. Settled => user'.pw = user.pw
      BY <1>2, <2>1, <2>3 DEF Settled, SoundLogin, Vouched
    <2> QED
      BY <1>2, <1>3, <2>3, <2>4, UserEdit DEF Migrate
  <1> QED
    BY <1>4, <1>5

\* A session that is handed out.
LEMMA Opened ==
    ASSUME NEW d \in Device, NEW stamp \in 1..lastStamp, NEW pw \in Password \cup {None},
           lastStamp \in Nat, Vouched(stamp, pw)
    PROVE  LET s == [device |-> d, stamp |-> stamp, pw |-> pw] IN
           s \in Session /\ s.stamp \in 1..lastStamp /\ Vouched(s.stamp, s.pw)
  BY DEF Session

LEMMA IssueStep ==
    ASSUME SessionInv, NEW r \in Req, Issue(r), load' = load
    PROVE  SessionInv'
  <1>1. PICK h \in Slot : h = req[r] /\ h.stage = "issue" /\ Sound(h)
    BY DEF Issue, At, SessionInv, SessionTypeOK, AllSound
  <1>2. Sole(r) /\ SoundLogin(h) /\ Goto(r, Unused) /\ OnlyDevice /\ h.pw \in Password \cup {None}
    BY <1>1, BusySole DEF At, Sound, LoginStages, Issue, Done, Goto, Slot
  <1>3. device' \in [Device -> DeviceRow \cup {None}]
    <2>1. h.device \in Device /\ h.remember \in Nat \cup {None}
      BY <1>2 DEF SoundLogin, Slot
    <2>2. CASE device' = device
      BY <2>2 DEF SessionInv, SessionTypeOK
    <2>3. CASE device' # device
      <3>1. device[h.device] \in DeviceRow /\ device' = [device EXCEPT ![h.device].remember = h.remember]
        BY <1>1, <2>1, <2>3 DEF Issue, SessionInv, SessionTypeOK
      <3>2. [device[h.device] EXCEPT !.remember = h.remember] \in DeviceRow
        BY <2>1, <3>1 DEF DeviceRow
      <3> QED
        BY <3>1, <3>2 DEF SessionInv, SessionTypeOK
    <2> QED
      BY <2>2, <2>3
  <1>4. session' = session \cup {[device |-> h.device, stamp |-> h.row.stamp, pw |-> h.pw]}
    BY <1>1 DEF Issue
  <1>5. \A s \in session' : s \in session
           \/ (s \in Session /\ s.stamp \in 1..lastStamp /\ user # None /\ Vouched(s.stamp, s.pw))
    BY <1>1, <1>2, <1>4, Opened DEF Sound, SoundLogin, SessionInv, SessionTypeOK
  <1> QED
    BY <1>2, <1>3, <1>5, UnusedSound, DeviceStep

-----------------------------------------------------------------------------
\* The refresh grant

LEMMA StartRefreshStep ==
    ASSUME SessionInv, NEW r \in Req, NEW s \in session, StartRefresh(r, s), load' = load
    PROVE  SessionInv'
  <1>1. s \in Session /\ s.stamp \in 1..lastStamp /\ Vouched(s.stamp, s.pw) /\ user # None
    BY DEF SessionInv, SessionTypeOK, Passwords
  <1>2. PICK d \in Device, pw \in Password \cup {None}, stamp \in Int, u \in Slot :
           d = s.device /\ pw = s.pw /\ stamp = s.stamp /\ u = Unused
    BY <1>1, UnusedSound DEF Session
  <1> DEFINE h == [u EXCEPT !.stage = "refresh", !.device = d, !.pw = pw, !.step = stamp]
  <1>3. h.stage = "refresh" /\ h.device = d /\ h.pw = pw /\ h.step = stamp
    BY DEF Slot
  <1>4. h \in Slot
    BY DEF Slot, SessionStage
  <1>5. Begin(r, h) /\ SameRows
    BY <1>2 DEF StartRefresh
  <1> HIDE DEF h
  <1>6. Sound(h)
    BY <1>1, <1>2, <1>3 DEF Sound, LoginStages
  <1> QED
    BY <1>4, <1>5, <1>6, BeginStep

LEMMA RefreshStep ==
    ASSUME SessionInv, NEW r \in Req, Refresh(r), load' = load
    PROVE  SessionInv'
  <1>1. PICK h \in Slot : h = req[r] /\ h.stage = "refresh" /\ Sound(h)
    BY DEF Refresh, At, SessionInv, SessionTypeOK, AllSound
  <1>2. /\ Sole(r) /\ Goto(r, Unused) /\ OnlyDevice /\ h.pw \in Password \cup {None} /\ device' = device
        /\ h.device \in Device /\ h.step \in 1..lastStamp /\ Vouched(h.step, h.pw) /\ user # None
    BY <1>1, BusySole DEF At, Sound, Refresh, Done, Goto, Slot
  <1>3. \A s \in session' : s \in session \/ s = [device |-> h.device, stamp |-> h.step, pw |-> h.pw]
    BY <1>1 DEF Refresh
  <1>4. \A s \in session' : s \in session
           \/ (s \in Session /\ s.stamp \in 1..lastStamp /\ user # None /\ Vouched(s.stamp, s.pw))
    BY <1>2, <1>3, Opened DEF SessionInv, SessionTypeOK
  <1> QED
    BY <1>2, <1>4, UnusedSound, DeviceStep DEF SessionInv, SessionTypeOK

-----------------------------------------------------------------------------
\* Handlers behind a session

\* The stages at which a handler needs nothing but the account.
PlainStages ==
    {"dropDevices", "rotate", "enrol", "dropOld", "forgetOld", "insertFactor", "readRecovery",
     "setRecovery", "disable", "disableKey", "dropKey", "forget", "remaining", "clearRecovery"}

LEMMA PlainMoved ==
    ASSUME NEW h \in Slot, user # None, NEW stage \in PlainStages
    PROVE  [h EXCEPT !.stage = stage] \in Slot /\ Sound([h EXCEPT !.stage = stage])
  <1>1. stage \in SessionStage
    BY DEF PlainStages, SessionStage
  <1> DEFINE g == [h EXCEPT !.stage = stage]
  <1>2. g \in Slot /\ g.stage = stage
    BY <1>1, Moved
  <1> HIDE DEF g
  <1>3. Sound(g)
    BY <1>2 DEF Sound, PlainStages, LoginStages
  <1> QED
    BY <1>2, <1>3 DEF g

\* What is known of a handler in flight but at registration.
LEMMA Holding ==
    ASSUME SessionInv, NEW r \in Req, req[r].stage \notin {"idle", "register"}
    PROVE  Sole(r) /\ user # None /\ user \in User /\ \E h \in Slot : h = req[r] /\ Sound(h)
  BY BusySole DEF SessionInv, SessionTypeOK, AllSound, Sound, At

LEMMA PlainGo ==
    ASSUME SessionInv, NEW r \in Req, req[r].stage \notin {"idle", "register"},
           NEW stage \in PlainStages, Go(r, stage)
    PROVE  \E g \in Slot : Sound(g) /\ Goto(r, g)
  <1>1. PICK h \in Slot : h = req[r] /\ user # None
    BY Holding
  <1> DEFINE g == [h EXCEPT !.stage = stage]
  <1>2. g \in Slot /\ Sound(g) /\ Goto(r, g)
    BY <1>1, PlainMoved DEF Go, Goto
  <1> HIDE DEF g
  <1> QED
    BY <1>2

LEMMA DoneGoes == ASSUME NEW r \in Req, Done(r) PROVE \E g \in Slot : Sound(g) /\ Sound(g)' /\ Goto(r, g)
  BY UnusedSound DEF Done, Goto

\* A query that writes nothing and after which a handler is done or goes on.
LEMMA PlainQuery ==
    ASSUME SessionInv, NEW r \in Req, req[r].stage \notin {"idle", "register"},
           Done(r) \/ \E stage \in PlainStages : Go(r, stage), SameRows, load' = load
    PROVE  SessionInv'
  <1>1. PICK g \in Slot : Sound(g) /\ Goto(r, g)
    BY PlainGo, DoneGoes
  <1> QED
    BY <1>1, Holding, QueryStep

LEMMA PlainFactor ==
    ASSUME SessionInv, NEW r \in Req, req[r].stage \notin {"idle", "register"},
           Done(r) \/ \E stage \in PlainStages : Go(r, stage), OnlyFactor, load' = load,
           factor' \in Factor \cup {None}, lastFactor' \in Nat, spent' \subseteq Int,
           replayed' \in BOOLEAN
    PROVE  SessionInv'
  <1>1. PICK g \in Slot : Sound(g) /\ Goto(r, g)
    BY PlainGo, DoneGoes
  <1> QED
    BY <1>1, Holding, FactorStep

LEMMA PlainDevice ==
    ASSUME SessionInv, NEW r \in Req, req[r].stage \notin {"idle", "register"},
           Done(r) \/ \E stage \in PlainStages : Go(r, stage), OnlyDevice, load' = load,
           device' \in [Device -> DeviceRow \cup {None}], session' = session
    PROVE  SessionInv'
  <1>1. PICK g \in Slot : Sound(g) /\ Goto(r, g)
    BY PlainGo, DoneGoes
  <1> QED
    BY <1>1, Holding, DeviceStep

LEMMA StartProtectedStep ==
    ASSUME SessionInv, NEW r \in Req, NEW goal \in Goals \ {"approve"}, NEW p \in Password,
           NEW q \in Password \cup {None}, NEW n \in Int, goal = "change" => q \in Password,
           StartProtected(r, goal, p, q, n), load' = load
    PROVE  SessionInv'
  <1>1. PICK u \in Slot : u = Unused
    BY UnusedSound
  <1>2. goal \in SessionStage /\ "verify" \in SessionStage
    BY DEF Goals, SessionStage
  <1> DEFINE h == [u EXCEPT !.stage = "verify", !.goal = goal, !.pw = p, !.new = q, !.step = n]
  <1>3. h.stage = "verify" /\ h.goal = goal /\ h.new = q
    BY DEF Slot
  <1>4. h \in Slot
    BY <1>2 DEF Slot
  <1>5. Begin(r, h) /\ SameRows /\ user # None
    BY <1>1 DEF StartProtected, SignedIn, Live
  <1> HIDE DEF h
  <1>6. Sound(h)
    BY <1>3, <1>5 DEF Sound, LoginStages
  <1> QED
    BY <1>4, <1>5, <1>6, BeginStep

LEMMA VerifyStep ==
    ASSUME SessionInv, NEW r \in Req, Verify(r), load' = load
    PROVE  SessionInv'
  <1>1. PICK h \in Slot : h = req[r] /\ h.stage = "verify" /\ Sound(h)
    BY DEF Verify, At, SessionInv, SessionTypeOK, AllSound
  <1>2. Sole(r) /\ user # None /\ SameRows /\ h.goal \in Goals
    BY <1>1, BusySole DEF At, Sound, Verify
  <1>3. CASE Done(r)
    BY <1>2, <1>3, QueryDone
  <1>4. CASE ~Done(r)
    <2>1. h.goal \in SessionStage
      BY <1>2 DEF Goals, SessionStage
    <2> DEFINE g == [h EXCEPT !.stage = h.goal]
    <2>2. Goto(r, g)
      BY <1>1, <1>4 DEF Verify, Go, Goto
    <2>3. g \in Slot /\ g.stage = h.goal /\ g.new = h.new /\ g.ask = h.ask
      BY <2>1, Moved
    <2> HIDE DEF g
    <2>4. Sound(g)
      BY <1>1, <1>2, <2>3 DEF Sound, LoginStages, Goals
    <2> QED
      BY <1>2, <2>2, <2>3, <2>4, QueryStep
  <1> QED
    BY <1>3, <1>4

\* A fresh stamp: no token and no login in flight has it.
LEMMA StampStep ==
    ASSUME SessionInv, NEW r \in Req, req[r].stage \notin {"idle", "register"}, Done(r), OnlyUser,
           NewStamp, load' = load, NEW row \in User, user' = Stamp(row), row.old = FALSE \/ row = user,
           Settled => row.pw = row.key
    PROVE  SessionInv'
  <1>1. lastStamp \in Nat /\ lastStamp' = lastStamp + 1
    BY DEF SessionInv, SessionTypeOK, NewStamp
  <1>2. /\ user' \in User /\ user'.stamp = lastStamp + 1 /\ user'.pw = row.pw /\ user'.key = row.key
        /\ user'.old = row.old
    BY <1>1 DEF Stamp, User
  <1>3. user' # None /\ user # None
    BY <1>2, Holding, SessionNullAssumption
  <1>4. Frame
    BY <1>1, <1>2, <1>3 DEF Frame, OnlyUser
  <1>5. "raise" \notin Asked.route => ~user'.old
    BY <1>2, <1>3 DEF SessionInv, Passwords
  <1>6. user'.stamp \in 1..lastStamp'
    BY <1>1, <1>2
  <1> QED
    BY <1>2, <1>4, <1>5, <1>6, Holding, UnusedSound, UserStep DEF Done, Goto

LEMMA ChangePasswordStep ==
    ASSUME SessionInv, NEW r \in Req, ChangePassword(r), load' = load
    PROVE  SessionInv'
  <1>1. PICK h \in Slot : h = req[r] /\ h.stage = "change" /\ Sound(h)
    BY DEF ChangePassword, At, SessionInv, SessionTypeOK, AllSound
  <1>2. h.new \in Password /\ user \in User
    BY <1>1, Holding DEF Sound
  <1>3. PICK row : row = [user EXCEPT !.pw = h.new, !.key = h.new, !.old = FALSE]
    OBVIOUS
  <1>4. row \in User /\ row.old = FALSE /\ row.pw = row.key
    BY <1>2, <1>3 DEF User
  <1>5. user' = Stamp(row)
    BY <1>1, <1>3 DEF ChangePassword
  <1> QED
    BY <1>1, <1>4, <1>5, StampStep DEF ChangePassword

LEMMA DropDevicesStep ==
    ASSUME SessionInv, NEW r \in Req, DropDevices(r), load' = load
    PROVE  SessionInv'
  <1>1. req[r].stage = "dropDevices" /\ "rotate" \in PlainStages /\ Go(r, "rotate")
    BY DEF DropDevices, At, PlainStages
  <1>2. device' \in [Device -> DeviceRow \cup {None}]
    BY DEF DropDevices
  <1> QED
    BY <1>1, <1>2, PlainDevice DEF DropDevices

LEMMA RotateStampStep ==
    ASSUME SessionInv, NEW r \in Req, RotateStamp(r), load' = load
    PROVE  SessionInv'
  <1>1. req[r].stage = "rotate" /\ user' = Stamp(user)
    BY DEF RotateStamp, At
  <1>2. PICK row \in User : row = user /\ user # None
    BY <1>1, Holding
  <1>3. Settled => row.pw = row.key
    BY <1>2 DEF SessionInv, Passwords
  <1> QED
    BY <1>1, <1>2, <1>3, StampStep DEF RotateStamp

LEMMA ReadEnrolledStep ==
    ASSUME SessionInv, NEW r \in Req, ReadEnrolled(r), load' = load
    PROVE  SessionInv'
  <1>1. req[r].stage = "enrol" /\ "dropOld" \in PlainStages
    BY DEF ReadEnrolled, At, PlainStages
  <1>2. factor' \in Factor \cup {None} /\ lastFactor' \in Nat /\ replayed' \in BOOLEAN /\ spent' \subseteq Int
    BY DEF ReadEnrolled, SessionInv, SessionTypeOK
  <1> QED
    BY <1>1, <1>2, PlainFactor DEF ReadEnrolled

LEMMA DropOldFactorStep ==
    ASSUME SessionInv, NEW r \in Req, DropOldFactor(r), load' = load
    PROVE  SessionInv'
  <1>1. req[r].stage = "dropOld" /\ "forgetOld" \in PlainStages
    BY DEF DropOldFactor, At, PlainStages
  <1>2. factor' \in Factor \cup {None} /\ lastFactor' \in Nat /\ replayed' \in BOOLEAN /\ spent' \subseteq Int
    BY DEF DropOldFactor, codes, SessionInv, SessionTypeOK
  <1> QED
    BY <1>1, <1>2, PlainFactor DEF DropOldFactor

LEMMA ForgetDevicesStep ==
    ASSUME SessionInv, NEW r \in Req, ForgetDevices(r), load' = load
    PROVE  SessionInv'
  <1>1. req[r].stage \notin {"idle", "register"} /\ "insertFactor" \in PlainStages /\ "remaining" \in PlainStages
    BY DEF ForgetDevices, PlainStages
  <1>2. device' \in [Device -> DeviceRow \cup {None}]
    BY ForgottenTypes DEF ForgetDevices, SessionInv
  <1>3. \E stage \in PlainStages : Go(r, stage)
    BY <1>1 DEF ForgetDevices
  <1> QED
    BY <1>1, <1>2, <1>3, PlainDevice DEF ForgetDevices

LEMMA InsertFactorStep ==
    ASSUME SessionInv, NEW r \in Req, InsertFactor(r), load' = load
    PROVE  SessionInv'
  <1>1. req[r].stage = "insertFactor" /\ "readRecovery" \in PlainStages /\ OnlyFactor
    BY DEF InsertFactor, At, PlainStages
  <1>2. Done(r) \/ \E stage \in PlainStages : Go(r, stage)
    BY <1>1 DEF InsertFactor
  <1>3. req[r].step \in Int /\ lastFactor \in Nat /\ spent \subseteq Int /\ replayed \in BOOLEAN
    BY DEF SessionInv, SessionTypeOK, Slot
  <1>4. [uuid |-> lastFactor + 1, last |-> req[r].step] \in Factor
    BY <1>3 DEF Factor
  <1>5. /\ factor' = factor \/ factor' = [uuid |-> lastFactor + 1, last |-> req[r].step]
        /\ lastFactor' = lastFactor \/ lastFactor' = lastFactor + 1
        /\ spent' = spent \/ spent' = spent \cup {req[r].step}
    BY DEF InsertFactor, Spend, codes
  <1>6. replayed' \in BOOLEAN
    <2>1. replayed' = replayed \/ replayed' = (replayed \/ req[r].step \in spent)
      BY Zenon DEF InsertFactor, Spend, codes
    <2> QED
      BY <1>3, <2>1, Zenon
  <1>7. factor' \in Factor \cup {None}
    <2>1. factor \in Factor \cup {None}
      BY DEF SessionInv, SessionTypeOK
    <2> PICK new : new = [uuid |-> lastFactor + 1, last |-> req[r].step]
      OBVIOUS
    <2>2. new \in Factor /\ (factor' = factor \/ factor' = new)
      BY <1>4, <1>5
    <2> QED
      BY <2>1, <2>2
  <1>8. lastFactor' \in Nat
    <2>1. lastFactor' = lastFactor \/ lastFactor' = lastFactor + 1
      BY <1>5
    <2> QED
      BY <1>3, <2>1
  <1>9. spent' \subseteq Int
    <2>1. spent' = spent \/ spent' = spent \cup {req[r].step}
      BY <1>5
    <2> QED
      BY <1>3, <2>1
  <1> QED
    BY <1>1, <1>2, <1>6, <1>7, <1>8, <1>9, PlainFactor

LEMMA ReadRecoveryStep ==
    ASSUME SessionInv, NEW r \in Req, ReadRecovery(r), load' = load
    PROVE  SessionInv'
  BY PlainQuery DEF ReadRecovery, At, PlainStages

LEMMA RecoverEdit ==
    ASSUME SessionInv, NEW r \in Req, req[r].stage \notin {"idle", "register"}, Done(r), OnlyUser, SameStamp,
           load' = load, NEW b \in BOOLEAN, user' = [user EXCEPT !.recover = b]
    PROVE  SessionInv'
  <1>1. Sole(r) /\ user \in User
    BY Holding
  <1>2. /\ user' \in User /\ user'.stamp = user.stamp /\ user'.pw = user.pw /\ user'.key = user.key
        /\ user'.old = user.old
    BY <1>1 DEF User
  <1> QED
    BY <1>1, <1>2, UnusedSound, UserEdit DEF Done, Goto

LEMMA SetRecoveryStep ==
    ASSUME SessionInv, NEW r \in Req, SetRecovery(r), load' = load
    PROVE  SessionInv'
  BY RecoverEdit DEF SetRecovery, At

LEMMA DisableFactorStep ==
    ASSUME SessionInv, NEW r \in Req, DisableFactor(r), load' = load
    PROVE  SessionInv'
  <1>1. req[r].stage = "disable" /\ "forget" \in PlainStages
    BY DEF DisableFactor, At, PlainStages
  <1>2. factor' \in Factor \cup {None} /\ lastFactor' \in Nat /\ replayed' \in BOOLEAN /\ spent' \subseteq Int
    BY DEF DisableFactor, SessionInv, SessionTypeOK
  <1> QED
    BY <1>1, <1>2, PlainFactor DEF DisableFactor

LEMMA ReadDisabledStep ==
    ASSUME SessionInv, NEW r \in Req, ReadDisabled(r), load' = load
    PROVE  SessionInv'
  <1>1. req[r].stage = "disableKey" /\ SameRows
    BY DEF ReadDisabled, At
  <1>2. CASE factor = None
    BY <1>1, <1>2, PlainQuery DEF ReadDisabled
  <1>3. CASE factor # None
    <2>1. PICK h \in Slot, f \in Factor : h = req[r] /\ f = factor /\ user # None
      BY <1>1, <1>3, Holding DEF SessionInv, SessionTypeOK
    <2> DEFINE g == [h EXCEPT !.stage = "dropKey", !.factor = f]
    <2>2. Goto(r, g)
      BY <1>3, <2>1 DEF ReadDisabled
    <2>3. g \in Slot
      BY DEF Slot, SessionStage
    <2>4. g.stage = "dropKey"
      BY DEF Slot
    <2> HIDE DEF g
    <2>5. Sound(g)
      BY <2>1, <2>4 DEF Sound, LoginStages
    <2> QED
      BY <1>1, <2>2, <2>3, <2>5, Holding, QueryStep
  <1> QED
    BY <1>2, <1>3

LEMMA DropDisabledStep ==
    ASSUME SessionInv, NEW r \in Req, DropDisabled(r), load' = load
    PROVE  SessionInv'
  <1>1. req[r].stage = "dropKey" /\ "forget" \in PlainStages
    BY DEF DropDisabled, At, PlainStages
  <1>2. factor' \in Factor \cup {None} /\ lastFactor' \in Nat /\ replayed' \in BOOLEAN /\ spent' \subseteq Int
    BY DEF DropDisabled, SessionInv, SessionTypeOK
  <1> QED
    BY <1>1, <1>2, PlainFactor DEF DropDisabled

LEMMA ReadRemainingStep ==
    ASSUME SessionInv, NEW r \in Req, ReadRemaining(r), load' = load
    PROVE  SessionInv'
  BY PlainQuery DEF ReadRemaining, At, PlainStages

LEMMA ClearRecoveryStep ==
    ASSUME SessionInv, NEW r \in Req, ClearRecovery(r), load' = load
    PROVE  SessionInv'
  BY RecoverEdit DEF ClearRecovery, At

-----------------------------------------------------------------------------
\* Auth requests

LEMMA StartRequestStep ==
    ASSUME SessionInv, NEW r \in Req, NEW d \in Device, NEW a \in AuthRequest, StartRequest(r, d, a),
           load' = load
    PROVE  SessionInv'
  <1>1. PICK u \in Slot : u = Unused
    BY UnusedSound
  <1> DEFINE h == [u EXCEPT !.stage = "insertRequest", !.device = d, !.ask = a]
  <1>2. h.stage = "insertRequest" /\ h.device = d /\ h.ask = a
    BY DEF Slot
  <1>3. h \in Slot
    BY DEF Slot, SessionStage
  <1>4. Begin(r, h) /\ SameRows /\ user # None
    BY <1>1 DEF StartRequest
  <1> HIDE DEF h
  <1>5. Sound(h)
    BY <1>2, <1>4 DEF Sound, LoginStages
  <1> QED
    BY <1>3, <1>4, <1>5, BeginStep

LEMMA InsertRequestStep ==
    ASSUME SessionInv, NEW r \in Req, InsertRequest(r), load' = load
    PROVE  SessionInv'
  <1>1. PICK h \in Slot : h = req[r] /\ h.stage = "insertRequest" /\ Sound(h)
    BY DEF InsertRequest, At, SessionInv, SessionTypeOK, AllSound
  <1>2. h.device \in Device /\ h.ask \in AuthRequest /\ Sole(r)
    BY <1>1, Holding DEF Sound
  <1>3. [device |-> h.device, approved |-> FALSE, created |-> now] \in RequestRow
    BY <1>2 DEF RequestRow, SessionInv, SessionTypeOK
  <1>4. request' \in [AuthRequest -> RequestRow \cup {None}]
    BY <1>1, <1>2, <1>3 DEF InsertRequest, SessionInv, SessionTypeOK
  <1>5. \A a \in rejected' : a \in asked' /\ request'[a] = None
    BY <1>1, <1>2 DEF InsertRequest, SessionInv, SessionTypeOK, RejectedGone
  <1>6. asked \subseteq asked' /\ asked' \subseteq AuthRequest
    BY <1>1, <1>2 DEF InsertRequest, SessionInv, SessionTypeOK
  <1> QED
    BY <1>2, <1>4, <1>5, <1>6, UnusedSound, RequestStep DEF InsertRequest, Done, Goto

LEMMA StartAnswerStep ==
    ASSUME SessionInv, NEW r \in Req, NEW a \in AuthRequest, NEW goal \in {"approve", "reject"},
           NEW p \in Password, StartAnswer(r, a, goal, p), load' = load
    PROVE  SessionInv'
  <1>1. PICK u \in Slot : u = Unused
    BY UnusedSound
  <1>2. goal \in SessionStage /\ "answer" \in SessionStage
    BY DEF SessionStage
  <1> DEFINE h == [u EXCEPT !.stage = "answer", !.goal = goal, !.ask = a, !.pw = p]
  <1>3. h.stage = "answer" /\ h.ask = a
    BY DEF Slot
  <1>4. h \in Slot
    BY <1>2 DEF Slot
  <1>5. Begin(r, h) /\ SameRows /\ user # None /\ a \in asked
    BY <1>1 DEF StartAnswer, SignedIn, Live
  <1> HIDE DEF h
  <1>6. Sound(h)
    BY <1>3, <1>5 DEF Sound, LoginStages
  <1> QED
    BY <1>4, <1>5, <1>6, BeginStep

LEMMA AnswerStep ==
    ASSUME SessionInv, NEW r \in Req, Answer(r), load' = load
    PROVE  SessionInv'
  <1>1. PICK h \in Slot : h = req[r] /\ h.stage = "answer" /\ Sound(h)
    BY DEF Answer, At, SessionInv, SessionTypeOK, AllSound
  <1>2. Sole(r) /\ user # None /\ SameRows /\ h.ask \in asked
    BY <1>1, Holding DEF Sound, Answer
  <1>3. CASE Done(r)
    BY <1>2, <1>3, QueryDone
  <1>4. CASE ~Done(r)
    <2>1. PICK stage \in {"verify", "reject"} : Go(r, stage) /\ (stage = "verify" => h.goal = "approve")
      BY <1>1, <1>4 DEF Answer
    <2>2. stage \in SessionStage
      BY DEF SessionStage
    <2> DEFINE g == [h EXCEPT !.stage = stage]
    <2>3. Goto(r, g)
      BY <1>1, <2>1 DEF Go, Goto
    <2>4. g \in Slot /\ g.stage = stage /\ g.goal = h.goal /\ g.ask = h.ask
      BY <2>2, Moved
    <2> HIDE DEF g
    <2>5. Sound(g)
      BY <1>2, <2>1, <2>4 DEF Sound, LoginStages, Goals
    <2> QED
      BY <1>2, <2>3, <2>4, <2>5, QueryStep
  <1> QED
    BY <1>3, <1>4

LEMMA ApproveStep ==
    ASSUME SessionInv, NEW r \in Req, Approve(r), load' = load
    PROVE  SessionInv'
  <1>1. req[r].stage = "approve" /\ Sole(r) /\ asked' = asked /\ rejected' = rejected
    BY Holding DEF Approve, At
  <1>2. \A row \in RequestRow : [row EXCEPT !.approved = TRUE] \in RequestRow
    BY DEF RequestRow
  <1>3. request' \in [AuthRequest -> RequestRow \cup {None}]
    BY <1>2 DEF Approve, SessionInv, SessionTypeOK
  <1>4. \A a \in AuthRequest : request[a] = None => request'[a] = None
    BY DEF Approve, SessionInv, SessionTypeOK
  <1>5. \A a \in rejected' : a \in asked' /\ request'[a] = None
    BY <1>1, <1>4 DEF SessionInv, SessionTypeOK, RejectedGone
  <1> QED
    BY <1>1, <1>3, <1>5, UnusedSound, RequestStep DEF Approve, Done, Goto, SessionInv, SessionTypeOK

LEMMA RejectStep ==
    ASSUME SessionInv, NEW r \in Req, Reject(r), load' = load
    PROVE  SessionInv'
  <1>1. PICK h \in Slot : h = req[r] /\ h.stage = "reject" /\ Sound(h)
    BY DEF Reject, At, SessionInv, SessionTypeOK, AllSound
  <1>2. h.ask \in asked /\ Sole(r) /\ asked' = asked /\ asked \subseteq AuthRequest
    BY <1>1, Holding DEF Sound, Reject, SessionInv, SessionTypeOK
  <1>3. request' = [request EXCEPT ![h.ask] = None] /\ rejected' = rejected \cup {h.ask}
    BY <1>1 DEF Reject
  <1>4. request' \in [AuthRequest -> RequestRow \cup {None}]
    BY <1>2, <1>3 DEF SessionInv, SessionTypeOK
  <1>5. \A a \in rejected' : a \in asked' /\ request'[a] = None
    BY <1>2, <1>3 DEF SessionInv, SessionTypeOK, RejectedGone
  <1> QED
    BY <1>2, <1>4, <1>5, UnusedSound, RequestStep DEF Reject, Done, Goto

LEMMA PurgeRequestsStep ==
    ASSUME SessionInv, PurgeRequests, load' = load
    PROVE  SessionInv'
  <1>1. /\ user' = user /\ lastStamp' = lastStamp /\ session' = session /\ req' = req /\ asked' = asked
        /\ rejected' = rejected
    BY DEF PurgeRequests, OnlyRequest
  <1>2. \A a \in AuthRequest : request'[a] = request[a] \/ request'[a] = None
    BY DEF PurgeRequests
  <1>3. request' \in [AuthRequest -> RequestRow \cup {None}]
    BY DEF PurgeRequests, SessionInv, SessionTypeOK
  <1>4. SessionTypeOK'
    BY <1>1, <1>3 DEF SessionInv, SessionTypeOK, PurgeRequests, OnlyRequest, codes
  <1>5. AllSound' /\ AtMostOne' /\ Passwords'
    BY <1>1 DEF SessionInv, AllSound, Sound, SoundLogin, Passwords, Vouched, Settled, OneAtATime, Asked,
       AtMostOne, Sole, At
  <1>6. RejectedGone'
    BY <1>1, <1>2 DEF SessionInv, SessionTypeOK, RejectedGone
  <1> QED
    BY <1>4, <1>5, <1>6 DEF SessionInv

-----------------------------------------------------------------------------
\* Every step

LEMMA CrashStep ==
    ASSUME SessionInv, NEW r \in Req, Crash(r), load' = load
    PROVE  SessionInv'
  <1>1. /\ user' = user /\ lastStamp' = lastStamp /\ asked' = asked /\ session' = session
        /\ rejected' = rejected /\ request' = request
    BY DEF Crash, drawn, requests
  <1>2. Frame
    BY <1>1 DEF Frame, SessionInv, SessionTypeOK
  <1>3. req' \in [Req -> Slot] /\ AllSound' /\ AtMostOne'
    BY <1>2, UnusedSound, BusySole, SlotStep DEF Crash, Done, Goto
  <1>4. SessionTypeOK'
    BY <1>1, <1>3 DEF SessionInv, SessionTypeOK, Crash, drawn, requests, codes
  <1>5. Passwords' /\ RejectedGone'
    BY <1>1 DEF SessionInv, Passwords, Vouched, Settled, OneAtATime, Asked, RejectedGone
  <1> QED
    BY <1>3, <1>4, <1>5 DEF SessionInv

\* A step after which all that SessionInv reads but the clock is as it was.
LEMMA QuietStep ==
    ASSUME SessionInv, now' \in Nat,
           UNCHANGED <<load, user, factor, device, request, session, req, lastStamp, lastFactor, asked,
                       rejected, spent, replayed, cut>>
    PROVE  SessionInv'
  <1>1. SessionTypeOK'
    BY DEF SessionInv, SessionTypeOK
  <1>2. AllSound' /\ AtMostOne' /\ Passwords' /\ RejectedGone'
    BY DEF SessionInv, AllSound, Sound, SoundLogin, Passwords, Vouched, Settled, OneAtATime, Asked,
       AtMostOne, Sole, At, RejectedGone
  <1> QED
    BY <1>1, <1>2 DEF SessionInv

LEMMA BeginProtectedStep ==
    ASSUME SessionInv, NEW r \in Req, NEW p \in Password, BeginProtected(r, p), load' = load
    PROVE  SessionInv'
  <1>1. {"change", "dropDevices", "enrol", "disable", "disableKey"} \subseteq Goals \ {"approve"}
    BY DEF Goals
  <1>2. (now - Drift)..(now + Drift) \subseteq Int /\ 0 \in Int
    OBVIOUS
  <1>3. CASE \E q \in Password : StartProtected(r, "change", p, q, 0)
    BY <1>1, <1>2, <1>3, StartProtectedStep
  <1>4. CASE StartProtected(r, "dropDevices", p, None, 0)
    BY <1>1, <1>2, <1>4, StartProtectedStep
  <1>5. CASE \E n \in (now - Drift)..(now + Drift) : StartProtected(r, "enrol", p, None, n)
    BY <1>1, <1>2, <1>5, StartProtectedStep
  <1>6. CASE \E goal \in {"disable", "disableKey"} : StartProtected(r, goal, p, None, 0)
    BY <1>1, <1>2, <1>6, StartProtectedStep
  <1>7. CASE \E a \in AuthRequest, goal \in {"approve", "reject"} : StartAnswer(r, a, goal, p)
    BY <1>7, StartAnswerStep
  <1> QED
    BY <1>3, <1>4, <1>5, <1>6, <1>7 DEF BeginProtected

LEMMA LogInKept ==
    ASSUME SessionInv, NEW r \in Req, LogInStep(r), load' = load
    PROVE  SessionInv'
  BY FindRequestStep, FindDeviceStep, InsertDeviceStep, ListFactorsStep, ProveStepStep, UseStepStep,
     ProveRememberedStep, ProveRecoveryStep, DropFactorsStep, DropRecoveryStep, DropRemembersStep,
     RefuseLoginStep, MigrateStep, IssueStep
  DEF LogInStep

LEMMA SessionStep ==
    ASSUME SessionInv, [SessionNext]_sessionVars
    PROVE  SessionInv'
  <1>1. ASSUME NEW r \in Req, BeginAny(r), load' = load
        PROVE  SessionInv'
    BY <1>1, StartRegisterStep, StartLoginStep, BeginProtectedStep, StartLoginByRequestStep,
       StartRequestStep, StartRefreshStep
    DEF BeginAny
  <1>2. ASSUME NEW r \in Req, Continue(r), load' = load
        PROVE  SessionInv'
    BY <1>2, StoreRegistrationStep, LogInKept, RefreshStep, VerifyStep, ChangePasswordStep,
       DropDevicesStep, RotateStampStep, ReadEnrolledStep, DropOldFactorStep, ForgetDevicesStep,
       InsertFactorStep, ReadRecoveryStep, SetRecoveryStep, DisableFactorStep, ReadDisabledStep,
       DropDisabledStep, ReadRemainingStep, ClearRecoveryStep, InsertRequestStep, AnswerStep,
       ApproveStep, RejectStep, CrashStep
    DEF Continue
  <1>3. ASSUME Tick, load' = load
        PROVE  SessionInv'
    <2>1. now' \in Nat
      BY <1>3 DEF Tick, SessionInv, SessionTypeOK
    <2> QED
      BY <1>3, <2>1, QuietStep DEF Tick, requests, drawn, codes
  <1>4. ASSUME UNCHANGED sessionVars
        PROVE  SessionInv'
    <2>1. now' \in Nat
      BY <1>4 DEF sessionVars, SessionInv, SessionTypeOK
    <2> QED
      BY <1>4, <2>1, QuietStep DEF sessionVars
  <1> QED
    BY <1>1, <1>2, <1>3, <1>4, InviteStep, RaiseStep, PurgeRequestsStep DEF SessionNext

LEMMA SessionStart == SessionInit => SessionInv
  <1> SUFFICES ASSUME SessionInit PROVE SessionInv
    OBVIOUS
  <1>1. SessionTypeOK
    BY UnusedSound DEF SessionInit, SessionTypeOK
  <1>2. AllSound
    BY UnusedSound DEF SessionInit, AllSound
  <1>3. AtMostOne /\ Passwords /\ RejectedGone
    BY DEF SessionInit, AtMostOne, At, Unused, Passwords, RejectedGone
  <1> QED
    BY <1>1, <1>2, <1>3 DEF SessionInv

-----------------------------------------------------------------------------
\* Whatever is asked, and wherever handlers are cut short, rows, slots and sessions keep
\* their types, and no stamp is used that has not been drawn.
THEOREM SessionTypeCorrect == SessionSpec => []SessionTypeOK
  <1>1. SessionInv => SessionTypeOK
    BY DEF SessionInv
  <1> QED
    BY <1>1, SessionStart, SessionStep, PTL DEF SessionSpec

\* A usable session that a password opened proves the password of the account, with which
\* its key can be decrypted, however logins, refreshes and changes interleave.
THEOREM PasswordProved == SessionSpec => []SessionsProvePassword
  <1>1. SessionInv => SessionsProvePassword
    BY DEF SessionInv, Passwords, SessionsProvePassword, Vouched, Live
  <1> QED
    BY <1>1, SessionStart, SessionStep, PTL DEF SessionSpec

\* A step of a handler changes no slot but its own.
LEMMA OwnSlot ==
    ASSUME SessionTypeOK, NEW r \in Req, BeginAny(r) \/ Continue(r), NEW s \in Req, s # r
    PROVE  req'[s] = req[s]
  <1>1. req \in [Req -> Slot]
    BY DEF SessionTypeOK
  <1>2. CASE \E h : req' = [req EXCEPT ![r] = h]
    BY <1>1, <1>2
  <1>3. BeginAny(r) => \E h : req' = [req EXCEPT ![r] = h]
    BY DEF BeginAny, BeginProtected, StartRegister, StartLogin, StartProtected, StartAnswer,
           StartLoginByRequest, StartRequest, StartRefresh, Begin
  <1>4. LogInStep(r) => \E h : req' = [req EXCEPT ![r] = h]
    BY DEF LogInStep, FindRequest, FindDevice, InsertDevice, ListFactors, ProveStep, UseStep,
           ProveRemembered, ProveRecovery, DropFactors, DropRecovery, DropRemembers, RefuseLogin,
           Migrate, Issue, Go, Goto, Done
  <1>5. Continue(r) /\ ~LogInStep(r) => \E h : req' = [req EXCEPT ![r] = h]
    BY DEF Continue, StoreRegistration, Refresh, Verify, ChangePassword, DropDevices, RotateStamp,
           ReadEnrolled, DropOldFactor, ForgetDevices, InsertFactor, ReadRecovery, SetRecovery,
           DisableFactor, ReadDisabled, DropDisabled, ReadRemaining, ClearRecovery, InsertRequest,
           Answer, Approve, Reject, Crash, Go, Goto, Done
  <1> QED
    BY <1>2, <1>3, <1>4, <1>5

\* The only way from the request to the device is to find the request.
LEMMA OnlyFindRequest ==
    ASSUME SessionTypeOK, [SessionNext]_sessionVars, NEW r \in Req, At(r, "findRequest"),
           At(r, "findDevice")'
    PROVE  FindRequest(r)
  <1>1. req'[r] # req[r]
    BY DEF At
  <1>2. PICK s \in Req : BeginAny(s) \/ Continue(s)
    BY <1>1 DEF SessionNext, sessionVars, Invite, RaiseIterations, PurgeRequests, Tick
  <1>3. s = r
    BY <1>1, <1>2, OwnSlot
  <1>4. ~BeginAny(r)
    BY DEF BeginAny, BeginProtected, StartRegister, StartLogin, StartProtected, StartAnswer,
           StartLoginByRequest, StartRequest, StartRefresh, Begin, At
  <1>5. ~Crash(r)
    BY DEF Crash, Done, Unused, At, SessionTypeOK
  <1>6. LogInStep(r) => FindRequest(r)
    BY DEF LogInStep, FindDevice, InsertDevice, ListFactors, ProveStep, UseStep,
           ProveRemembered, ProveRecovery, DropFactors, DropRecovery, DropRemembers, RefuseLogin,
           Migrate, Issue, At
  <1>7. Continue(r) => LogInStep(r)
    BY <1>5 DEF Continue, StoreRegistration, Refresh, Verify, ChangePassword, DropDevices, RotateStamp,
           ReadEnrolled, DropOldFactor, ForgetDevices, InsertFactor, ReadRecovery, SetRecovery,
           DisableFactor, ReadDisabled, DropDisabled, ReadRemaining, ClearRecovery, InsertRequest,
           Answer, Approve, Reject, At
  <1> QED
    BY <1>2, <1>3, <1>4, <1>6, <1>7

\* No login goes on with an auth request that was rejected, whichever handlers answered it.
THEOREM RejectionHolds == SessionSpec => RejectedStaysRejected
  <1>1. ASSUME SessionInv, [SessionNext]_sessionVars, NEW r \in Req, At(r, "findRequest"),
               At(r, "findDevice")'
        PROVE  req[r].ask \notin rejected
    <2>1. FindRequest(r)
      BY <1>1, OnlyFindRequest DEF SessionInv
    <2>2. request[req[r].ask] # None
      BY <1>1, <2>1 DEF FindRequest, Done, Unused, At, SessionInv, SessionTypeOK
    <2> QED
      BY <1>1, <2>2 DEF SessionInv, RejectedGone
  <1>2. SessionInv /\ [SessionNext]_sessionVars =>
           [\A r \in Req : At(r, "findRequest") /\ (At(r, "findDevice"))'
                           => req[r].ask \notin rejected]_sessionVars
    BY <1>1
  <1> QED
    BY <1>2, SessionStart, SessionStep, PTL DEF SessionSpec, RejectedStaysRejected

-----------------------------------------------------------------------------
\* The second factor, where one handler at a time is allowed

\* What a device may be remembered for.
Fits(m) == factor # None => m \in {None, factor.uuid}

\* What the handler in flight knows of the authenticator, and of the codes that had their effect.
Second(h) ==
    /\ h.stage = "register" => ~Registered
    /\ h.stage \in {"verify", "answer"} => h.pw \in Password
    /\ h.stage \in {"enrol", "dropOld", "forgetOld", "insertFactor"} => Registered
    /\ h.stage \in {"findRequest", "findDevice", "insertDevice"} => h.remember = None
    /\ h.stage \in {"listFactors", "prove"} => Fits(h.remember)
    /\ h.stage \in LoginStages => ~h.keep \/ (Fits(h.remember) /\ h.stage \in {"useStep", "migrate", "issue"})
    /\ h.stage \in {"prove", "useStep"} => factor # None /\ h.factor = factor
    /\ h.stage = "useStep" => h.step > factor.last /\ h.remember = factor.uuid
    /\ h.stage \in {"dropRecovery", "dropRemembers", "forgetOld", "insertFactor", "clearRecovery"} => factor = None
    /\ h.stage \in {"dropOld", "forgetOld", "insertFactor"} => \A n \in spent : n < h.step
    /\ h.stage = "insertFactor" => \A d \in Device : device[d] # None => device[d].remember = None

\* The authenticator belongs to a registered account, has seen every code that had its
\* effect, and is what devices are remembered for.
Authenticator ==
    factor # None =>
        /\ Registered
        /\ \A n \in spent : n <= factor.last
        /\ \A d \in Device : device[d] # None => device[d].remember \in {None, factor.uuid}

Covered ==
    ~cut /\ factor # None => user.recover \/ \E r \in Req : req[r].stage \in RecoveryStages

SecondInv ==
    OneAtATime => Authenticator /\ Covered /\ ~replayed /\ \A r \in Req : Second(req[r])

LEMMA UnusedSecond == Second(Unused) /\ Second(Unused)'
  BY DEF Unused, Second, LoginStages

\* What one handler relies on, r being in flight or about to begin.
LEMMA Held ==
    ASSUME SessionInv, SecondInv, OneAtATime, NEW r \in Req, Sole(r)
    PROVE  /\ Authenticator /\ ~replayed
           /\ \E h \in Slot : h = req[r] /\ Second(h) /\ Sound(h)
           /\ ~cut /\ factor # None => user.recover \/ req[r].stage \in RecoveryStages
  <1>1. Authenticator /\ ~replayed /\ Covered /\ \A s \in Req : Second(req[s])
    BY DEF SecondInv
  <1>2. \E h \in Slot : h = req[r] /\ Second(h) /\ Sound(h)
    BY <1>1 DEF SessionInv, SessionTypeOK, AllSound
  <1>3. \A s \in Req : req[s].stage \in RecoveryStages => s = r
    BY DEF Sole, At, RecoveryStages
  <1> QED
    BY <1>1, <1>2, <1>3 DEF Covered

\* A step of the one handler, after which it holds h.
LEMMA SecondStep ==
    ASSUME SessionInv, OneAtATime, NEW r \in Req, Sole(r), NEW h, Goto(r, h), load' = load,
           Second(h)', Authenticator', ~replayed',
           ~cut' /\ factor' # None => user'.recover \/ h.stage \in RecoveryStages
    PROVE  SecondInv'
  <1>1. \A s \in Req : req'[s] = IF s = r THEN h ELSE req[s]
    BY DEF SessionInv, SessionTypeOK, Goto
  <1>2. ASSUME NEW s \in Req
        PROVE  Second(req[s])'
    <2>1. CASE s = r
      BY <1>1, <2>1 DEF Second, Fits, Registered
    <2>2. CASE s # r
      <3>1. req'[s].stage = "idle"
        BY <1>1, <2>2 DEF Sole, At
      <3> QED
        BY <3>1 DEF Second, LoginStages
    <2> QED
      BY <2>1, <2>2
  <1>3. Covered'
    BY <1>1 DEF Covered
  <1> QED
    BY <1>2, <1>3 DEF SecondInv

\* One that writes neither authenticator, users row, devices nor codes.
LEMMA QuietSecond ==
    ASSUME SessionInv, SecondInv, OneAtATime, NEW r \in Req, Sole(r), NEW h, Goto(r, h), load' = load,
           Second(h), UNCHANGED <<user, factor, device, spent, replayed>>,
           ~cut' => ~cut /\ (req[r].stage \in RecoveryStages => user.recover \/ h.stage \in RecoveryStages)
    PROVE  SecondInv'
  <1>1. Second(h)'
    BY DEF Second, Fits, Registered
  <1>2. Authenticator' /\ ~replayed'
    BY Held DEF Authenticator, Registered
  <1> QED
    BY <1>1, <1>2, Held, SecondStep

LEMMA QuietDone ==
    ASSUME SessionInv, SecondInv, OneAtATime, NEW r \in Req, ~At(r, "idle"), Done(r), load' = load,
           UNCHANGED <<user, factor, device, spent, replayed, cut>>,
           req[r].stage \notin RecoveryStages \/ user.recover
    PROVE  SecondInv'
  BY UnusedSecond, BusySole, QuietSecond DEF Done, Goto

LEMMA QuietGo ==
    ASSUME SessionInv, SecondInv, OneAtATime, NEW r \in Req, ~At(r, "idle"), NEW stage \in SessionStage,
           Go(r, stage), SameRows, load' = load,
           req[r].stage \in RecoveryStages => stage \in RecoveryStages,
           \A h \in Slot : h = req[r] /\ Second(h) => Second([h EXCEPT !.stage = stage])
    PROVE  SecondInv'
  <1>1. PICK h \in Slot : h = req[r] /\ Second(h)
    BY BusySole, Held
  <1> DEFINE g == [h EXCEPT !.stage = stage]
  <1>2. Second(g) /\ Goto(r, g) /\ g.stage = stage
    BY <1>1, Moved DEF Go, Goto
  <1> HIDE DEF g
  <1> QED
    BY <1>1, <1>2, BusySole, QuietSecond DEF SameRows, codes

\* A request that begins, with nothing but what was asked.
LEMMA BeginSecond ==
    ASSUME SessionInv, SecondInv, OneAtATime, NEW r \in Req, NEW h, Begin(r, h), SameRows, load' = load,
           h.stage \in {"register", "findDevice", "findRequest", "refresh", "insertRequest", "verify",
                        "answer"},
           h.remember = None, h.keep = FALSE,
           h.stage = "register" => ~Registered, h.stage \in {"verify", "answer"} => h.pw \in Password
    PROVE  SecondInv'
  <1>1. Second(h)
    BY DEF Second, LoginStages
  <1>2. req[r].stage \notin RecoveryStages
    BY DEF Begin, At, RecoveryStages
  <1> QED
    BY <1>1, <1>2, BeginSole, QuietSecond DEF Begin, Goto, SameRows, codes

LEMMA BeginProtectedSecond ==
    ASSUME SessionInv, SecondInv, OneAtATime, NEW r \in Req, NEW p \in Password, BeginProtected(r, p),
           load' = load
    PROVE  SecondInv'
  <1>1. ASSUME NEW goal, NEW q, NEW n, StartProtected(r, goal, p, q, n)
        PROVE  SecondInv'
    BY <1>1, BeginSecond DEF StartProtected, Unused
  <1>2. ASSUME NEW a, NEW goal, StartAnswer(r, a, goal, p)
        PROVE  SecondInv'
    BY <1>2, BeginSecond DEF StartAnswer, Unused
  <1> QED
    BY <1>1, <1>2 DEF BeginProtected

LEMMA BeginAnySecond ==
    ASSUME SessionInv, SecondInv, OneAtATime, NEW r \in Req, BeginAny(r), load' = load
    PROVE  SecondInv'
  <1>1. ASSUME NEW p, StartRegister(r, p)
        PROVE  SecondInv'
    BY <1>1, BeginSecond DEF StartRegister, Unused
  <1>2. ASSUME NEW d, NEW p, StartLogin(r, d, p)
        PROVE  SecondInv'
    BY <1>2, BeginSecond DEF StartLogin, Unused
  <1>3. ASSUME NEW d, NEW a, StartLoginByRequest(r, d, a)
        PROVE  SecondInv'
    BY <1>3, BeginSecond DEF StartLoginByRequest, Unused
  <1>4. ASSUME NEW d, NEW a, StartRequest(r, d, a)
        PROVE  SecondInv'
    BY <1>4, BeginSecond DEF StartRequest, Unused
  <1>5. ASSUME NEW s, StartRefresh(r, s)
        PROVE  SecondInv'
    BY <1>5, BeginSecond DEF StartRefresh, Unused
  <1> QED
    BY <1>1, <1>2, <1>3, <1>4, <1>5, BeginProtectedSecond DEF BeginAny

\* Handlers that only look, or write sessions and auth requests.
LEMMA LookSecond ==
    ASSUME SessionInv, SecondInv, OneAtATime, NEW r \in Req, load' = load,
           FindRequest(r) \/ ProveRecovery(r) \/ RefuseLogin(r) \/ Refresh(r) \/ Answer(r)
              \/ InsertRequest(r) \/ Approve(r) \/ Reject(r) \/ ReadRecovery(r) \/ ReadRemaining(r)
    PROVE  SecondInv'
  <1>1. CASE FindRequest(r)
    <2>1. \A h \in Slot : h.stage = "findRequest" /\ Second(h) => Second([h EXCEPT !.stage = "findDevice"])
      BY Moved DEF Second, LoginStages, SessionStage
    <2> QED
      BY <1>1, <2>1, QuietGo, QuietDone DEF FindRequest, At, RecoveryStages, SessionStage, SameRows, codes
  <1>2. CASE ProveRecovery(r)
    <2>1. \A h \in Slot : h.stage = "prove" /\ Second(h) => Second([h EXCEPT !.stage = "dropFactors"])
      BY Moved DEF Second, LoginStages, SessionStage
    <2> QED
      BY <1>2, <2>1, QuietGo DEF ProveRecovery, At, RecoveryStages, SessionStage
  <1>3. CASE RefuseLogin(r) \/ Refresh(r)
    BY <1>3, QuietDone DEF RefuseLogin, Refresh, At, RecoveryStages, SameRows, OnlyDevice, codes
  <1>4. CASE Answer(r)
    <2>1. \A h \in Slot, stage \in {"verify", "reject"} :
             h.stage = "answer" /\ Second(h) => Second([h EXCEPT !.stage = stage])
      BY Moved DEF Second, LoginStages, SessionStage
    <2>2. Done(r) \/ Go(r, "verify") \/ Go(r, "reject")
      BY <1>4 DEF Answer
    <2>3. req[r].stage = "answer" /\ SameRows
      BY <1>4 DEF Answer, At
    <2> QED
      BY <2>1, <2>2, <2>3, QuietGo, QuietDone DEF At, RecoveryStages, SessionStage, SameRows, codes
  <1>5. CASE InsertRequest(r) \/ Approve(r) \/ Reject(r)
    BY <1>5, QuietDone DEF InsertRequest, Approve, Reject, At, RecoveryStages, OnlyRequest, codes
  <1>6. CASE ReadRecovery(r)
    <2>1. \A h \in Slot : h.stage = "readRecovery" /\ Second(h) => Second([h EXCEPT !.stage = "setRecovery"])
      BY Moved DEF Second, LoginStages, SessionStage
    <2> QED
      BY <1>6, <2>1, QuietGo, QuietDone
      DEF ReadRecovery, At, RecoveryStages, SessionStage, SameRows, codes
  <1>7. CASE ReadRemaining(r)
    <2>1. factor = None => \A h \in Slot : h.stage = "remaining" /\ Second(h)
                                           => Second([h EXCEPT !.stage = "clearRecovery"])
      BY Moved DEF Second, LoginStages, SessionStage
    <2> QED
      BY <1>7, <2>1, QuietGo, QuietDone
      DEF ReadRemaining, At, RecoveryStages, SessionStage, SameRows, codes
  <1> QED
    BY <1>1, <1>2, <1>3, <1>4, <1>5, <1>6, <1>7

\* A verified password is the account's, which is therefore registered.
LEMMA VerifySecond ==
    ASSUME SessionInv, SecondInv, OneAtATime, NEW r \in Req, Verify(r), load' = load
    PROVE  SecondInv'
  <1>1. PICK h \in Slot : h = req[r] /\ h.stage = "verify" /\ Second(h) /\ Sound(h)
    BY BusySole, Held DEF Verify, At
  <1>2. CASE Done(r)
    BY <1>1, <1>2, QuietDone DEF Verify, At, RecoveryStages, SameRows, codes
  <1>3. CASE ~Done(r)
    <2>1. Go(r, h.goal) /\ user.pw = h.pw /\ SameRows
      BY <1>1, <1>3 DEF Verify
    <2>2. h.goal \in Goals /\ Registered
      BY <1>1, <2>1, SessionNoneAssumption DEF Sound, Second, Registered
    <2>3. h.goal \in SessionStage
      BY <2>2 DEF Goals, SessionStage
    <2>4. Second([h EXCEPT !.stage = h.goal])
      BY <1>1, <2>2, <2>3, Moved DEF Second, LoginStages, Goals
    <2> QED
      BY <1>1, <2>1, <2>3, <2>4, QuietGo DEF At, RecoveryStages
  <1> QED
    BY <1>2, <1>3

LEMMA FindDeviceSecond ==
    ASSUME SessionInv, SecondInv, OneAtATime, NEW r \in Req, FindDevice(r), load' = load
    PROVE  SecondInv'
  <1>1. PICK h \in Slot : h = req[r] /\ h.stage = "findDevice" /\ Second(h) /\ Sound(h)
    BY BusySole, Held DEF FindDevice, At
  <1>2. CASE device[h.device] = None
    <2>1. Second([h EXCEPT !.stage = "insertDevice"])
      BY <1>1, Moved DEF Second, LoginStages, SessionStage
    <2> QED
      BY <1>1, <1>2, <2>1, QuietGo DEF FindDevice, At, RecoveryStages, SessionStage
  <1>3. CASE device[h.device] # None
    <2>1. PICK m : m = device[h.device].remember
      OBVIOUS
    <2>2. h.device \in Device /\ Fits(m)
      BY <1>1, <1>3, <2>1, BusySole, Held DEF Sound, SoundLogin, LoginStages, Fits, Authenticator, At
    <2> DEFINE g == [h EXCEPT !.stage = "listFactors", !.remember = m]
    <2>3. Goto(r, g) /\ SameRows
      BY <1>1, <1>3, <2>1 DEF FindDevice
    <2>4. g.stage = "listFactors" /\ g.remember = m /\ g.keep = h.keep
      BY DEF Slot
    <2> HIDE DEF g
    <2>5. Second(g)
      BY <1>1, <2>2, <2>4 DEF Second, LoginStages
    <2> QED
      BY <1>1, <2>3, <2>5, BusySole, QuietSecond DEF SameRows, codes, At, RecoveryStages
  <1> QED
    BY <1>2, <1>3

LEMMA ListFactorsSecond ==
    ASSUME SessionInv, SecondInv, OneAtATime, NEW r \in Req, ListFactors(r), load' = load
    PROVE  SecondInv'
  <1>1. PICK h \in Slot, f \in Factor \cup {None} :
           h = req[r] /\ f = factor /\ h.stage = "listFactors" /\ Second(h)
    BY BusySole, Held DEF ListFactors, At, SessionInv, SessionTypeOK
  <1>2. PICK stage : stage = IF f = None THEN "migrate" ELSE "prove"
    OBVIOUS
  <1> DEFINE g == [h EXCEPT !.stage = stage, !.factor = f]
  <1>3. Goto(r, g) /\ SameRows
    BY <1>1, <1>2 DEF ListFactors
  <1>4. g.stage = stage /\ g.factor = f /\ g.remember = h.remember /\ g.keep = h.keep
    BY DEF Slot
  <1> HIDE DEF g
  <1>5. Second(g)
    BY <1>1, <1>2, <1>4 DEF Second, LoginStages
  <1> QED
    BY <1>1, <1>3, <1>5, BusySole, QuietSecond DEF SameRows, codes, At, RecoveryStages

LEMMA ProveStepSecond ==
    ASSUME SessionInv, SecondInv, OneAtATime, NEW r \in Req, NEW n, NEW keep, ProveStep(r, n, keep),
           load' = load
    PROVE  SecondInv'
  <1>1. PICK h \in Slot : h = req[r] /\ h.stage = "prove" /\ Second(h) /\ Sound(h)
    BY BusySole, Held DEF ProveStep, At
  <1>2. h.factor = factor /\ factor # None /\ n > factor.last
    BY <1>1 DEF Second, ProveStep, ValidSteps
  <1>3. PICK m : m = h.factor.uuid
    OBVIOUS
  <1> DEFINE g == [h EXCEPT !.stage = "useStep", !.step = n, !.keep = keep, !.remember = m]
  <1>4. Goto(r, g) /\ SameRows
    BY <1>1, <1>3 DEF ProveStep
  <1>5. g.stage = "useStep" /\ g.step = n /\ g.factor = h.factor /\ g.remember = m
    BY DEF Slot
  <1> HIDE DEF g
  <1>6. Second(g)
    BY <1>2, <1>3, <1>5 DEF Second, LoginStages, Fits
  <1> QED
    BY <1>1, <1>4, <1>6, BusySole, QuietSecond DEF SameRows, codes, At, RecoveryStages

LEMMA ProveRememberedSecond ==
    ASSUME SessionInv, SecondInv, OneAtATime, NEW r \in Req, NEW keep, ProveRemembered(r, keep),
           load' = load
    PROVE  SecondInv'
  <1>1. PICK h \in Slot : h = req[r] /\ h.stage = "prove" /\ Second(h)
    BY BusySole, Held DEF ProveRemembered, At
  <1> DEFINE g == [h EXCEPT !.stage = "migrate", !.keep = keep]
  <1>2. Goto(r, g) /\ SameRows
    BY <1>1 DEF ProveRemembered
  <1>3. g.stage = "migrate" /\ g.remember = h.remember
    BY DEF Slot
  <1> HIDE DEF g
  <1>4. Second(g)
    BY <1>1, <1>3 DEF Second, LoginStages
  <1> QED
    BY <1>1, <1>2, <1>4, BusySole, QuietSecond DEF SameRows, codes, At, RecoveryStages

\* A write to the users row.
LEMMA UserSecond ==
    ASSUME SessionInv, SecondInv, OneAtATime, NEW r \in Req, Sole(r), NEW h, Goto(r, h), load' = load,
           OnlyUser, Second(h)', Registered => Registered',
           factor # None /\ (user.recover \/ req[r].stage \in RecoveryStages)
              => user'.recover \/ h.stage \in RecoveryStages
    PROVE  SecondInv'
  <1>1. factor' = factor /\ device' = device /\ spent' = spent /\ replayed' = replayed /\ cut' = cut
    BY DEF OnlyUser, codes
  <1>2. Authenticator' /\ ~replayed'
    BY <1>1, Held DEF Authenticator
  <1> QED
    BY <1>1, <1>2, Held, SecondStep

LEMMA StoreRegistrationSecond ==
    ASSUME SessionInv, SecondInv, OneAtATime, NEW r \in Req, StoreRegistration(r), load' = load
    PROVE  SecondInv'
  <1>1. req[r].stage = "register" /\ Sole(r) /\ Goto(r, Unused) /\ OnlyUser
    BY BusySole DEF StoreRegistration, At, Done, Goto
  <1>2. ~Registered /\ factor = None
    BY <1>1, Held DEF Second, Authenticator
  <1> QED
    BY <1>1, <1>2, UnusedSecond, UserSecond

LEMMA ChangeSecond ==
    ASSUME SessionInv, SecondInv, OneAtATime, NEW r \in Req, ChangePassword(r) \/ RotateStamp(r),
           load' = load
    PROVE  SecondInv'
  <1>1. req[r].stage \in {"change", "rotate"} /\ Goto(r, Unused) /\ OnlyUser
    BY DEF ChangePassword, RotateStamp, At, Done, Goto
  <1>2. Sole(r) /\ user \in User /\ user # None
    BY <1>1, Holding
  <1>3. user' # None /\ user'.recover = user.recover /\ (Registered => user'.pw # None)
    <2>1. CASE ChangePassword(r)
      <3>1. req[r].stage = "change" /\ \E h \in Slot : h = req[r] /\ Sound(h)
        BY <2>1, Holding DEF ChangePassword, At
      <3>2. PICK p \in Password : p = req[r].new
        BY <3>1 DEF Sound
      <3>3. PICK row : row = [user EXCEPT !.pw = p, !.key = p, !.old = FALSE]
        OBVIOUS
      <3>4. row \in User /\ row.recover = user.recover /\ row.pw = p
        BY <1>2, <3>3 DEF User
      <3>5. user' = Stamp(row) /\ lastStamp \in Nat
        BY <2>1, <3>2, <3>3 DEF ChangePassword, SessionInv, SessionTypeOK
      <3>6. user' \in User /\ user'.recover = row.recover /\ user'.pw = p
        BY <3>4, <3>5 DEF Stamp, User
      <3> QED
        BY <3>4, <3>6, SessionNoneAssumption, SessionNullAssumption
    <2>2. CASE RotateStamp(r)
      <3>1. user' = Stamp(user) /\ lastStamp \in Nat
        BY <2>2 DEF RotateStamp, SessionInv, SessionTypeOK
      <3>2. user' \in User /\ user'.recover = user.recover /\ user'.pw = user.pw
        BY <1>2, <3>1 DEF Stamp, User
      <3> QED
        BY <3>2, SessionNullAssumption DEF Registered
    <2> QED
      BY <2>1, <2>2
  <1>4. Registered => Registered'
    BY <1>3 DEF Registered
  <1> QED
    BY <1>1, <1>2, <1>3, <1>4, UnusedSecond, UserSecond DEF RecoveryStages

\* The recovery code goes only where there is no authenticator.
LEMMA RecoverySecond ==
    ASSUME SessionInv, SecondInv, OneAtATime, NEW r \in Req, load' = load,
           DropRecovery(r) \/ SetRecovery(r) \/ ClearRecovery(r)
    PROVE  SecondInv'
  <1>1. req[r].stage \in {"dropRecovery", "setRecovery", "clearRecovery"} /\ OnlyUser
    BY DEF DropRecovery, SetRecovery, ClearRecovery, At
  <1>2. Sole(r) /\ user \in User /\ user # None
    BY <1>1, Holding
  <1>3. PICK h \in Slot : h = req[r] /\ Second(h)
    BY <1>2, Held
  <1>4. PICK b \in BOOLEAN : /\ user' = [user EXCEPT !.recover = b]
                             /\ b \/ h.stage \in {"dropRecovery", "clearRecovery"}
    BY <1>3 DEF DropRecovery, SetRecovery, ClearRecovery, At
  <1>5. user' \in User /\ user'.pw = user.pw /\ user'.recover = b
    BY <1>2, <1>4 DEF User
  <1>6. Registered => Registered'
    BY <1>5, SessionNullAssumption DEF Registered
  <1>7. factor # None => b
    BY <1>3, <1>4 DEF Second
  <1>8. factor' = factor
    BY <1>1 DEF OnlyUser
  <1>9. CASE DropRecovery(r)
    <2>1. h.stage = "dropRecovery" /\ Second([h EXCEPT !.stage = "dropRemembers"])'
      BY <1>3, <1>8, <1>9, Moved DEF Second, LoginStages, SessionStage, DropRecovery, At
    <2> QED
      BY <1>1, <1>2, <1>3, <1>5, <1>6, <1>7, <1>9, <2>1, UserSecond DEF DropRecovery, Go, Goto
  <1>10. CASE Done(r)
    BY <1>1, <1>2, <1>5, <1>6, <1>7, <1>10, UnusedSecond, UserSecond DEF Done, Goto
  <1> QED
    BY <1>9, <1>10 DEF SetRecovery, ClearRecovery

LEMMA MigrateSecond ==
    ASSUME SessionInv, SecondInv, OneAtATime, NEW r \in Req, Migrate(r), load' = load
    PROVE  SecondInv'
  <1>1. req[r].stage = "migrate" /\ OnlyUser
    BY DEF Migrate, At
  <1>2. Sole(r) /\ user \in User /\ user # None
    BY <1>1, Holding
  <1>3. PICK h \in Slot : h = req[r] /\ Second(h) /\ h.stage = "migrate"
    BY <1>1, <1>2, Held
  <1> DEFINE g == [h EXCEPT !.stage = "issue"]
  <1>4. Goto(r, g) /\ g.stage = "issue" /\ g.remember = h.remember /\ g.keep = h.keep
    BY <1>3, Moved DEF Migrate, Go, Goto, SessionStage
  <1> HIDE DEF g
  <1>5. Second(g)'
    BY <1>1, <1>3, <1>4 DEF Second, LoginStages, Fits, OnlyUser
  <1>6. user' # None /\ user'.recover = user.recover /\ (user.pw # None => user'.pw # None)
    <2>1. CASE user' = user
      BY <1>2, <2>1
    <2>2. CASE user' # user
      <3>1. PICK p \in Password : user' = [user EXCEPT !.pw = p, !.old = FALSE]
        BY <1>3, <2>2 DEF Migrate, Slot
      <3>2. user' \in User /\ user'.recover = user.recover /\ user'.pw = p
        BY <1>2, <3>1 DEF User
      <3> QED
        BY <3>2, SessionNoneAssumption, SessionNullAssumption
    <2> QED
      BY <2>1, <2>2
  <1>7. Registered => Registered'
    BY <1>6 DEF Registered
  <1> QED
    BY <1>1, <1>2, <1>4, <1>5, <1>6, <1>7, UserSecond DEF RecoveryStages

\* A write to the devices that remembers none for another authenticator.
LEMMA DeviceSecond ==
    ASSUME SessionInv, SecondInv, OneAtATime, NEW r \in Req, Sole(r), NEW h, Goto(r, h), load' = load,
           UNCHANGED <<user, factor, spent, replayed, cut>>, Second(h)',
           req[r].stage \notin RecoveryStages,
           \A d \in Device : device'[d] # None =>
              device'[d].remember = None \/ Fits(device'[d].remember)
              \/ (device[d] # None /\ device'[d].remember = device[d].remember)
    PROVE  SecondInv'
  <1>1. Authenticator' /\ ~replayed'
    BY Held DEF Authenticator, Fits, Registered
  <1> QED
    BY <1>1, Held, SecondStep

LEMMA InsertDeviceSecond ==
    ASSUME SessionInv, SecondInv, OneAtATime, NEW r \in Req, InsertDevice(r), load' = load
    PROVE  SecondInv'
  <1>1. req[r].stage = "insertDevice" /\ UNCHANGED <<user, factor, spent, replayed, cut>>
    BY DEF InsertDevice, At, OnlyDevice, codes
  <1>2. PICK h \in Slot : h = req[r] /\ Second(h) /\ Sound(h) /\ Sole(r)
    BY <1>1, Holding, Held
  <1>3. CASE device[h.device] # None
    BY <1>1, <1>2, <1>3, QuietDone DEF InsertDevice, At, RecoveryStages
  <1>4. CASE device[h.device] = None
    <2> DEFINE g == [h EXCEPT !.stage = "listFactors"]
    <2>1. g.stage = "listFactors" /\ g.remember = h.remember /\ g.keep = h.keep
      BY Moved DEF SessionStage
    <2>2. Goto(r, g) /\ device' = [device EXCEPT ![h.device] = [remember |-> None]]
      BY <1>2, <1>4 DEF InsertDevice, Go, Goto
    <2> HIDE DEF g
    <2>3. Second(g)'
      BY <1>1, <1>2, <2>1 DEF Second, LoginStages, Fits
    <2>4. \A d \in Device : device'[d] # None => device'[d].remember = None \/ device'[d] = device[d]
      BY <2>2 DEF SessionInv, SessionTypeOK
    <2> QED
      BY <1>1, <1>2, <2>2, <2>3, <2>4, DeviceSecond DEF RecoveryStages
  <1> QED
    BY <1>3, <1>4

LEMMA ForgetSecond ==
    ASSUME SessionInv, SecondInv, OneAtATime, NEW r \in Req, DropRemembers(r) \/ ForgetDevices(r),
           load' = load
    PROVE  SecondInv'
  <1>1. /\ req[r].stage \in {"dropRemembers", "forgetOld", "forget"} /\ device' = Forgotten
        /\ UNCHANGED <<user, factor, spent, replayed, cut>>
    BY DEF DropRemembers, ForgetDevices, At, OnlyDevice, codes
  <1>2. PICK h \in Slot : h = req[r] /\ Second(h) /\ Sole(r)
    BY <1>1, Holding, Held
  <1>3. \A d \in Device : device'[d] # None => device'[d].remember = None
    BY <1>1 DEF Forgotten
  <1>4. PICK stage \in {"migrate", "insertFactor", "remaining"} :
           /\ Go(r, stage) /\ (stage = "migrate" => h.stage = "dropRemembers")
           /\ (stage = "insertFactor" => h.stage = "forgetOld")
    BY <1>2 DEF DropRemembers, ForgetDevices, At
  <1> DEFINE g == [h EXCEPT !.stage = stage]
  <1>5. Goto(r, g) /\ g.stage = stage /\ g.remember = h.remember /\ g.keep = h.keep /\ g.step = h.step
    BY <1>2, <1>4, Moved DEF Go, Goto, SessionStage
  <1> HIDE DEF g
  <1>6. Second(g)'
    BY <1>1, <1>2, <1>3, <1>4, <1>5 DEF Second, LoginStages, Registered
  <1> QED
    BY <1>1, <1>2, <1>3, <1>5, <1>6, DeviceSecond DEF RecoveryStages

LEMMA DropDevicesSecond ==
    ASSUME SessionInv, SecondInv, OneAtATime, NEW r \in Req, DropDevices(r), load' = load
    PROVE  SecondInv'
  <1>1. /\ req[r].stage = "dropDevices" /\ device' = [d \in Device |-> None]
        /\ UNCHANGED <<user, factor, spent, replayed, cut>>
    BY DEF DropDevices, At, OnlyDevice, codes
  <1>2. PICK h \in Slot : h = req[r] /\ Sole(r)
    BY <1>1, Holding
  <1> DEFINE g == [h EXCEPT !.stage = "rotate"]
  <1>3. Goto(r, g) /\ g.stage = "rotate"
    BY <1>2, Moved DEF DropDevices, Go, Goto, SessionStage
  <1> HIDE DEF g
  <1>4. Second(g)'
    BY <1>3 DEF Second, LoginStages
  <1> QED
    BY <1>1, <1>2, <1>3, <1>4, DeviceSecond DEF RecoveryStages

\* The remember token that is stored is for the authenticator in force.
LEMMA IssueSecond ==
    ASSUME SessionInv, SecondInv, OneAtATime, NEW r \in Req, Issue(r), load' = load
    PROVE  SecondInv'
  <1>1. req[r].stage = "issue" /\ UNCHANGED <<user, factor, spent, replayed, cut>> /\ Goto(r, Unused)
    BY DEF Issue, At, OnlyDevice, codes, Done, Goto
  <1>2. PICK h \in Slot : h = req[r] /\ Second(h) /\ Sole(r) /\ Sound(h)
    BY <1>1, Holding, Held
  <1>3. h.keep => Fits(h.remember)
    BY <1>1, <1>2 DEF Second, LoginStages
  <1>4. device' = device \/ (h.keep /\ device' = [device EXCEPT ![h.device].remember = h.remember])
    BY <1>2 DEF Issue
  <1>5. ASSUME NEW d \in Device, device'[d] # None
        PROVE  Fits(device'[d].remember) \/ (device[d] # None /\ device'[d].remember = device[d].remember)
    <2>1. CASE device'[d] = device[d]
      BY <1>5, <2>1
    <2>2. CASE device'[d] # device[d]
      <3>1. d = h.device /\ device'[d] = [device[d] EXCEPT !.remember = h.remember] /\ h.keep
        BY <1>4, <2>2 DEF SessionInv, SessionTypeOK
      <3>2. device[d] \in DeviceRow
        BY <1>1, <1>2, <2>2, <3>1 DEF Issue, SessionInv, SessionTypeOK
      <3>3. device'[d].remember = h.remember
        BY <3>1, <3>2 DEF DeviceRow
      <3> QED
        BY <1>3, <3>1, <3>3
    <2> QED
      BY <2>1, <2>2
  <1> QED
    BY <1>1, <1>2, <1>5, UnusedSecond, DeviceSecond DEF RecoveryStages

\* The authenticator goes, or is not there.
LEMMA NoFactorSecond ==
    ASSUME SessionInv, SecondInv, OneAtATime, NEW r \in Req, load' = load, factor' = None,
           replayed' = replayed, spent' \subseteq spent, UNCHANGED <<user, device, cut>>, ~At(r, "idle"),
           NEW stage \in {"dropRecovery", "forgetOld", "forget"}, Go(r, stage),
           stage = "dropRecovery" => req[r].stage = "dropFactors",
           stage = "forgetOld" => req[r].stage = "dropOld"
    PROVE  SecondInv'
  <1>1. PICK h \in Slot : h = req[r] /\ Second(h) /\ Sole(r)
    BY BusySole, Held
  <1> DEFINE g == [h EXCEPT !.stage = stage]
  <1>2. Goto(r, g) /\ g.stage = stage /\ g.remember = h.remember /\ g.keep = h.keep /\ g.step = h.step
    BY <1>1, Moved DEF Go, Goto, SessionStage
  <1> HIDE DEF g
  <1>3. Second(g)'
    BY <1>1, <1>2 DEF Second, LoginStages, Registered
  <1>4. Authenticator' /\ ~replayed'
    BY <1>1, Held DEF Authenticator
  <1> QED
    BY <1>1, <1>2, <1>3, <1>4, SecondStep

LEMMA DropSecond ==
    ASSUME SessionInv, SecondInv, OneAtATime, NEW r \in Req, load' = load,
           DropFactors(r) \/ DropOldFactor(r) \/ DisableFactor(r)
    PROVE  SecondInv'
  BY NoFactorSecond DEF DropFactors, DropOldFactor, DisableFactor, OnlyFactor, codes, At

LEMMA ReadDisabledSecond ==
    ASSUME SessionInv, SecondInv, OneAtATime, NEW r \in Req, ReadDisabled(r), load' = load
    PROVE  SecondInv'
  <1>1. PICK h \in Slot, f \in Factor \cup {None} : h = req[r] /\ f = factor /\ h.stage = "disableKey" /\ Sole(r)
    BY Holding DEF ReadDisabled, At, SessionInv, SessionTypeOK
  <1>2. CASE factor = None
    BY <1>1, <1>2, QuietDone DEF ReadDisabled, At, RecoveryStages, SameRows, codes
  <1>3. CASE factor # None
    <2> DEFINE g == [h EXCEPT !.stage = "dropKey", !.factor = f]
    <2>1. Goto(r, g) /\ SameRows
      BY <1>1, <1>3 DEF ReadDisabled
    <2>2. g.stage = "dropKey"
      BY DEF Slot
    <2> HIDE DEF g
    <2>3. Second(g)
      BY <2>2 DEF Second, LoginStages
    <2> QED
      BY <1>1, <2>1, <2>3, QuietSecond DEF SameRows, codes, RecoveryStages
  <1> QED
    BY <1>2, <1>3

LEMMA DropDisabledSecond ==
    ASSUME SessionInv, SecondInv, OneAtATime, NEW r \in Req, DropDisabled(r), load' = load
    PROVE  SecondInv'
  <1>1. /\ req[r].stage = "dropKey" /\ Go(r, "forget") /\ replayed' = replayed
        /\ UNCHANGED <<user, device, cut>>
    BY DEF DropDisabled, OnlyFactor, At
  <1>2. CASE factor' = None /\ spent' \subseteq spent
    BY <1>1, <1>2, NoFactorSecond DEF At
  <1>3. CASE factor' = factor /\ spent' = spent
    <2>1. PICK h \in Slot : h = req[r] /\ Second(h) /\ Sole(r)
      BY <1>1, BusySole, Held DEF At
    <2> DEFINE g == [h EXCEPT !.stage = "forget"]
    <2>2. Goto(r, g) /\ g.stage = "forget"
      BY <1>1, <2>1, Moved DEF Go, Goto, SessionStage
    <2> HIDE DEF g
    <2>3. Second(g)
      BY <2>2 DEF Second, LoginStages
    <2> QED
      BY <1>1, <1>3, <2>1, <2>2, <2>3, QuietSecond DEF RecoveryStages
  <1> QED
    BY <1>2, <1>3 DEF DropDisabled

\* The code is later than every one that had its effect.
LEMMA UseStepSecond ==
    ASSUME SessionInv, SecondInv, OneAtATime, NEW r \in Req, UseStep(r), load' = load
    PROVE  SecondInv'
  <1>1. /\ req[r].stage = "useStep" /\ Go(r, "migrate") /\ Spend(req[r].step)
        /\ UNCHANGED <<user, device, cut>>
    BY DEF UseStep, OnlyFactor, At
  <1>2. PICK h \in Slot : h = req[r] /\ Second(h) /\ Sole(r)
    BY <1>1, BusySole, Held DEF At
  <1>3. PICK f \in Factor : f = factor /\ f # None /\ h.factor = f /\ h.step > f.last /\ h.remember = f.uuid
    BY <1>1, <1>2 DEF Second, SessionInv, SessionTypeOK
  <1>4. Registered /\ (\A n \in spent : n <= f.last) /\ ~replayed /\ Authenticator
    BY <1>2, <1>3, Held DEF Authenticator
  <1>5. factor' = [f EXCEPT !.last = h.step]
    BY <1>2, <1>3 DEF UseStep
  <1>6. factor' \in Factor /\ factor'.uuid = f.uuid /\ factor'.last = h.step
    BY <1>5 DEF Factor, Slot
  <1>7. spent \subseteq Int /\ h.step \in Int /\ f.last \in Int
    BY DEF SessionInv, SessionTypeOK, Slot, Factor
  <1>8. h.step \notin spent
    BY <1>3, <1>4, <1>7
  <1>9. ~replayed'
    BY <1>1, <1>2, <1>4, <1>8, Zenon DEF Spend
  <1>10. \A n \in spent' : n <= h.step
    <2>1. spent' = spent \cup {h.step}
      BY <1>1, <1>2 DEF Spend
    <2> QED
      BY <1>3, <1>4, <1>7, <2>1
  <1>11. Authenticator'
    BY <1>1, <1>3, <1>4, <1>6, <1>10 DEF Authenticator, Registered
  <1> DEFINE g == [h EXCEPT !.stage = "migrate"]
  <1>12. Goto(r, g) /\ g.stage = "migrate" /\ g.remember = h.remember
    BY <1>1, <1>2, Moved DEF Go, Goto, SessionStage
  <1> HIDE DEF g
  <1>13. Second(g)'
    BY <1>3, <1>6, <1>12 DEF Second, LoginStages, Fits
  <1>14. ~cut' => user'.recover
    BY <1>1, <1>2, <1>3, Held DEF RecoveryStages
  <1> QED
    BY <1>2, <1>9, <1>11, <1>12, <1>13, <1>14, SecondStep

\* The code of an enrolment is later than those that had their effect, or the first.
LEMMA ReadEnrolledSecond ==
    ASSUME SessionInv, SecondInv, OneAtATime, NEW r \in Req, ReadEnrolled(r), load' = load
    PROVE  SecondInv'
  <1>1. /\ req[r].stage = "enrol" /\ replayed' = replayed
        /\ UNCHANGED <<user, device, factor, cut>>
    BY DEF ReadEnrolled, OnlyFactor, At
  <1>2. PICK h \in Slot : h = req[r] /\ Second(h) /\ Sole(r)
    BY <1>1, BusySole, Held DEF At
  <1>3. CASE Done(r) /\ spent' = spent
    BY <1>1, <1>3, QuietDone DEF At, RecoveryStages
  <1>4. CASE h.step \in ValidSteps(IF factor = None THEN 0 ELSE factor.last)
    <2>1. Go(r, "dropOld") /\ spent' = IF factor = None THEN {} ELSE spent
      BY <1>2, <1>4 DEF ReadEnrolled
    <2>2. \A n \in spent' : n < h.step
      <3> SUFFICES ASSUME factor # None, NEW n \in spent
                   PROVE  n < h.step
        BY <2>1
      <3>1. factor.last < h.step /\ n <= factor.last
        BY <1>2, <1>4, Held DEF ValidSteps, Authenticator
      <3>2. n \in Int /\ factor.last \in Int /\ h.step \in Int
        BY DEF SessionInv, SessionTypeOK, Factor, Slot
      <3> QED
        BY <3>1, <3>2
    <2>3. Authenticator' /\ ~replayed' /\ Registered
      BY <1>1, <1>2, <2>1, Held DEF Authenticator, Registered, Second
    <2> DEFINE g == [h EXCEPT !.stage = "dropOld"]
    <2>4. Goto(r, g) /\ g.stage = "dropOld" /\ g.step = h.step
      BY <1>2, <2>1, Moved DEF Go, Goto, SessionStage
    <2> HIDE DEF g
    <2>5. Second(g)'
      BY <1>1, <1>2, <2>2, <2>3, <2>4 DEF Second, LoginStages, Registered
    <2>6. ~cut' /\ factor' # None => user'.recover
      BY <1>1, <1>2, Held DEF RecoveryStages
    <2> QED
      BY <1>2, <2>3, <2>4, <2>5, <2>6, SecondStep
  <1> QED
    BY <1>2, <1>3, <1>4 DEF ReadEnrolled

LEMMA InsertFactorSecond ==
    ASSUME SessionInv, SecondInv, OneAtATime, NEW r \in Req, InsertFactor(r), load' = load
    PROVE  SecondInv'
  <1>1. req[r].stage = "insertFactor" /\ UNCHANGED <<user, device, cut>>
    BY DEF InsertFactor, OnlyFactor, At
  <1>2. PICK h \in Slot : h = req[r] /\ Second(h) /\ Sole(r) /\ h.stage = "insertFactor"
    BY <1>1, BusySole, Held DEF At
  <1>3. /\ factor = None /\ Registered /\ ~replayed /\ \A n \in spent : n < h.step
        /\ \A d \in Device : device[d] # None => device[d].remember = None
    BY <1>2, Held DEF Second
  <1>4. PICK f : f = [uuid |-> lastFactor + 1, last |-> h.step]
    OBVIOUS
  <1>5. factor' = f /\ f.last = h.step /\ Spend(h.step) /\ Go(r, "readRecovery")
    BY <1>2, <1>3, <1>4 DEF InsertFactor
  <1>6. spent \subseteq Int /\ h.step \in Int
    BY DEF SessionInv, SessionTypeOK, Slot
  <1>7. ~replayed'
    <2>1. h.step \notin spent
      BY <1>3, <1>6
    <2> QED
      BY <1>3, <1>5, <2>1, Zenon DEF Spend
  <1>8. \A n \in spent' : n <= h.step
    BY <1>3, <1>5, <1>6 DEF Spend
  <1>9. Authenticator'
    BY <1>1, <1>3, <1>5, <1>8 DEF Authenticator, Registered
  <1> DEFINE g == [h EXCEPT !.stage = "readRecovery"]
  <1>10. Goto(r, g) /\ g.stage = "readRecovery"
    BY <1>2, <1>5, Moved DEF Go, Goto, SessionStage
  <1> HIDE DEF g
  <1>11. Second(g)' /\ g.stage \in RecoveryStages
    BY <1>10 DEF Second, LoginStages, RecoveryStages
  <1> QED
    BY <1>2, <1>7, <1>9, <1>10, <1>11, SecondStep

LEMMA CrashSecond ==
    ASSUME SessionInv, SecondInv, OneAtATime, NEW r \in Req, Crash(r), load' = load
    PROVE  SecondInv'
  <1>1. Goto(r, Unused) /\ cut' = (cut \/ req[r].stage \in RecoveryStages) /\ Sole(r)
    BY BusySole DEF Crash, Done, Goto
  <1> QED
    BY <1>1, UnusedSecond, QuietSecond DEF Crash, codes

\* A step of no handler: slots, authenticator, devices and codes stay, a row keeps its recovery code.
LEMMA OutsideSecond ==
    ASSUME SessionInv, SecondInv, OneAtATime, load' = load, req' = req, factor' = factor,
           device' = device, codes' = codes, cut' = cut,
           Registered => Registered' /\ user'.recover = user.recover,
           \A r \in Req : At(r, "register") /\ ~Registered => ~Registered'
    PROVE  SecondInv'
  <1>1. Authenticator /\ Covered /\ ~replayed /\ \A r \in Req : Second(req[r])
    BY DEF SecondInv
  <1>2. Authenticator' /\ Covered' /\ ~replayed'
    BY <1>1 DEF Authenticator, Covered, codes
  <1>3. ASSUME NEW r \in Req
        PROVE  Second(req[r])'
    BY <1>1 DEF Second, Fits, codes, At
  <1> QED
    BY <1>2, <1>3 DEF SecondInv

LEMMA SecondKept ==
    ASSUME SessionInv, SecondInv, [SessionNext]_sessionVars
    PROVE  SecondInv'
  <1>1. CASE ~OneAtATime
    BY <1>1 DEF SecondInv, OneAtATime, Asked, SessionNext, sessionVars
  <1>2. CASE OneAtATime
    <2>1. ASSUME NEW r \in Req, BeginAny(r), load' = load
          PROVE  SecondInv'
      BY <1>2, <2>1, BeginAnySecond
    <2>2. ASSUME NEW r \in Req, LogInStep(r), load' = load
          PROVE  SecondInv'
      BY <1>2, <2>2, LookSecond, FindDeviceSecond, InsertDeviceSecond, ListFactorsSecond,
         ProveStepSecond, UseStepSecond, ProveRememberedSecond, DropSecond, RecoverySecond,
         ForgetSecond, MigrateSecond, IssueSecond
      DEF LogInStep
    <2>3. ASSUME NEW r \in Req, Continue(r), load' = load
          PROVE  SecondInv'
      BY <1>2, <2>2, <2>3, LookSecond, StoreRegistrationSecond, VerifySecond, ChangeSecond,
         DropDevicesSecond, ReadEnrolledSecond, DropSecond, ForgetSecond, InsertFactorSecond,
         RecoverySecond, ReadDisabledSecond, DropDisabledSecond, CrashSecond
      DEF Continue
    <2>4. CASE Invite /\ load' = load
      <3>1. user = None /\ user'.pw = None
        BY <2>4 DEF Invite, Stamp
      <3> QED
        BY <1>2, <2>4, <3>1, OutsideSecond DEF Invite, OnlyUser, Registered
    <2>5. CASE RaiseIterations /\ load' = load
      <3>1. user \in User /\ user' = [user EXCEPT !.old = TRUE]
        BY <2>5 DEF RaiseIterations, Registered, SessionInv, SessionTypeOK
      <3>2. user' \in User /\ user'.pw = user.pw /\ user'.recover = user.recover
        BY <3>1 DEF User
      <3>3. Registered /\ Registered'
        BY <2>5, <3>2, SessionNullAssumption DEF RaiseIterations, Registered
      <3> QED
        BY <1>2, <2>5, <3>2, <3>3, OutsideSecond DEF RaiseIterations, OnlyUser
    <2>6. CASE (PurgeRequests \/ Tick \/ UNCHANGED sessionVars) /\ load' = load
      BY <1>2, <2>6, OutsideSecond
      DEF PurgeRequests, Tick, sessionVars, OnlyRequest, codes, Registered
    <2> QED
      BY <2>1, <2>3, <2>4, <2>5, <2>6 DEF SessionNext, sessionVars
  <1> QED
    BY <1>1, <1>2

LEMMA SecondStart == SessionInit => SecondInv
  BY UnusedSecond DEF SessionInit, SecondInv, Authenticator, Covered

\* One handler at a time, a device is remembered for the authenticator in force, and for no
\* earlier one: whatever replaces or removes the authenticator forgets the devices in time.
THEOREM RememberedHolds == SessionSpec => []RememberedForFactor
  <1>1. SecondInv => RememberedForFactor
    BY DEF SecondInv, Authenticator, RememberedForFactor
  <1> QED
    BY <1>1, SessionStart, SessionStep, SecondStart, SecondKept, PTL DEF SessionSpec

\* One handler at a time, no code has its effect twice, whatever is enrolled, replaced and
\* used to log in, in whatever order, and wherever a handler dies.
THEOREM ReplayRefused == SessionSpec => []NoReplay
  <1>1. SecondInv => NoReplay
    BY DEF SecondInv, NoReplay
  <1> QED
    BY <1>1, SessionStart, SessionStep, SecondStart, SecondKept, PTL DEF SessionSpec

\* One handler at a time, which may die anywhere but between the INSERT of an authenticator
\* and the UPDATE with its recovery code: whoever has an authenticator has a recovery code.
THEOREM RecoveryHolds == SessionSpec => []RecoverableFactor
  <1>1. SecondInv => RecoverableFactor
    BY DEF SecondInv, Covered, RecoverableFactor, InFlight, At, RecoveryStages
  <1> QED
    BY <1>1, SessionStart, SessionStep, SecondStart, SecondKept, PTL DEF SessionSpec
=============================================================================
