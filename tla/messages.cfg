SPECIFICATION MsgSpec
CONSTANTS
    Device = {d1, d2}
    Phone = {d1}
    PushToken = {t1, t2}
    Socket = {s1, s2}
    Req = {r1, r2}
    MsgWorkloads <- Mixed
    None = None
    MaxStamp = 2
    MaxUuid = 2
SYMMETRY Symmetry
INVARIANTS MsgTypeOK RelayAgrees LogoutTold
CHECK_DEADLOCK FALSE
