SPECIFICATION AttachFair
CONSTANTS
    u1 = u1
    i1 = i1
    i2 = i2
    User = {u1}
    Cipher = {i1}
    Att = {a1}
    Req = {r1}
    Workloads <- Abandoned
    Creator <- AllByFirst
    Shared <- SecondShared
    FirstMember <- Writers
    Limit = 1
    None = None
PROPERTIES Reclaimed
CHECK_DEADLOCK FALSE
