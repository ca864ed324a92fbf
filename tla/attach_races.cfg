SPECIFICATION AttachSpec
CONSTANTS
    u1 = u1
    i1 = i1
    i2 = i2
    User = {u1, u2}
    Cipher = {i1, i2}
    Att = {a1, a2, a3}
    Req = {r1, r2}
    Workloads <- Races
    Creator <- AllByFirst
    Shared <- SecondShared
    FirstMember <- Writers
    Limit = 1
    None = None
VIEW Forgetting
SYMMETRY Symmetry
INVARIANTS AttachTypeOK QuotaOvershoot FilesPresent NoOrphanObjects ToldOfFiles
PROPERTIES ByRights
CHECK_DEADLOCK FALSE
