SPECIFICATION Spec
CONSTANTS
    Send = {s1}
    Req = {r1, r2}
    Route = {"createFileLegacy", "accessFile", "download"}
    Password = {p1}
    Payload <- TwoBudgets
    None = None
    LinkTtl = 1
    AccessTtl = 1
    StaleAfter = 1
    MaxDeletion = 3
    MaxTime = 2
    MaxCharges = 2
SYMMETRY Symmetry
PROPERTY FileCountMovesOnDownload
CHECK_DEADLOCK FALSE
