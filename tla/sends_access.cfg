SPECIFICATION Spec
CONSTANTS
    Send = {s1}
    Req = {r1, r2}
    Route = {"createText", "createFileLegacy", "update", "delete", "access", "accessFile", "grant", "download", "tokenAccess", "tokenAccessFile"}
    Password = {p1}
    Payload <- TwoBudgets
    None = None
    LinkTtl = 1
    AccessTtl = 1
    StaleAfter = 1
    MaxDeletion = 3
    MaxTime = 2
    MaxCharges = 2
SYMMETRY Symmetry
INVARIANTS TypeOK CountWithinCap ServedWasPaid
PROPERTY ImplementsBudget
CHECK_DEADLOCK FALSE
