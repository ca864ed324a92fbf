SPECIFICATION SessionSpec
CONSTANTS
    Device = {d1}
    Password = {p1, p2}
    AuthRequest = {a1}
    Req = {r1, r2}
    SessionWorkload <- LoginsAndFactors
    None = None
    Drift = 1
    Expiry = 1
    Retention = 2
    MaxTime = 3
    MaxStamp = 3
    MaxFactor = 2
SYMMETRY Symmetry
INVARIANTS SessionTypeOK SessionsProvePassword RecoverableFactor RememberedForFactor NoReplay
PROPERTIES RejectedStaysRejected
CHECK_DEADLOCK FALSE
