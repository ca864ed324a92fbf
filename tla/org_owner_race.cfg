SPECIFICATION OrgSpec
CONSTANTS
    User = {u1, u2}
    Collection = {c1}
    Req = {r1, r2}
    OrgWorkload <- OnlyRemovals
    None = None
    MaxIds = 2
SYMMETRY Symmetry
CHECK_DEADLOCK FALSE
PROPERTY OwnerKept
