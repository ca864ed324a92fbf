SPECIFICATION OrgSpec
CONSTANTS
    User = {u1, u2}
    Collection = {c1, c2}
    Req = {r1, r2}
    OrgWorkload <- MembersCollectionsRaces
    None = None
    MaxIds = 3
SYMMETRY Symmetry
CHECK_DEADLOCK FALSE
INVARIANTS OrgTypeOK ConfirmedHasKey GrantsToMembers Told
PROPERTIES OwnerKeptAlone NeverDemoted OwnersByOwners
