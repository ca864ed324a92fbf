SPECIFICATION VaultSpec
SYMMETRY Symmetry
CHECK_DEADLOCK FALSE
CONSTANTS
    u1 = u1
    u2 = u2
    c1 = c1
    f1 = f1
    f2 = f2
    User = {u1, u2}
    Cipher = {i1, i2}
    Collection = {c1}
    Folder = {f1, f2}
    Req = {r1, r2}
    VaultWorkload <- RacesRoutesPurging
    FirstMember <- AdminAndReader
    FolderOwner <- OwnFolders
    None = None
VIEW ViewOf
INVARIANTS
    VaultTypeOK
    FolderOfCreator
    OneOwner
    ToldOfCiphers
PROPERTIES
    WrittenByWriters
    PlacedByAdmins
    PurgesTrash
