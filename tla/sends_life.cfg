SPECIFICATION FairSpec
CONSTANTS
    Send = {s1}
    Req = {r1, r2}
    Route = {"createText", "createFileV2", "createFileLegacy", "streamUpload", "directUpload", "removePassword", "delete", "purge"}
    Password = {p1}
    Payload <- ShortLived
    None = None
    LinkTtl = 1
    AccessTtl = 1
    StaleAfter = 1
    MaxDeletion = 2
    MaxTime = 3
    MaxCharges = 2
INVARIANTS FilesPresent NoOrphanFiles
PROPERTIES StalePendingLeaves ExpiredSendLeaves
CHECK_DEADLOCK FALSE
