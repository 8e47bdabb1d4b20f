CONSTANTS
    Quotations = {q1}
    Requests = {r1, r2}
    Keys = {k1, k2}
    NoQuotation = NoQuotation
    NoKey = NoKey
    MaxDay = 1
    MaxVersion = 1
    Environments <- AllEnvironments
SPECIFICATION FairSpec
INVARIANTS
    TypeOK
    NoOrphanFiles
    AnnouncedOnce
PROPERTIES
    Lifecycle
    SnapshotKeptUnlessPublishFails
    ExpiryIsAnnounced
CHECK_DEADLOCK FALSE
