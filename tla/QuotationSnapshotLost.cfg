CONSTANTS
    Quotations = {q1}
    Requests = {r1, r2}
    Keys = {k1, k2}
    NoQuotation = NoQuotation
    NoKey = NoKey
    MaxDay = 1
    MaxVersion = 1
    Environments <- FailingPublish
SPECIFICATION Spec
PROPERTIES
    SnapshotKept
CHECK_DEADLOCK FALSE
