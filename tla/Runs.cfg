CONSTANTS
    Rules = {r1}
    Events = {e1}
    Jobs = {j1, j2}
    Admins = {a1}
    NoRun = NoRun
    NoJob = NoJob
    NoRule = NoRule
    ActionLists <- Lists
    MaxStalls = 1
    Workers = {w1, w2}
    MaxAttempts = 2
    QueueAttempts = 3
    Environments <- RunEnvironments
SPECIFICATION FairSpec
INVARIANTS
    TypeOK
    ExclusiveExecution
    OncePerAttempt
    SucceededPerformedAll
    RetryableHasJob
PROPERTIES
    PendingIsWorked
    SavedSuccessIsFinal
CHECK_DEADLOCK FALSE
