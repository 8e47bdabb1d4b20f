CONSTANTS
    BusinessEvents = {}
    AutomationEvents = {k1}
    Jobs = {j1, j2}
    Workers = {w1}
    Environments <- LivenessEnvironments
    NoDelivery = NoDelivery
    NoJob = NoJob
    QueueAttempts = 2
    MaxStalls = 1
    Subscriptions = {s1}
    Admins = {a1}
SPECIFICATION FairSpec
PROPERTIES
    PendingIsWorked
    ClaimsSettle
CHECK_DEADLOCK FALSE
