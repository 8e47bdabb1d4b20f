CONSTANTS
    BusinessEvents = {e1}
    AutomationEvents = {}
    Jobs = {j1, j2}
    Workers = {w1, w2}
    Environments <- SafetyEnvironments
    NoDelivery = NoDelivery
    NoJob = NoJob
    QueueAttempts = 2
    MaxStalls = 1
    Subscriptions = {s1}
    Admins = {a1}
SPECIFICATION Spec
SYMMETRY Symmetric
INVARIANTS
    TypeOK
    AttemptPostedOnce
    DeliveredWasAccepted
    RetriesAreMade
PROPERTIES
    ImplementsTickets
CHECK_DEADLOCK FALSE
