CONSTANTS
    Events = {e1}
    Requests = {r1, r2}
    Workers = {w1, w2}
    Admins = {a1}
    NoEvent = NoEvent
    MaxStalls = 1
    EventAttempts = 5
    QueueAttempts = 5
    Environments <- RetryEnvironments
SPECIFICATION Spec
PROPERTIES
    RetryRequeues
CHECK_DEADLOCK FALSE
