CONSTANTS
    Events = {e1}
    Requests = {r1, r2}
    Workers = {w1, w2}
    Admins = {a1}
    NoEvent = NoEvent
    MaxStalls = 1
    EventAttempts = 3
    QueueAttempts = 3
    Environments <- AllEnvironments
SPECIFICATION FairSpec
INVARIANTS
    TypeOK
PROPERTIES
    ImplementsTickets
    ReceivedIsClaimed
    AnsweredIsSettled
CHECK_DEADLOCK FALSE
