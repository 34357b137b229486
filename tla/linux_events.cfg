SPECIFICATION Spec
CONSTANTS
    task = task
    p1 = p1
    p2 = p2
    Task <- task
    Callers <- TwoCallers
    SelfDestroy = FALSE
    LongCallbacks = TRUE
    MaxMsgs = 3
INVARIANTS
    TypeOK
    NoLostWakeup
PROPERTIES
    EventFifo
    EventsServed
CHECK_DEADLOCK FALSE
