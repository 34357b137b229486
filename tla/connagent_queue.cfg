SPECIFICATION Spec
CONSTANTS
    r1 = r1
    r2 = r2
    Reporters <- TwoReporters
    QUEUE_LENGTH = 2
    Calls <- QueueCalls
    Faults <- QueueFaults
    MaxCalls = 3
    MaxMsgs = 3
    MaxAvail = 0
INVARIANTS
    MessagesReleasedOnce
    EveryMessageOwned
PROPERTIES
    FifoOutbox
SYMMETRY Symmetric
CHECK_DEADLOCK FALSE
