SPECIFICATION Spec
CONSTANTS
    r1 = r1
    r2 = r2
    Reporters <- OneReporter
    QUEUE_LENGTH = 2
    Calls <- MbedCalls
    Faults <- MbedFaults
    MaxCalls = 2
    MaxMsgs = 2
    MaxAvail = 1
INVARIANTS
    SentInOrder
    AttemptRetried
PROPERTIES
    StartLoopEnds
CHECK_DEADLOCK FALSE
