SPECIFICATION Spec
CONSTANTS
    r1 = r1
    r2 = r2
    Reporters <- OneReporter
    QUEUE_LENGTH = 2
    Calls <- LifeCalls
    Faults <- LifeFaults
    MaxCalls = 4
    MaxMsgs = 1
    MaxAvail = 1
INVARIANTS
    TypeOK
    RestsResumable
    RouterMatchesState
    AppViewCorrect
CHECK_DEADLOCK FALSE
