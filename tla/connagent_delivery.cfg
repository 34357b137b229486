SPECIFICATION Spec
CONSTANTS
    r1 = r1
    r2 = r2
    Reporters <- OneReporter
    QUEUE_LENGTH = 10
    Calls <- DeliveryCalls
    Faults <- NoFaults
    MaxCalls = 2
    MaxMsgs = 3
    MaxAvail = 1
PROPERTIES
    ReportsDelivered
CHECK_DEADLOCK FALSE
