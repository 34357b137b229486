SPECIFICATION Spec
CONSTANTS
    Ports = {"freertos", "mbed", "linux"}
    Addresses = {a1, a2}
    NoSoc = none
    QUEUE_LENGTH = 1
    MaxNotices = 2
    MaxBytes = 1
    MaxOpens = 2
INVARIANTS
    TypeOK
    PollAlive
    BlockedSendWoken
PROPERTIES
    CloseReturns
CHECK_DEADLOCK FALSE
