SPECIFICATION Spec
CONSTANTS
    Transports = {"plain", "aes", "tls"}
    HeaderLen = 2
    BodyLen = 3
    MaxMsgs = 2
INVARIANTS
    TypeOK
    WholeInOrder
PROPERTIES
    MessagesHanded
CHECK_DEADLOCK FALSE
