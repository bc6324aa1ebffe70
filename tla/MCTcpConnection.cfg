CONSTANTS
    Packets = 4
    InitialThreshold = 2
    MaxCapacity = 1
SPECIFICATION FairSpec
CHECK_DEADLOCK FALSE
INVARIANTS
    TcpInv
    AcknowledgedWasReceived
PROPERTIES
    ImplementsChannel
    EventuallyAcknowledged
