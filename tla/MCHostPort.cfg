CONSTANTS
    Packet <- MCPacket
    Size <- MCSize
    MaxCapacity <- MCCapacity
    Fake = Fake
SPECIFICATION FairSpec
CHECK_DEADLOCK FALSE
INVARIANTS
    PortInv
    CounterExact
PROPERTIES
    ImplementsChannel
    EventuallySent
