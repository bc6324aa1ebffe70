CONSTANTS
    Packet <- MCPacket
    Size <- MCSize
    Tos <- MCTos
    N = 2
    Weight <- MCWeight
    MaxCapacity = 3
    NoPacket = NoPacket
    Fake = Fake
SPECIFICATION FairSpec
CHECK_DEADLOCK FALSE
INVARIANTS
    EgressInv
    WorkConserving
PROPERTIES
    ImplementsChannels
    EventuallyDelivered
