CONSTANTS
    Packet <- MCPacket
    Size <- MCSize
    Tos <- MCTos
    N = 2
    Weight <- MCWeight
    MaxCapacity = 2
    NoPacket = NoPacket
    Fake = Fake
    Letter = {"A", "F", "R"}
    Flow <- MCFlow
    Node <- MCNode
    Port = {0, 1}
    MaxEntries = 4
    FlowOf <- MCFlowOf
    NoFlow <- MCNoFlow
    Routes <- MCRoutes
    ThisNode <- R
    ThisPort = 0
SPECIFICATION RouterSpec
CHECK_DEADLOCK FALSE
INVARIANTS
    OrderPreserved
    LoadBalanced
    PreemptedOnlyByBurst
    RoutesExact
