CONSTANTS
    NFlows = 3
    Start <- MCStart
    Period <- MCPeriod
    RawSize <- MCRawSize
    MaxPackets = 4
SPECIFICATION ServerSpec
CHECK_DEADLOCK FALSE
INVARIANTS
    ScheduleInv
    GeneratedInOrder
