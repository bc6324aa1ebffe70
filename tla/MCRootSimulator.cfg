CONSTANTS
    Size = 5
    Finite = {0, 1, 2}
    Pad = 3
    Passive = {4, 5}
    Nested = 2
    InnerSize = 2
    Ports = {0}
    IC <- MCIC
    InnerIC <- MCInnerIC
    EIC <- MCEIC
    EOC <- MCEOC
    tf = 1
    maxSteps = 2
SPECIFICATION EngineSpec
CHECK_DEADLOCK FALSE
INVARIANTS
    AgendaExact
    Paired
    AbortedAfter
