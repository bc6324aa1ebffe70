CONSTANTS
    PusPerDcm <- MCPusPerDcm
    MaxQueued = 2
SPECIFICATION FairSpec
INVARIANTS
    StrategyInv
    WaitsOnlyWithExcuse
PROPERTIES
    EveryPuServed
