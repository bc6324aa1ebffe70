CONSTANTS
    N = 3
    Weight <- MCWeight
    ReportedSize = {0, 1}
SPECIFICATION FairDriverSpec
INVARIANTS
    SchedInv
    BypassBound
PROPERTIES
    NoStarvation
