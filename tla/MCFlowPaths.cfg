CONSTANTS
    Node = {1, 2, 3, 4}
    Host = {1, 4}
    Topologies <- MCTopologies
    Inf = 100
SPECIFICATION FairSpec
CHECK_DEADLOCK FALSE
INVARIANTS
    ShortestPaths
PROPERTIES
    AcceptedIsRouted
