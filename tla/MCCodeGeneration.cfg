CONSTANTS
    Mac = {"a", "b", "c"}
    Vlan = {"-1", "7"}
    Untagged = "-1"
    Network <- MCNetwork
    Programs <- MCPrograms
    IntentId = {"id1", "id2"}
    MaxRuns = 3
SPECIFICATION Spec
CHECK_DEADLOCK FALSE
INVARIANTS
    TopologyInv
    IntentsHaveHosts
    RecordedIsInstalled
    RunsAddAtMost
