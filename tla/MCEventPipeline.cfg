CONSTANTS
    PU = {1, 2}
    ROS = {1, 2}
    RobIds <- MCRobIds
    Credits = 2
    MaxParallelJobs = 1
    L2Requests = {2}
    RequestsPerSource = 2
    MaxSteps = 2
    Threshold = 3
    MaxEvents = 2
SPECIFICATION FairSpec
CHECK_DEADLOCK FALSE
INVARIANTS
    CreditsInv
    OneStage
    BuiltComplete
PROPERTIES
    EventuallyIdle
