SPECIFICATION FairSpec
CONSTANTS
    Instances = {i1, i2}
    Profiles = {p1, p2}
    AnyProfile = any
    Nobody = nobody
    Names = {"uri"}
    QueueSize = 1
    GcTimeout = 1
    OwnershipTimeout = 1
    Period = 1
    WaitTimeout = 1
    Slack = 0
    StartTime = 10
    LastLaunch = 10
    MaxTime = 15
    MaxCrashes = 1
PROPERTIES
    OwnerEventually
    WaitEnds
CHECK_DEADLOCK FALSE
