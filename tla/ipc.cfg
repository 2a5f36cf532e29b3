SPECIFICATION Spec
CONSTANTS
    Instances = {i1, i2, i3}
    Profiles = {p1}
    AnyProfile = any
    Nobody = nobody
    Names = {"activate", "uri"}
    QueueSize = 2
    GcTimeout = 1
    OwnershipTimeout = 2
    Period = 1
    WaitTimeout = 1
    Slack = 0
    StartTime = 10
    LastLaunch = 10
    MaxTime = 12
    MaxCrashes = 1
SYMMETRY Symmetry
INVARIANTS
    TypeOK
    HandledOnce
    EventTimesDistinct
PROPERTIES
    LeavesOnlyIfHandled
CHECK_DEADLOCK FALSE
