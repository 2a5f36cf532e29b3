SPECIFICATION FairSpec
CONSTANTS
    Users = {u1, u2}
    Devices = {camera, screen}
    NONE = NONE
    MaxSubscriptions = 4
    MaxSwitches = 2
    MaxExits = 1
INVARIANTS
    CameraFollowsUse
PROPERTIES
    DeviceKeptWhileRead
    CameraReleased
CHECK_DEADLOCK FALSE
