SPECIFICATION FairSpec
CONSTANTS
    RecvFiles = {f1}
    Avatars = {a1}
    SendFiles = {g1}
    AutoAccept = {}
    OwnAvatar = own
    NoFile = none
    RecvNums = {r1}
    SendNums = {s0}
    Zero = s0
    Size = 1
    MaxPauses = 0
    MaxStatusChanges = 1
    MaxLosses = 1
    MaxRefusals = 1
    MaxEvents = 2
    AvatarSentBefore = FALSE
INVARIANTS
    FinishedWasDelivered
PROPERTIES
    ItemsSettle
CHECK_DEADLOCK FALSE
