SPECIFICATION Spec
CONSTANTS
    RecvFiles = {f1, f2}
    Avatars = {}
    SendFiles = {g1}
    AutoAccept = {f1}
    OwnAvatar = own
    NoFile = none
    RecvNums = {r1}
    SendNums = {s0}
    Zero = s0
    Size = 1
    MaxPauses = 3
    MaxStatusChanges = 1
    MaxLosses = 1
    MaxRefusals = 0
    MaxEvents = 2
    AvatarSentBefore = TRUE
INVARIANTS
    TypeOK
    UiFollowsCoreFile
    PausedAsToxcore
    StaleOnlyBeforeBreak
PROPERTIES
    ChunksOfTheirFile
CHECK_DEADLOCK FALSE
