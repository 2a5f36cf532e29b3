SPECIFICATION Spec
CONSTANTS
    Friends = {alice}
    AutoAccept = {}
    Nobody = nobody
    MaxInvites = 2
    MaxStarts = 0
INVARIANTS
    FramesDroppedOnlyForCancelled
CHECK_DEADLOCK FALSE
