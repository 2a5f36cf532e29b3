SPECIFICATION FairSpec
CONSTANTS
    Friends = {alice, bob}
    AutoAccept = {bob}
    Nobody = nobody
    MaxInvites = 2
    MaxStarts = 1
INVARIANTS
    TypeOK
    CallsFollowToxav
    UiFollowsCalls
PROPERTIES
    OperationsReturn
CHECK_DEADLOCK FALSE
