SPECIFICATION FairSpec
CONSTANTS
    Files = {f1}
    MaxMessages = 3
    MaxCrashes = 1
    MaxToggles = 2
    MaxErasures = 1
INVARIANTS
    TypeOK
    UndeliveredStaysPending
    OneRowPerMessage
    FileResultRecorded
PROPERTIES
    ErasedForGood
    EraseReturns
CHECK_DEADLOCK FALSE
