SPECIFICATION FairSpec
CONSTANTS
    MaxMessages = 2
    MaxParts = 2
    MaxSessions = 2
    MaxRefusals = 1
    MaxDrops = 1
    MaxEvents = 1
    OfflineIds = {101, 202}
    ReceiptNums = 100
INVARIANTS
    NoMessageLost
    HeldOnce
    HeldInSendingOrder
PROPERTIES
    NeverSentAgain
    PromiseKept
    EventuallySettled
CHECK_DEADLOCK FALSE
