SPECIFICATION Spec
CONSTANTS
    Files = {}
    MaxMessages = 1
    MaxCrashes = 0
    MaxToggles = 0
    MaxErasures = 0
INVARIANTS
    CompletionReachesDisk
CHECK_DEADLOCK FALSE
