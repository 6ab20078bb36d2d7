SPECIFICATION DrmSpec
CONSTANTS
    Buffer = {b1, b2, b3, b4, b5}
    None = None
    SlotCap = 4
    MaxAge = 9
    Full = {"base", "top"}
    MaxUpdates = 2
    MaxPrepared = 4
    MaxSession = 1
    KeepHistory = 4
    Patient = TRUE
CHECK_DEADLOCK FALSE
INVARIANTS RetryShowsScene
