SPECIFICATION Spec
CONSTANTS
    Items = {1}
    Slices = {"a", "b"}
    NoSlice = NoSlice
    Client = Client
    Free = Free
    SizeOf <- Size
    Offers <- OneItem
    Needs <- NeedsNothing
    MaxRounds = 1
    MaxRequests = 1
    MayPause = FALSE
    MayCancel = TRUE
    MayFail = FALSE
CHECK_DEADLOCK FALSE
INVARIANTS
    ItemFoundBeforeCleared
