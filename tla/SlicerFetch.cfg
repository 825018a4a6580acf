SPECIFICATION Spec
CONSTANTS
    Items = {1, 2}
    Slices = {"a", "b", "c", "d"}
    NoSlice = NoSlice
    Client = Client
    Free = Free
    SizeOf <- Size
    Offers <- Overlapping
    Needs <- Chained
    MaxRounds = 1
    MaxRequests = 2
    MayPause = FALSE
    MayCancel = FALSE
    MayFail = FALSE
CHECK_DEADLOCK FALSE
INVARIANTS
    NoOverlap
    NoRequestLost
    ItemFoundBeforeCleared
PROPERTIES
    FetchEnds
