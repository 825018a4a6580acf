SPECIFICATION Spec
CONSTANTS
    Items = {1, 2}
    Slices = {"a", "b"}
    NoSlice = NoSlice
    Client = Client
    Free = Free
    SizeOf <- Size
    Offers <- TwoItems
    Needs <- NeedsNothing
    MaxRounds = 2
    MaxRequests = 2
    MayPause = TRUE
    MayCancel = TRUE
    MayFail = TRUE
CHECK_DEADLOCK FALSE
INVARIANTS
    CountersCover
    PausedIsQuiet
    OneProducer
PROPERTIES
    DestructorEnds
