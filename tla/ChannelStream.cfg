SPECIFICATION Spec
CONSTANTS
    Capacity = 3
    Expected = 5
    Produced = 6
    WriteSizes = {1, 2, 4}
    ReadSizes = {1, 2, 4}
    MayFail = TRUE
    MayFlush = TRUE
    SpuriousWakes = TRUE
CHECK_DEADLOCK FALSE
INVARIANTS
    IInv
PROPERTIES
    ImplementsStream
