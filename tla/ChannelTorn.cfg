SPECIFICATION TornSpec
CONSTANTS
    Capacity = 2
    Expected = 4
    Produced = 7
    WriteSizes = {1, 3}
    ReadSizes = {1, 2}
    MayFail = FALSE
    MayFlush = FALSE
    SpuriousWakes = FALSE
CHECK_DEADLOCK FALSE
INVARIANTS
    DeliversInOrder
