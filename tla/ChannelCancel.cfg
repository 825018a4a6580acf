SPECIFICATION Spec
CONSTANTS
    Capacity = 2
    Expected = 4
    Produced = 4
    WriteSizes = {1, 3}
    ReadSizes = {1, 3}
    MayFail = FALSE
    MayFlush = FALSE
    SpuriousWakes = FALSE
CHECK_DEADLOCK FALSE
PROPERTIES
    DestructorEnds
