SPECIFICATION NativeSpec
CONSTANTS
    Items <- MCItems
    Depth = 4
    Chunk = 2
    Sizes = {1, 2, 3, 5}
    Inputs <- ReadStreams
    Streams <- WrittenStreams
    Word = 32
    Empty <- MCEmpty
    NameLength <- MCNameLength
    Updates <- MCUpdates
    Cuts = {0, 1, 200}
    Plain <- MCPlain
    NotGzip <- MCNotGzip
    Gzip <- MCGzip
    SignatureSize = 6
CHECK_DEADLOCK FALSE
INVARIANTS
    ReadsTheContent
    ReadsTheStream
    WritesTheStream
    UpdateIsSound
PROPERTIES
    CallsReturn
    EveryReadReturns
    DestructorEndsAfterLastByte
