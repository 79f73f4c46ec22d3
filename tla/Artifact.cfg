SPECIFICATION FairSpec
CONSTANTS
    Sizes = {0, 1, 2, 3, 4, 5, 6, 7, 8}
    Lengths = {0, 1, 5, 9}
    Starts = {0, 1}
    Maxima = {1, 2, 3}
    BufferBytes = 2
    MaxU32 = 3
    MaxU64 = 8
INVARIANTS
    TypeOK
    ChunksExact
    StableSourceSuffices
    DescribedBytesSent
    TooManyOnlyIfNeeded
PROPERTIES
    CancelledCallsEnd
