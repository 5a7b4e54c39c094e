CONSTANTS
    SRS_CONSTS_IOVS_MAX = 4
    SRS_CONSTS_C0C3_HEADERS_MAX = 40
    IovLimit = 5
    ChunkSizes = {1, 2}
    Groups <- MCGroups
    MaxMessages = 6
SPECIFICATION Spec
INVARIANTS
    NextPairFits
    WrittenChunkByChunk
    SuccessMeansWritten
PROPERTY
    SlicesWithinLimit
CHECK_DEADLOCK FALSE
