CONSTANTS
    ChunkStreamIds = {2, 6, 7}
    RTMP_CID_ProtocolControl = 2
    RTMP_EXTENDED_TIMESTAMP = 2
    TimestampModulus = 4
    SRS_CONSTS_RTMP_PROTOCOL_CHUNK_SIZE = 2
    Messages <- MCMessages
    TransportSize = 2
    MaxSent = 3
    PayloadWords = {3, 6}
    ExtendedDeltas = FALSE
    Times <- AllTimes
SPECIFICATION Spec
CHECK_DEADLOCK FALSE
INVARIANTS
    OnlyLookalikesMisread
    DeliveredInOrder
    HeadersAreTheirOwn
PROPERTY AllArrives
