CONSTANTS
    ChunkStreamIds = {2, 6, 7}
    RTMP_CID_ProtocolControl = 2
    RTMP_EXTENDED_TIMESTAMP = 2
    TimestampModulus = 4
    SRS_CONSTS_RTMP_PROTOCOL_CHUNK_SIZE = 2
    Messages <- MCMessages
    TransportSize = 3
    MaxSent = 3
SPECIFICATION FairSpec
INVARIANTS
    NeverDesynchronized
    DeliveredAsSent
    ChunkSizesAgree
PROPERTIES
    RefinesMessageChannel
    AllArrives
CHECK_DEADLOCK FALSE
