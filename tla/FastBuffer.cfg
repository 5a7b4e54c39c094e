CONSTANTS
    SRS_DEFAULT_RECV_BUFFER_SIZE = 4
    SRS_MAX_SOCKET_BUFFER = 6
    MaxRequest = 7
    StreamLength = 9
SPECIFICATION Spec
INVARIANTS
    PointersOrdered
    ReadsStayInside
    HoldsTheStream
PROPERTY RefinesByteQueue
