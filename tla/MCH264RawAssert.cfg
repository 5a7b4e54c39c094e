CONSTANTS
    Batches <- MCBatches
    MaxCalls = 3
    MaxConnections = 1
SPECIFICATION Spec
INVARIANT SpsAssertHolds
CHECK_DEADLOCK FALSE
