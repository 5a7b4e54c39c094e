SPECIFICATION Spec
CONSTANTS
    Messages <- MCMessages
    Codecs <- MCCodecs
    MaxLength = 600
    Counters = 4
    Times = 8
    MaxMessages = 3
    MaxFaults = 1
INVARIANTS WholeOrNotAtAll FaultsCostLittle
CHECK_DEADLOCK FALSE
