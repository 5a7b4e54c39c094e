CONSTANTS
    Endpoints = {"client", "server"}
    ControlSize = 2
    MediaSizes = {3}
    Windows = {2}
    HandshakeSize = 1
    SequenceModulus = 1
    MaxSent = 2
SPECIFICATION Spec
INVARIANTS
    PingsAnsweredOnce
    PingsAnsweredInOrder
PROPERTIES
    QuietInTheEnd
    PingsAnswered
CHECK_DEADLOCK FALSE
