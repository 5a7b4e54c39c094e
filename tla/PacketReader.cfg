CONSTANTS
    Types = {"Audio", "AMF0Data"}
    Times = {0, 1, 3}
    MaxPieces = 3
    MaxPackets = 3
SPECIFICATION Spec
INVARIANTS
    PacketsInOrder
    TimesAreKept
PROPERTY EverythingIsRead
CHECK_DEADLOCK FALSE
