SPECIFICATION Spec
CONSTANTS
    StreamNames = {"a", "b"}
    StreamId = 1
    UnpublishTid = 0
    Versions = {3, 6}
    MaxAsked = 3
    MaxPublishing = 1
INVARIANTS NoMutualWait FailsForAReason OnTheStreamGiven
PROPERTIES RefinesSession AskedIsServed
CHECK_DEADLOCK FALSE
