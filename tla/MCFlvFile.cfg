SPECIFICATION Spec
CONSTANTS
    Base = 4
    Tags <- MCTags
    Groups <- MCGroups
    Garbage = {0, 3}
    MaxTags = 2
INVARIANTS ReadAsWritten
PROPERTIES AllIsRead
CHECK_DEADLOCK FALSE
