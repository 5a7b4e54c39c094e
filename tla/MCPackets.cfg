SPECIFICATION Spec
CONSTANTS
    LengthBase = 8
    Names <- MCNames
    PropertyNames <- MCPropertyNames
    Numbers <- MCNumbers
    Integers4 = {0, 1, 9}
    MaxProperties = 2
INVARIANTS
    SizeAgreesWithEncoding
    ArrivesAsSent
    AnotherAnswerIsRefused
    EndsAtAField
