SPECIFICATION Spec
CONSTANTS
    None = None
    Base = 6
    Payload = 3
    MaxValLen = 3
    Values <- LongValues
    Paths = {"network", "local"}
CHECK_DEADLOCK FALSE
INVARIANTS
    TypeOK
    ShortValueSurvives
    AnyLengthSurvives
