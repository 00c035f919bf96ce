SPECIFICATION Spec
CONSTANTS
    None = None
    Base = 6
    Payload = 2
    MaxValLen = 2
    Values <- ShortValues
    Paths = {"network"}
CHECK_DEADLOCK FALSE
INVARIANTS
    AcceptedSurvives
