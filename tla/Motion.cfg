CONSTANTS
    Limit = 1
    Wrap = 3
    DegradedMax = 1
    Others = {}
    HoldMax = 2
    ZohMax = 1
    FallbackMax = 1
    CalSamples = 1
    Modes = {"SPEED", "POSITION", "MIT"}
    Tables = {"output"}
SPECIFICATION Spec
INVARIANTS
    TypeOK
    CalibrationApart
PROPERTIES
    BlindCurrentBounded
    WithdrawnFallsSilent
    LostAuthorityDropped
CHECK_DEADLOCK FALSE
