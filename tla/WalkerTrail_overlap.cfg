SPECIFICATION Spec
CONSTANTS
    MaxSteps = 4
    MaxLength = 0
    Awaited = FALSE
CHECK_DEADLOCK FALSE
INVARIANTS Mirrored
