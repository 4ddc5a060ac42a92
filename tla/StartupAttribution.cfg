SPECIFICATION Spec
CONSTANTS
    MaxStarts = 1
INVARIANT
    FailureIsAttributed
CHECK_DEADLOCK FALSE
