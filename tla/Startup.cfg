SPECIFICATION Spec
CONSTANTS
    MaxStarts = 2
INVARIANTS
    TypeOK
    ServesServableApp
    ReadyIffStarted
    ReadyMeansEquipped
    PublishedOnlyVetted
    FailureMatrix
CHECK_DEADLOCK FALSE
