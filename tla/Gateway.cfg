SPECIFICATION Spec
CONSTANTS
    FailureThreshold = 2
    MaxFailures = 4
    Requests = {r1, r2}
    Idle = Idle
    Names <- MCNames
    StartupTrackers <- MCStartupTrackers
    ServedApps <- ServableApps
SYMMETRY Slots
INVARIANTS
    TypeOK
    LoopHeldByRunning
    TrailTellsResponse
    LateRunsBounded
PROPERTIES
    ImplementsEnforcement
CHECK_DEADLOCK FALSE
