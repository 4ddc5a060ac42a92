SPECIFICATION Spec
CONSTANTS
    FailureThreshold = 2
    MaxFailures = 3
    Requests = {r1, r2}
    Idle = Idle
    Names <- MCNames
    StartupTrackers <- MCStartupTrackers
    ServedApps <- StrictApps
INVARIANT
    NoEvaluationWhileDegraded
CHECK_DEADLOCK FALSE
