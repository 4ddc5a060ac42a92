SPECIFICATION Spec
CONSTANTS
    FailureThreshold = 2
    MaxFailures = 2
    Requests = {r1}
    Idle = Idle
    Names <- MCNames
    StartupTrackers <- MCStartupTrackers
    ServedApps <- FullApps
INVARIANT
    EveryOutcomeAudited
CHECK_DEADLOCK FALSE
