SPECIFICATION FairSpec
CONSTANTS
    FailureThreshold = 2
    MaxFailures = 3
    Requests = {r1, r2}
    Idle = Idle
    Names <- MCNames
    StartupTrackers <- MCStartupTrackers
    ServedApps <- FullApps
PROPERTIES
    EveryRequestAnswered
    RecoversWithTraffic
CHECK_DEADLOCK FALSE
