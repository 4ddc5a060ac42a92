SPECIFICATION RoutedSpec
CONSTANTS
    FailureThreshold = 2
    MaxFailures = 4
    Requests = {r1}
    Idle = Idle
    Names <- MCNames
    StartupTrackers <- MCStartupTrackers
    ServedApps <- StrictApps
PROPERTY
    RecoversBehindRouting
CHECK_DEADLOCK FALSE
