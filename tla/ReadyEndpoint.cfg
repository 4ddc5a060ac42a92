SPECIFICATION SpecReady
CONSTANTS
    FailureThreshold = 3
    MaxWrites = 8
    Probes = {p1, p2}
    Names <- MCNames
    StartupTrackers <- MCStartupTrackers
INVARIANTS
    TypeOK
    CountersExact
    DegradedIffTailFailed
    ReadinessMirrorsWriter
    ReadinessWellKept
    StatusTrueAtSomeInstant
    QuietProbeCoherent
PROPERTY
    ImplementsAuditHealth
CHECK_DEADLOCK FALSE
