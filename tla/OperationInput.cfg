SPECIFICATION SpecRecord
CONSTANTS
    Identifiers <- MCIdentifiers
    NewlineEnded <- MCNewlineEnded
    Trim <- MCTrim
    Queries <- MCQueries
INVARIANTS
    ProducerContextVouched
    NoInternalError
    ProvenanceHonest
    EvidenceExplains
    CanonicalForm
    EndpointsAgree
    RecordExplainsResponse
    ProducerAccountable
    RecordingRaisesOnlyForBlankId
CHECK_DEADLOCK FALSE
