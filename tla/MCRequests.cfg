SPECIFICATION RequestSpec
CONSTANTS
    Thread = {t1, t2}
    Key = {"k1", "k2"}
    Inputs <- AllInputs
    MaxRequests = 4
INVARIANTS
    OneEventEach
    EnvelopeSignsEvidence
    EvidenceIsSigned
PROPERTIES
    LateRetryWritesNothing
CHECK_DEADLOCK FALSE
