SPECIFICATION Spec
CONSTANTS
    FixtureMode = TRUE
    TopRank = 4
    GateOrder <- CatalogueOrder
    TransitionOf <- CatalogueTransition
    Blocking <- CatalogueBlocking
    Weight <- CatalogueWeight
    MinimumMode <- CatalogueMinimum
    ForeignGate = {"unknown-gate"}
    Capability <- Capabilities
    Threshold <- LicensedFrom
    Prerequisite <- EvidencePrerequisites
    Withheld <- PermanentlyWithheld
    Client = {c1}
    Person = {"rehearsal.maker", "rehearsal.checker"}
    Role = {"ENGINEERING", "MODEL_RISK"}
    ApprovalId = {0, 1}
    EvaluationInputs <- FixtureEvaluations
    ApprovalInputs <- FixtureApprovals
    MaxEvaluations = 2
INVARIANTS
    TypeOK
    FixtureNeverAuthorises
    LogTellsFirstWrite
PROPERTIES
    LateResultsChangeNothing
    FailureDemotes
    RejectionStands
