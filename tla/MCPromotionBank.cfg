SPECIFICATION ReaderSpec
CONSTANTS
    FixtureMode = FALSE
    TopRank = 2
    GateOrder <- MCGateOrder
    TransitionOf <- MCTransitionOf
    Blocking <- MCBlocking
    Weight <- MCWeight
    MinimumMode <- MCMinimumMode
    ForeignGate = {"unknown-gate"}
    Capability = {"OFFLINE_ANALYSIS", "MEASURED_SHARE", "SUPERVISED_RM_PILOT", "AUTONOMOUS_CLIENT_ACTION"}
    Threshold <- MCThreshold
    Prerequisite <- MCPrerequisite
    Withheld = {"AUTONOMOUS_CLIENT_ACTION"}
    Client = {c1}
    Person = {"rehearsal.maker", "rehearsal.checker"}
    Role = {"ENGINEERING", "MODEL_RISK"}
    ApprovalId = {0, 1, 2}
    EvaluationInputs <- BankEvaluations
    ApprovalInputs <- BankApprovals
    MaxEvaluations = 3
    MaxOvertaking = 1
INVARIANTS
    PositionIsEarned
    CapabilityVerdictsAgree
    OneWriteNeverOvergrants
PROPERTIES
    RehearsalEvaluationsLeaveRealAlone
    ImplementsAuthority
