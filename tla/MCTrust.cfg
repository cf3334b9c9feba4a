SPECIFICATION Spec
CONSTANTS
    KeyId = {"local-rehearsal-p256", "aws-kms-bank"}
    LocalKey = "local-rehearsal-p256"
    Domain <- MCDomain
    Environment <- MCEnvironment
    Role <- MCRole
    Candidate <- MCCandidate
    MaxTime = 3
INVARIANTS
    RehearsalRootsConferNothing
PROPERTY
    LostTrustStaysLost
