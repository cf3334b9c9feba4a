SPECIFICATION Spec
CONSTANTS
    Incident <- Injected
    Plan <- Plans
    MaxDays = 4
INVARIANTS
    StreakIsUnbroken
    CanonicalOutcome
CHECK_DEADLOCK FALSE
