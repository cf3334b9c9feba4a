SPECIFICATION Spec
CONSTANTS
    Person = {ann, ben, cas, dan}
    Submission <- MCSubmission
    NoCandidate = NoCandidate
INVARIANTS
    StatusTellsLastVerdict
    FactsAreApproved
    ClaimRestsOnVerdicts
SYMMETRY PersonSymmetry
PROPERTY PublishesAsPromised
CHECK_DEADLOCK FALSE
