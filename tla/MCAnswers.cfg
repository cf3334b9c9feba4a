SPECIFICATION Spec
CONSTANTS
    Thread = {t1, t2}
    Reviewer = {v1, v2}
    AnswerId = {"answer"}
    State = {"state-a", "state-b", "unknown-state"}
    ValidState = {"state-a", "state-b"}
    Key = {"fresh-key", "question-id"}
    SeedKey = {"question-id"}
    MaxRequests = 4
SYMMETRY Symmetry
INVARIANTS
    ApprovedAnswersAreClaims
    RetriesAddNoEvent
PROPERTY
    AnsweredRequestsAreFound
CHECK_DEADLOCK FALSE
