SPECIFICATION FairSpec
CONSTANTS
    Thread = {t1, t2, t3}
    FailureThreshold = 2
    ResetSeconds = 1
    AuditLimit = 1
    MaxTime = 2
INVARIANTS
    TripsAtThreshold
PROPERTIES
    KeepsBreakerPromise
    RequestsAnswered
