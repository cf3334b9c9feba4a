SPECIFICATION Spec
CONSTANTS
    t1 = t1
    t2 = t2
    task1 = task1
    task2 = task2
    Thread = {t1, t2}
    Task = {task1, task2}
    Minimum = 2
    MaxSessions = 2
    MaxFeedback = 3
SYMMETRY Symmetry
INVARIANTS
    SessionsComplete
    ReadinessHoldsTogether
CHECK_DEADLOCK FALSE
