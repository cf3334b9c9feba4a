SPECIFICATION Spec
CONSTANTS
    Thread = {t1}
    Asked <- MCAsked
INVARIANTS
    FailsClosed
    DisagreementsExplained
