SPECIFICATION Spec
CONSTANTS
    Threads = {t1, t2}
    Admins = {a1, a2}
    MaxGens = 3
    MaxJoins = 2
    MaxDeaths = 1
    NULL = NULL
INVARIANTS
    JoinRefCovers
    ReadyUnlessRaced
PROPERTIES
    MutexReturns
CHECK_DEADLOCK FALSE
