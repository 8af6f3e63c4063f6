SPECIFICATION FairSpec
CONSTANTS
    t1 = t1
    t2 = t2
    a1 = a1
    a2 = a2
    Task = {t1, t2}
    Worker = {w1, w2}
    App = {a1, a2}
    Lib = lib
    NoTask = none
    Scenarios <- AllScenarios
INVARIANTS NoUseAfterFree AllFreed RefsCounted
PROPERTIES ClientCallsReturn
CHECK_DEADLOCK FALSE
