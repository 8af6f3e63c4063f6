SPECIFICATION FairSpec
CONSTANTS
    j1 = j1
    j2 = j2
    e1 = e1
    App = App
    MaxWorkers = 2
    Job = {j1, j2, e1}
    EventJob = {e1}
    Stale = {j1}
    Level <- Levels
    Last = 2
    Sizes = {0, 1}
    Resizes = {2}
    Backends = {TRUE, FALSE}
INVARIANTS Tokens FreedForGood
PROPERTIES EventsChecked JobsRun FreeReturns
CHECK_DEADLOCK FALSE
