SPECIFICATION FairSpec
CONSTANTS
    w1 = w1
    w2 = w2
    a1 = a1
    loop = loop
    Loop = loop
    Worker = {w1, w2}
    App = {a1}
    Thread <- Threads
    MaxStructs = 4
    Scenarios <- AllScenarios
    Backend = {"native", "argobots"}
    Cell = {1, 2, 3, 4}
INVARIANTS WatchesIfOrderly ArmedOnce NoFault TicksCounted ArgsOfTrigger
PROPERTIES TimerEnds
CHECK_DEADLOCK FALSE
