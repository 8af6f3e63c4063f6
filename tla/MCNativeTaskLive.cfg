SPECIFICATION FairSpec
CONSTANTS
    w1 = w1
    w2 = w2
    a1 = a1
    a2 = a2
    Task <- Tasks
    Worker = {w1}
    App <- Apps
    Handled <- Handlers
    Faulty = {4}
    Mask <- Masks
    Selects <- Selections
    Priority <- Priorities
    NumLevels = 2
    Scripts <- LiveScripts
PROPERTIES EveryTaskEnds OrphanAborted ImplementsTaskGraph
