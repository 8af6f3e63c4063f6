SPECIFICATION Spec
CONSTANTS
    w1 = w1
    a1 = a1
    a2 = a2
    Task <- Tasks
    Worker = {w1}
    App <- Apps
    Handled <- Handlers
    Faulty = {4}
    Mask <- Masks
    Selects <- Selections
    Priority <- Priorities
    NumLevels = 2
    Scripts <- AbtScripts
INVARIANTS  LostOnlyToQueue
PROPERTIES ImplementsTaskGraph
