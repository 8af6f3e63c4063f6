SPECIFICATION FairSpec
CONSTANTS
    Thread = {t1, t2, t3}
    Item = {x1, x2, x3}
    Nil = Nil
    InitSize = 1
    Multiplier = 2
    MaxScans = 2
INVARIANTS Contents
PROPERTIES ScansComplete PushReturns
CHECK_DEADLOCK FALSE
