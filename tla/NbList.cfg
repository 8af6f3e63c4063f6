SPECIFICATION FairSpec
CONSTANTS
    Thread = {t1, t2}
    Item = {x1, x2, x3}
    Before = Before
    End = End
    Nil = Nil
INVARIANTS Contents
PROPERTIES ScansComplete DelReturns
CHECK_DEADLOCK FALSE
