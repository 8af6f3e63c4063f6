SPECIFICATION Spec
CONSTANTS
    Thread = {t1, t2, t3}
    Member = {t1, t2}
    BinSize = 2
    Never = 99
    MaxObj = 4
    MaxDepth = 2
INVARIANTS NobodyHolds FreedOnce
CHECK_DEADLOCK FALSE
