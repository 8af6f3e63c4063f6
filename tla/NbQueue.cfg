SPECIFICATION FairSpec
CONSTANTS
    Thread = {t1, t2}
    Node = {n1, n2, n3}
    Front = Front
    Nil = Nil
INVARIANTS IInv FinalizeFreesAll
PROPERTIES ImplementsFifo CallsReturn
