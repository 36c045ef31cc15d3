SPECIFICATION FairSpec
CONSTANTS
    Threads = {t1, t2, t3}
    Keys = {k1, k2}
    LockObjs = {l1, l2, l3}
    Modes = {"read", "write"}
    Nil = Nil
INVARIANTS
    NoStaleEntry
PROPERTIES
    ImplementsRWLock
    EveryRequestServed
