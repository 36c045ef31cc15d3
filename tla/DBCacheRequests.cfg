SPECIFICATION Spec
CONSTANTS
    Threads = {t1, t2, t3}
    Buckets = {x, y}
    Handles = {h1, h2, h3}
    Inodes = {i1, i2, i3}
    Nil = Nil
    Cap = 1
    Kinds = {"request"}
    MayClose = TRUE
INVARIANTS
    CachedHandleCurrent
    DeletedStaysDeleted
SYMMETRY Symmetry
VIEW View
