SPECIFICATION Spec
CONSTANTS
    Threads = {t1, t2, t3}
    Buckets = {x, y}
    Handles = {h1, h2, h3}
    Inodes = {i1, i2, i3}
    Nil = Nil
    Cap = 1
    Kinds = {"request", "listing"}
    MayClose = TRUE
INVARIANTS
    HandleUsable
    NoLeakedHandle
SYMMETRY Symmetry
VIEW View
