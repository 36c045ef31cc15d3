SPECIFICATION Spec
CONSTANTS
    Clients = {c1, c2}
    Buckets = {x, y}
    Objects = {k}
    CacheCap = 1
    None = None
    Absent = Absent
    MaxOps = 5
    MaxCrashes = 1
INVARIANTS
    InfoFresh
    CountFresh
    SettingsKept
    
SYMMETRY Symmetry
