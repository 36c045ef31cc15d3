SPECIFICATION Spec
CONSTANTS
    Clients = {c1, c2}
    Ops = {"put", "complete", "copy", "get", "delete", "deleteVersion"}
    Statuses = {"Enabled", "Suspended"}
    MaxUuid = 2
    Bodies = {b1, b2}
    None = None
    MaxOps = 4
    MaxCrashes = 1
    Faults = FALSE
SYMMETRY Symmetry
INVARIANT DurableVersions
