SPECIFICATION Spec
CONSTANTS
    Clients = {c1, c2, c3}
    Ops = {"put", "copy", "get"}
    Statuses = {"", "Disabled", "Enabled", "Suspended"}
    MaxUuid = 2
    Bodies = {b1, b2}
    None = None
    MaxOps = 4
    MaxCrashes = 0
    Faults = FALSE
SYMMETRY Symmetry
INVARIANT BytesMatchMeta
