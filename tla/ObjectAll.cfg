SPECIFICATION FairSpec
CONSTANTS
    Clients = {c1, c2}
    Ops = {"put", "complete", "copy", "get", "delete", "deleteVersion"}
    Statuses = {"", "Enabled", "Suspended"}
    MaxUuid = 2
    Bodies = {b1, b2}
    None = None
    MaxOps = 3
    MaxCrashes = 0
    Faults = TRUE
INVARIANTS
    VersionReadsConsistent
PROPERTIES
    ImplementsMetaStore
    EveryRequestEnds
