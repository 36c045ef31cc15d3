SPECIFICATION LifecycleSpec
CONSTANTS
    MaxUuid = 6
    Bodies = {b}
    None = None
    Times = {0, 1, 2, 3, 4, 5, 6, 7, 8, 9}
    Rules <- MCRules
    Statuses = {"", "Enabled", "Suspended"}
    Batch = 1
    LastWrite = 2
    MaxOps = 3
    MaxFaults = 1
INVARIANTS
    IndexCoherent
PROPERTIES
    VersionImmutable
    DeletePromotesNewest
    CurrentKept
    NoResurrection
    EverythingExpires
