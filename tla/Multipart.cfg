SPECIFICATION FairSpec
CONSTANTS
    Clients = {c1, c2}
    Parts = {1, 2}
    Contents = {big, small}
    Small = {small}
    Keys = {k1}
    NoKey = NoKey
    Garbled = Garbled
    None = None
    MaxUploads = 1
    MaxOps = 4
    MaxCrashes = 1
INVARIANTS
    PartsPaired
    AssembledAsListed
    NoForeignKey
    NoUnreachableParts
    PublishedOnce
PROPERTIES
    EveryRequestEnds
