SPECIFICATION Spec
CONSTANTS
    Kinds = {"objects", "versions", "uploads", "parts"}
    Keys <- MCKeys
    Ids = {1, 2}
    LaterIds = {3, 4}
    NullIds = {1, 3}
    QueryPrefixes <- MCPrefixes
    Delimiter = 2
    PageSizes = {1, 2}
    FolderObjects = FALSE
    MarkerDeleted = FALSE
    MaxChanges = 1
INVARIANTS
    StableListed
    ListedOnce
PROPERTIES
    PagingEnds
