SPECIFICATION SearchSpec
CONSTANTS
    Documents <- TwoDocuments
    Entity = Entity
    Entities = {Entity}
    Notes = {}
    Lines = {}
    Limit = 3
    NoFilter = NoFilter
INVARIANTS FilteredAreFound
CHECK_DEADLOCK FALSE
