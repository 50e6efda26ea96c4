SPECIFICATION HotSpec
CONSTANTS
    Users = {u1}
    NoUser = NoUser
    Kinds = {"query", "template", "embedding"}
    MaxTries = 1
    MaxSize = 1
    MaxLen = 3
    MaxOutages = 1
INVARIANTS CachedQueriesAreFound
CHECK_DEADLOCK FALSE
