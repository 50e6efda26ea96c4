SPECIFICATION FairSpec
CONSTANTS
    Docs = {d1, d2, d3}
    Short = {d2}
    Oversize = {d3}
    NoDoc = NoDoc
    Threshold = 2
    MaxQueue = 2
    MaxLocal = 1
    MaxAccess = 3
INVARIANTS NeverPremature OneEpisodePerTrigger
PROPERTIES DeletedNotReadAgain QueueIsServed
