SPECIFICATION FairSpec
CONSTANTS
    MaxItems = 3
    MaxQueue = 2
    MaxRetries = 2
    BatchSize = 2
    MaxLoops = 3
    Stoppers = {s1, s2}
INVARIANTS StopMeansStopped
PROPERTIES QueueIsLive ImplementsWorkList
