SPECIFICATION MCSpec
CONSTANTS
    Threads = {t1, t2, t3}
    Instances = {i1, i2}
    NoThread = NoThread
    None = None
    Unset = Unset
    Failed = Failed
    Idle = Idle
    Asking = Asking
    Callers = {t1, t2, t3}
    NoCaller = NoThread
    Clients = {a, b}
    Checkers = {loop}
    MaxRequests = 2
    Window = 2
    CleanupInterval = 2
    MaxTime = 5
    NoClient = NoClient
    Servers = {s1, s2}
    Sessions = {m1, m2}
    Names = {n1, n2}
    Transcripts = {x1}
    Captures = {c1, c2}
    Nothing = Nothing
    Tasks = {1, 2, 3}
    NoTask = 0
    LoopOf <- TaskLoops
    NoLoop = "none"
    MaxDrivers = 3
    Requests = {a, b}
    MaxTraces = 2
    MaxStarted = 3
    MaxEvents = 2
    Spenders = {a, b}
    Costs = {1, 2}
    BudgetLimit = 3
    MaxTotal = 7
    Documents <- ThreeDocuments
    Entities = {Entity}
    Notes = {Note}
    Lines = {Line}
    Limit = 2
    NoFilter = Nothing
INVARIANTS SessionsAreKept GraphIsUsable TracesAreTrue BestAreGiven PassedIsWithinBudget
PROPERTIES ImplementsOnceCell ComponentsAreWhole ImplementsSlidingWindow
SYMMETRY Symmetry
