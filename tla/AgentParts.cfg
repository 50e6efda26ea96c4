SPECIFICATION MCSpec
CONSTANTS
    Reqs = {r1, r2, auto, denied}
    Denied = {denied}
    AutoApproved = {auto}
    MaxPending = 1
    MaxProcs = 3
    MaxCalls = 3
INVARIANTS AnswersMatch ConnectedIsServed LinksAreKnown EndedStaysEnded
PROPERTIES EveryCallSettles MountsAreTemporary
CHECK_DEADLOCK FALSE
