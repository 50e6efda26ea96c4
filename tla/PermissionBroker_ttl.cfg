SPECIFICATION Spec
CONSTANTS
    Reqs = {r1, r2, r3, r4, denied}
    Denied = {denied}
    AutoApproved = {}
    MaxPending = 2
INVARIANTS MountsAreRecorded
