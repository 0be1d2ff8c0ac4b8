CONSTANTS
    r1 = r1
    r2 = r2
    r3 = r3
    r4 = r4
    r5 = r5
    NoRoot = NoRoot
    Roots = {r1, r2, r3}
    MaxConcurrency = 1
    MaxPending = 2
    Cancellable = {r1, r2, r3}
    Fallible = {}
    Losable = {}
SPECIFICATION Spec
INVARIANT ConcurrencyBound
CHECK_DEADLOCK FALSE
