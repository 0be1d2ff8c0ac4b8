CONSTANTS
    r1 = r1
    r2 = r2
    r3 = r3
    r4 = r4
    r5 = r5
    NoRoot = NoRoot
    Roots = {r1, r2, r3, r4, r5}
    MaxConcurrency = 2
    MaxPending = 2
    Cancellable = {r1, r2, r3, r4}
    Fallible = {r1, r2}
    Losable = {r1}
SPECIFICATION FairSpec
INVARIANTS PermitsCounted QueueIsWaiting WorkConserving
PROPERTIES FirstComeFirstServed AcceptedRootsEnd
CHECK_DEADLOCK FALSE
