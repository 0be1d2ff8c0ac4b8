CONSTANTS
    s1 = s1
    s2 = s2
    k1 = k1
    x1 = x1
    NoSub = NoSub
    MaxLeases = 3
    Subs = {s1, s2}
    Kids = {k1}
    Strays = {x1}
    Cancellable = {s1}
    MaxGenerations = 3
SPECIFICATION FairSpec
INVARIANTS ReservationsCounted NoWorkCutOff SealPostIsSafe
PROPERTIES HandOverInOrder GenerationsRetire SubmissionsRun
CHECK_DEADLOCK FALSE
