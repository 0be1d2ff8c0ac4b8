CONSTANTS
    s1 = s1
    s2 = s2
    a = a
    b = b
    c = c
    m1 = m1
    m2 = m2
    Subscriptions = {s1, s2}
    SyncReaders = {c}
    AsyncReaders = {a, b}
    SubOf <- MixedSub
    Loops = {m1, m2}
    Settings <- BothModes
    MaxHistory = 1
    Timed = {s1}
    MaxPuts = 2
SPECIFICATION FairSpec
INVARIANTS BufferIsSuffix DeliveredInOrder NoLostWakeup
PROPERTIES LogSpec SyncTimeoutFindsNothing ParkedReadersResume
CHECK_DEADLOCK FALSE
