CONSTANTS
    h1 = h1
    h2 = h2
    t1 = t1
    w1 = w1
    Handles = {h1}
    Tasks = {}
    Waiters = {w1}
    Backends = {"caller"}
    MaxCallbacks <- NoneEach
    MaxKids <- NoneEach
    LateCallbacks = "never"
    Lingers = FALSE
    Strays = FALSE
    LoopPauses = FALSE
    Cancels = TRUE
    Cancellers = {w1}
    Timeouts = FALSE
    Failing = {TRUE, FALSE}
SPECIFICATION FairSpec
PROPERTIES EveryBarrierReturns
CHECK_DEADLOCK FALSE
