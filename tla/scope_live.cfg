CONSTANTS
    h1 = h1
    h2 = h2
    t1 = t1
    w1 = w1
    Handles = {h1, h2}
    Tasks = {}
    Waiters = {w1}
    Backends = {"stage"}
    MaxCallbacks <- TwoOnFirst
    MaxKids <- OneOnSecond
    LateCallbacks = "any"
    Lingers = TRUE
    Strays = FALSE
    LoopPauses = FALSE
    Cancels = TRUE
    Cancellers = {}
    Timeouts = FALSE
    Failing = {FALSE}
SPECIFICATION FairSpec
INVARIANT CallbacksInOrder
PROPERTIES BarriersReturn CallbacksRun
CHECK_DEADLOCK FALSE
