CONSTANTS
    h1 = h1
    h2 = h2
    t1 = t1
    w1 = w1
    Handles = {h1, h2}
    Tasks = {t1}
    Waiters = {w1}
    Backends = {"stage", "caller"}
    MaxCallbacks <- OneOnFirst
    MaxKids <- OneOnFirst
    LateCallbacks = "outsideWindow"
    Lingers = FALSE
    Strays = TRUE
    LoopPauses = TRUE
    Cancels = TRUE
    Cancellers = {w1}
    Timeouts = TRUE
    Failing = {TRUE, FALSE}
SPECIFICATION Spec
INVARIANTS WorkCounted ClosedIsFinal EpochCoversAdmitted CancelFence SleepersHaveWork
PROPERTIES BarrierIsComplete ContractSpec
CHECK_DEADLOCK FALSE
