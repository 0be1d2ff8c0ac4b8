CONSTANTS
    a = a
    b = b
    c = c
    d = d
    NoScope = NoScope
    Scopes = {a, b, c, d}
    Ways <- Nested
    Openers <- TwoTrees
    MaxLanes = 2
    MaxSlots = 3
SPECIFICATION Spec
INVARIANT NoWaitCycle
CHECK_DEADLOCK FALSE
