CONSTANTS
    a = a
    b = b
    c = c
    d = d
    NoScope = NoScope
    Scopes = {a, b, c, d}
    Ways <- ChainWays
    Openers <- Chain
    MaxLanes = 2
    MaxSlots = 4
SPECIFICATION FairSpec
INVARIANTS NoUpstreamPlacement LeasedSlotKnown
PROPERTIES ScopesEnd EscapesRetire
CHECK_DEADLOCK FALSE
