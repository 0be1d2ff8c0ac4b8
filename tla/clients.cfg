CONSTANTS
    l1 = l1
    l2 = l2
    e1 = e1
    e2 = e2
    k1 = k1
    k2 = k2
    c1 = c1
    c2 = c2
    u1 = u1
    b1 = b1
    b2 = b2
    EmitterScope = EmitterScope
    CarrierScope = CarrierScope
    SubmitScope = SubmitScope
    NoEmit = NoEmit
    NoOne = NoOne
    Listeners = {l1, l2}
    Emits = {e1, e2}
    EmitterClosers = {k1, k2}
    MaxRegistrations = 2
    Calls = {c1, c2}
    Managed = {c2}
    Submits = {u1}
    BridgeClosers = {b1, b2}
    Casts <- Programs
    Scopes <- AllScopes
    Work <- AllWork
SPECIFICATION FairSpec
INVARIANTS OnceIsOnce AcceptedEmitIsWhole ClosedIsQuiet
PROPERTY ShutdownEnds
CHECK_DEADLOCK FALSE
