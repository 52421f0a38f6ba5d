SPECIFICATION Spec
SYMMETRY Symmetry
CONSTANTS
    MaxTickets = 2
    MaxCalls = 4
    RequestKeys = {}
    OpIds = {click, type, press}
    Args = {x, y}
    LeaseTtl = 1
    LeaseMax = 1
    QueueTtl = 1
    MaxCached = 2
    NoKey = NoKey
    NoOp = NoOp
INVARIANTS
    SentOnce
    ReplaysAreExact
