SPECIFICATION FairSpec
CONSTANTS
    MaxTickets = 3
    MaxCalls = 2
    RequestKeys = {k1}
    OpIds = {}
    Args = {arg}
    LeaseTtl = 2
    LeaseMax = 3
    QueueTtl = 2
    MaxCached = 1
    NoKey = NoKey
    NoOp = NoOp
INVARIANTS
    OneDriver
    IInv
PROPERTIES
    StaleCallsRefused
    TakesTurns
    LeasesEndForGood
    EveryLeaseEnds
    EveryRequestLeavesTheQueue
