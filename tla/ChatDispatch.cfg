SPECIFICATION FairChatSpec
CONSTANTS
    k1 = k1
    k2 = k2
    root = root
    tip = tip
    Root = root
    Tip = tip
    Keys = {k1, k2}
    Handlers = {h1, h2}
    KeySession <- TwoSessions
    MaxRuns = 3
    MaxUpsets = 2
INVARIANTS
    ChatTypeOK
    OneRunPerKey
    OverlapNeedsRefusal
PROPERTY
    EveryMessageSettles
CHECK_DEADLOCK FALSE
