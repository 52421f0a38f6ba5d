SPECIFICATION VaultSpec
SYMMETRY Symmetry
CHECK_DEADLOCK FALSE
CONSTANTS
    s1 = s1
    k1 = k1
    k2 = k2
    r1 = r1
    r2 = r2
    c1 = c1
    c2 = c2
    Workers = {w1, w2}
    Sources = {s1}
    Versions = {1}
    Keys = {k1, r1}
    Captures = {c1}
    Requests <- OneCapture
    RecoveryKeys <- Recovery
    Guarded = TRUE
    MaxAttempts = 1
    MaxJobs = 1
    MaxAsks = 1
    MaxUpsets = 1
    NoOwner = NoOwner
    NoValue = NoValue
INVARIANTS
    VaultTypeOK
    CompletedHasExtraction
PROPERTY
    ImplementsQueue
