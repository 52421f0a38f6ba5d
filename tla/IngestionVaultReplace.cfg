SPECIFICATION VaultSpec
CHECK_DEADLOCK FALSE
CONSTANTS
    s1 = s1
    k1 = k1
    k2 = k2
    r1 = r1
    r2 = r2
    c1 = c1
    c2 = c2
    Workers = {w1}
    Sources = {s1}
    Versions = {1, 2}
    Keys = {k1, k2, r1, r2}
    Captures = {c1, c2}
    Requests <- Replacement
    RecoveryKeys <- Recovery
    Guarded = FALSE
    MaxAttempts = 1
    MaxJobs = 2
    MaxAsks = 0
    MaxUpsets = 0
    NoOwner = NoOwner
    NoValue = NoValue
INVARIANT
    CompletedHasExtraction
