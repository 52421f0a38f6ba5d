SPECIFICATION UiSpec
SYMMETRY Symmetry
CONSTANTS
    s1 = s1
    v1 = v1
    v2 = v2
    k1 = k1
    k2 = k2
    Workers = {w1, w2}
    Sources = {s1}
    Versions = {v1, v2}
    Keys = {k1, k2, other}
    UploadKey <- KeyOfUpload
    MaxAttempts = 2
    MaxJobs = 2
    MaxUpsets = 2
    NoOwner = NoOwner
    NoValue = NoValue
INVARIANTS
    QueueInv
PROPERTIES
    SupersededNeverSettles
    RestingJobsAreKept
