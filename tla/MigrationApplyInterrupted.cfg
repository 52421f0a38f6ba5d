SPECIFICATION FairApplySpec
CONSTANTS
    Procs = {p1}
    NoProc = NoProc
    Plan <- TwoKinds
    Careful = FALSE
    MaxCrashes = 1
    MaxFaults = 0
    MaxEdits = 0
PROPERTY
    InterruptedApplyRecovers
