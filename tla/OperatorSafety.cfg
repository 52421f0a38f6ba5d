SPECIFICATION OperatorSpec
SYMMETRY OperatorSymmetry
CONSTANTS
    Procs = {p1, p2}
    NoProc = NoProc
    Plan <- EveryKind
    Careful = TRUE
    MaxCrashes = 1
    MaxFaults = 2
    MaxEdits = 1
    Commands = {c1, c2}
    Catalogs = {stable, next}
    Empty = Empty
    Torn = Torn
    Keep = 2
    MaxSyncs = 2
    MaxUpsets = 2
INVARIANTS
    OperatorTypesOK
    AllOrNothing
    PreImagesAreOriginal
    CatalogIsKept
    RefreshIsOwed
    RefusalNeedsALostStage
