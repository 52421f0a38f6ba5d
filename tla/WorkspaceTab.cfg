SPECIFICATION WorkspaceTabSpec
CONSTANTS
    Conversations = {s1, s2}
    None = None
    MaxSelects = 2
    MaxTurns = 2
    MaxActs = 3
    Paths = {a, b, c}
    Documents = {a, b}
    NoPath = NoPath
    MaxEdits = 2
    MaxRequests = 2
    Requests = {a1, a2}
    Foreign = Foreign
    MaxCalls = 2
    MaxForeign = 1
INVARIANTS
    TypesOK
    ShownIsSelected
    EndedRunsAreAnswered
    OneRunPerMessage
    DraftsSurvive
    OncePerRequest
PROPERTIES
    ShownRunsSettle
    TextsStayHome
    ChangesAreNoticed
    JoinsWhatWasShown
CHECK_DEADLOCK FALSE
