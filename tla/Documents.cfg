SPECIFICATION DocumentsSpec
SYMMETRY Symmetry
CHECK_DEADLOCK FALSE
CONSTANTS
    r1 = r1
    r2 = r2
    text = text
    Records = {r1, r2}
    Template = template
    Texts = {empty, text}
    Empty = empty
    Absent = Absent
    Server = server
    Cli = cli
    Nothing = Nothing
    MaxOps = 2
    MaxOutside = 1
INVARIANTS
    DocumentsTypeOK
    FindingsAgree
PROPERTY
    NothingUnseenIsLost
