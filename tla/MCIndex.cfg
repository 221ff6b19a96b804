SPECIFICATION IndexSpec
CONSTANTS
    NoView = NoView
    Null = Null
    p1 = p1
    p2 = p2
    f1 = f1
    f2 = f2
    Proc = {p1, p2}
    Files = {f1, f2}
    OldTexts = {0, 2}
    Unencodable = {2}
    Rest <- MCRest
    MaxCalls = 1
    MaxEdits = 1
SYMMETRY Interchangeable
INVARIANTS
    IndexTypeOK
    SkippedIsCurrent
    ReportedIsIndexed
    TablesAgree
