SPECIFICATION IndexSpec
CONSTANTS
    NoView = NoView
    Null = Null
    p1 = p1
    p2 = p2
    f1 = f1
    f2 = f2
    Proc = {p1}
    Files = {f1, f2}
    OldTexts = {0}
    Unencodable = {1}
    Rest <- MCRest
    MaxCalls = 2
    MaxEdits = 2
INVARIANTS
    NoHalfIndexedFile
