SPECIFICATION Spec
CONSTANTS
    p1 = p1
    p2 = p2
    a = a
    b = b
    NoView = NoView
    Proc = {p1, p2}
    Rest = {a}
    MaxCalls = 1
INVARIANTS
    ChainIntact
