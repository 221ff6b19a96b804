SPECIFICATION Spec
CONSTANTS
    p1 = p1
    p2 = p2
    a = a
    b = b
    NoView = NoView
    Proc = {p1, p2}
    Rest = {a, b}
    MaxCalls = 2
SYMMETRY Interchangeable
INVARIANTS
    TypeOK
    SequenceGapFree
    ChainedBackwards
    OutcomeTruthful
    BreaksBetweenProcesses
    ReportsStayTrue
PROPERTIES
    AppendOnly
    ImplementsTrail
