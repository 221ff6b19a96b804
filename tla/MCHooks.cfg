SPECIFICATION HookFairSpec
CONSTANTS
    NoView = NoView
    h1 = h1
    s1 = s1
    a = a
    Proc = {h1, s1}
    HookProc = {h1}
    Rest = {a}
    MaxCalls = 3
    MaxBeside = 2
INVARIANTS
    HookTypeOK
    BrokenStatusLogged
PROPERTIES
    HooksEnd
