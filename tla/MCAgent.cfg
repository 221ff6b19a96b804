SPECIFICATION AgentFairSpec
CONSTANTS
    NoView = NoView
    Null = Null
    s1 = s1
    o1 = o1
    vol = vol
    notes = notes
    payroll = payroll
    up = up
    Scopes = {"search", "index", "read"}
    Granularities = {"file", "directory", "volume"}
    Proc = {s1, o1}
    Servers = {s1}
    Operators = {o1}
    Tools = {"search", "index", "read", "summary", "get_consent", "list_volumes", "classify"}
    Names = {vol, notes, payroll, up}
    ParentDir = up
    Files <- MCFiles
    Scoped <- MCScoped
    Grants <- MCGrants
    Crawled = {}
    IndexWindow = 1
    Level <- MCLevel
    Cap <- MCCap
    ExcerptEnabled <- MCExcerptOff
    Rest <- MCRest
    Initial <- MCFresh
    MaxCalls = 2
    MaxGrants = 1
    MaxTime = 1
INVARIANTS
    AgentTypeOK
    AnswersAudited
    ServedUnderLiveLease
    IndexedWasAllowed
PROPERTIES
    CallsEnd
