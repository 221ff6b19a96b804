SPECIFICATION AgentSpec
CONSTANTS
    NoView = NoView
    Null = Null
    s1 = s1
    o1 = o1
    vol = vol
    notes = notes
    payroll = payroll
    up = up
    Scopes = {"search", "index", "read"}
    Granularities = {"file", "directory", "volume"}
    Proc = {s1, o1}
    Servers = {s1}
    Operators = {o1}
    Tools = {"index", "read"}
    Names = {vol, notes, payroll, up}
    ParentDir = up
    Files <- MCSpelled
    Scoped <- MCVolumeAndFile
    Grants <- MCNoGrants
    Crawled <- MCVolumes
    IndexWindow = 1
    Level <- MCLevel
    Cap <- MCCap
    ExcerptEnabled <- MCExcerptEnabled
    Rest <- MCRest
    Initial <- MCUsed
    MaxCalls = 2
    MaxGrants = 3
    MaxTime = 0
INVARIANTS
    ServedUnderLiveLease
    IndexedWasAllowed
PROPERTIES
    ImplementsTrail
