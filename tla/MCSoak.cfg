SPECIFICATION SoakSpec
CONSTANTS
    Null = Null
    Days = 2
    UsageDays = 1
    RowLimit = 1
    DayLength = 1
    MaxTime = 3
    MaxRows = 2
    MaxLost = 1
    MaxFailed = 1
INVARIANTS
    SoakTypeOK
    AlarmHolds
    UsageIsReal
