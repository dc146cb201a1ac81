\* Two requests of either kind beside two rows, a merge, a sweep and one error.
CONSTANTS
    DayLength = 2
    DaysPerMonth = 3
    MonthsPerYear = 2
    ShortSpan = 2
    LongSpan = 3
    MaxQuery = 2
    MaxRow = 2
    CrowdRows = 0
    Stamps = {1, 4}
    StartTime = 5
    MaxTime = 6
    Ranges = {1, 4}
    RetentionDays = 1
    MaxFiles = 1
    MaxFaults = 1
    MaxQueryRows = 3

SPECIFICATION FairSpec

INVARIANTS
    QueryInv
    OnlyExpiredRowsGo
    SearchReadsOnce
    SteadyRowsFound
    PagesAreGlobal
    AggregatesAreGlobal
    RuntimesAreExclusive

PROPERTIES
    RequestsEnd
    ExpiredRowsGo

CHECK_DEADLOCK FALSE
