SPECIFICATION FairSpec
CONSTANTS
    MaxRow = 4
    MaxFiles = 1
    TargetSize = 3
    MaxCrashes = 1
    MaxFaults = 1
INVARIANTS
    CompactorInv
    RowsSurvive
    NoVisibleDuplicates
    RewritesBounded

PROPERTIES
    HiddenRowsReturn
    Converges

CHECK_DEADLOCK FALSE
