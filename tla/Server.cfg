\* Two requests of one row, one error, and one cast beside the server.
SPECIFICATION FairSpec
CONSTANTS
    Casts = {"tails", "second", "uninstall"}
    MaxRow = 2
    OtherRows = 1
    FlushRowLimit = 1
    LiveCapFactor = 1
    HandoffCap = 1
    TruncateCap = 1
    MaxFaults = 1
    Client = {t1}
    Capacity = 1
INVARIANTS
    ServerInv
    TailAccounts
    GracefulExit
    NoAnswerCut
    NothingBehind
PROPERTIES
    Terminates
CHECK_DEADLOCK FALSE
