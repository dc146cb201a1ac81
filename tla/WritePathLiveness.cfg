\* Three rows, a failed flush, a crash or a power loss and the restart
\* after it; channels that cannot fill up.
SPECIFICATION FairSpec
CONSTANTS
    MaxRow = 3
    BatchSizes = {1, 2}
    MaxGroup = 2
    MpscCap = 3
    HandoffCap = 1
    FlushRowLimit = 2
    LiveCapFactor = 1
    PartitionOf <- MCPartitionOf
    FaultKinds = {"flush"}
    MaxFaults = 1
    CrashKinds = {"process", "power"}
    MaxBoots = 2
PROPERTIES
    AckedRowsReachParquet
    ShutdownDrains
CHECK_DEADLOCK FALSE
