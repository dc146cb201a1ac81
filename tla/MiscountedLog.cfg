\* A crash, a restart that cannot count the log, and no other I/O error.
SPECIFICATION Spec
CONSTANTS
    MaxRow = 3
    BatchSizes = {1, 2}
    MaxGroup = 2
    MpscCap = 2
    HandoffCap = 1
    FlushRowLimit = 2
    LiveCapFactor = 2
    PartitionOf <- MCPartitionOf
    FaultKinds = {"read"}
    MaxFaults = 1
    CrashKinds = {"process"}
    MaxBoots = 2
PROPERTY
    DeletesOnlyFlushedRows
CHECK_DEADLOCK FALSE
