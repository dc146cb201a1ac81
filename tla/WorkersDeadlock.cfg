\* One-place channels, and every batch reaches the flush limit.
SPECIFICATION Spec
CONSTANTS
    MaxRow = 5
    BatchSizes = {1}
    MaxGroup = 2
    MpscCap = 1
    HandoffCap = 1
    FlushRowLimit = 1
    LiveCapFactor = 1
    PartitionOf <- MCPartitionOf
    FaultKinds = {}
    MaxFaults = 0
    CrashKinds = {}
    MaxBoots = 1
INVARIANT
    NoCyclicWait
CHECK_DEADLOCK FALSE
