\* One failed flush, no crash and no other error.
SPECIFICATION Spec
CONSTANTS
    MaxRow = 4
    BatchSizes = {1, 2}
    MaxGroup = 2
    MpscCap = 2
    HandoffCap = 1
    FlushRowLimit = 2
    LiveCapFactor = 1
    PartitionOf <- MCPartitionOf
    FaultKinds = {"flush"}
    MaxFaults = 1
    CrashKinds = {}
    MaxBoots = 1
INVARIANT
    AckedRowsAlwaysSurvive
CHECK_DEADLOCK FALSE
