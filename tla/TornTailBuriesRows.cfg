\* The process dies during a group commit and is restarted; no I/O error.
SPECIFICATION Spec
CONSTANTS
    MaxRow = 4
    BatchSizes = {1, 2}
    MaxGroup = 2
    MpscCap = 2
    HandoffCap = 1
    FlushRowLimit = 2
    LiveCapFactor = 1
    PartitionOf <- MCPartitionOf
    FaultKinds = {}
    MaxFaults = 0
    CrashKinds = {"process"}
    MaxBoots = 2
INVARIANT
    AckedRowsAlwaysSurvive
CHECK_DEADLOCK FALSE
