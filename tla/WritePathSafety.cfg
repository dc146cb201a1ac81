\* Three rows in batches of one or two, a restart, and two I/O errors.
SPECIFICATION Spec
CONSTANTS
    MaxRow = 3
    BatchSizes = {1, 2}
    MaxGroup = 2
    MpscCap = 2
    HandoffCap = 1
    FlushRowLimit = 2
    LiveCapFactor = 1
    PartitionOf <- MCPartitionOf
    FaultKinds = {"append", "rename", "open", "read", "remove", "flush"}
    MaxFaults = 2
    CrashKinds = {"process"}
    MaxBoots = 2
INVARIANTS
    IInv
    AckedRowsSurvive
    DuplicatesBounded
    DrainedIsStored
    LiveBufferBounded
PROPERTIES
    ReclaimsOnlyFlushedRows
    ImplementsStore
CHECK_DEADLOCK FALSE
