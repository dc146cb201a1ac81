\* Every client with five records, one failure, and batches of two.
CONSTANTS
    MaxRecord = 5
    BatchSize = 2
    MaxQueueSize = 3
    ChannelCapacity = 2
    BodyLimit = 2
    MaxFaults = 1

SPECIFICATION FairSpec

INVARIANTS
    ClientInv
    LossIsCounted
    DuplicatesNeedAFailure
    BacklogBounded
    BacklogInOrder
    CloseDelivers
    ExitLeavesOnlyNewer

PROPERTY Delivered

CHECK_DEADLOCK FALSE
