SPECIFICATION Spec
CONSTANTS
    MaxRow = 3
    MaxFiles = 1
    TargetSize = 3
    MaxCrashes = 1
    MaxFaults = 0
INVARIANTS NoDuplicateWindow

CHECK_DEADLOCK FALSE
