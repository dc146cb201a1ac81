SPECIFICATION Spec
CONSTANTS
    MaxRow = 3
    MaxFiles = 1
    TargetSize = 3
    MaxCrashes = 2
    MaxFaults = 0
INVARIANTS EveryCrashRecoverable

CHECK_DEADLOCK FALSE
