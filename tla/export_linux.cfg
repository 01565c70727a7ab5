CONSTANTS
    Platform = "Linux"
    MaxRuns = 3
SPECIFICATION Spec
INVARIANTS
    TypeOK
    ShippedVmUpToDate
CHECK_DEADLOCK FALSE
