\* export with its default options on a non-Windows host.
CONSTANTS
    Platform = "Linux"
    MaxRuns = 1
SPECIFICATION Spec
INVARIANT DistributionHasClasses
CHECK_DEADLOCK FALSE
