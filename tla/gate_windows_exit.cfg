\* Windows: does exit status 0 still mean that every check passed?
CONSTANTS
    Platform <- MCWindows
    VmSourcesAvailable = TRUE
    AbortRaises <- MCSystemExit
SPECIFICATION Spec
INVARIANT
    ExitStatusCorrect
CHECK_DEADLOCK FALSE
