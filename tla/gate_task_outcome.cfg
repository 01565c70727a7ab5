\* Does every Task that logged BEGIN log END or ABORT before mx exits?
CONSTANTS
    Platform <- MCLinux
    VmSourcesAvailable = TRUE
    AbortRaises <- MCSystemExit
SPECIFICATION Spec
INVARIANT
    EveryTaskTerminated
CHECK_DEADLOCK FALSE
