\* The gate on a non-Windows host with the HotSpot sources present.
CONSTANTS
    Platform <- MCLinux
    VmSourcesAvailable = TRUE
    AbortRaises <- MCSystemExit
SPECIFICATION Spec
INVARIANTS
    TypeOK
    ExitStatusCorrect
    ShortCircuit
    VariantConsistency
    VmFound
PROPERTY
    ImplementsSequencer
\* gate() returns or raises and the mx process exits: the last state is final.
CHECK_DEADLOCK FALSE
