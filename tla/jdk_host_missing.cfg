\* A host JDK without man/: the first call aborts at 201 inside the copy
\* loop; no copytree ever fails.
CONSTANTS
    HostDirs <- MCHostNoMan
    Variants <- MCVariants
    Crashes = FALSE
    MaxCalls = 3
SPECIFICATION Spec
INVARIANT ReturnedComplete
CHECK_DEADLOCK FALSE
