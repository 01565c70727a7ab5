\* One invocation of `mx [--<build>] <command>`, with or without the VM
\* sources, under Java 6, 7, 8 and a "9" version string.
CONSTANTS
    Versions <- MCVersions
SPECIFICATION Spec
INVARIANTS
    TypeOK
    SelectionHonoured
\* The invocation ends: the mx process exits in its last state.
CHECK_DEADLOCK FALSE
