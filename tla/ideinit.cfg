CONSTANTS
    NProjects = 2
    MaxLines = 2
SPECIFICATION Spec
INVARIANTS
    TypeOK
    EclipseConfigComplete
CHECK_DEADLOCK FALSE
