\* A build step whose command may print a matching line and ask a question
\* respondTo answers, in a cmd.exe that may or may not die on the way.
CONSTANTS
    Find = TRUE
    Respond = TRUE
    Prompts = TRUE
    PromptEndsLine = TRUE
    ShellDies = TRUE
    MaxLines = 3
SPECIFICATION Spec
INVARIANTS
    TypeOK
    ResultIsMarker
PROPERTIES
    ReturnsWhileShellLives
\* Both processes end, the loop raises, or it spins at EOF: the last state is final.
CHECK_DEADLOCK FALSE
