\* The build steps of 305-316 (respondTo = {}, as at 314) with a command
\* that may ask a question, with or without a newline, in a cmd.exe that
\* may end before echoing ENDTOKEN.
CONSTANTS
    Find = TRUE
    Respond = FALSE
    Prompts = TRUE
    PromptEndsLine = FALSE
    ShellDies = TRUE
    MaxLines = 2
SPECIFICATION Spec
PROPERTY ShellReturns
CHECK_DEADLOCK FALSE
