\* Repeated _jdk calls for product and fastdebug, with and without create,
\* against a complete host JDK; any copytree may raise and end the process.
CONSTANTS
    HostDirs <- MCHostAll
    Variants <- MCVariants
    Crashes = TRUE
    MaxCalls = 4
SPECIFICATION Spec
INVARIANTS
    TypeOK
    ReturnedKnowsGraal
\* Once MaxCalls calls have ended no caller is left: the last state is final.
CHECK_DEADLOCK FALSE
