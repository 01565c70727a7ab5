CONSTANTS
    Benchmarks <- MCBenchmarks
    Levels <- MCLevels
    Warmup <- MCWarmup
    Tokens <- MCTokensEmpty
    MaxArgs = 4
SPECIFICATION Spec
INVARIANTS
    TypeOK
    ParseMatchesReference
    AcceptsExactlyWellFormed
PROPERTY
    ImplementsCommand
CHECK_DEADLOCK FALSE
