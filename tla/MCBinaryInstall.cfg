SPECIFICATION Spec
CONSTANTS
    Job = {1, 2}
    MaxVersion = 3
    Pre = {3}
    Pieces = 2
INVARIANTS
    CacheHonest
    CliIsRelease
CHECK_DEADLOCK FALSE
