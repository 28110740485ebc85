SPECIFICATION PolicySpec
CONSTANTS
    MaxCrashes = 3
    CrashWindow = 8
    Stable = 8
    MaxBackoff = 2
    Horizon = 20
    None = None
INVARIANTS
    ErroredOnlyAfterBurst
CHECK_DEADLOCK FALSE
