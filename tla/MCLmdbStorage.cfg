SPECIFICATION Spec
CONSTANTS
    t1 = t1
    t2 = t2
    c1 = c1
    c2 = c2
    a1 = a1
    a2 = a2
    None = None
    Addr = {a1, a2}
    Content = {c1, c2}
    Caller = {t1, t2}
    Hash <- MCHash
    MaxChunks = 1
    VerifyOnRead = TRUE
    MaxCalls = 3
INVARIANTS
    CapacityRespected
    NoCounterDrift
PROPERTIES
    ImplementsContentStore
CHECK_DEADLOCK FALSE
