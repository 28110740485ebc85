SPECIFICATION FairSpec
CONSTANTS
    a1 = a1
    a2 = a2
    p1 = p1
    NoFile = NoFile
    Addr = {a1, a2}
    Pool = {p1}
    Tree <- MCTree
    Slot = {1, 2}
    Requests <- MCRequests
    MaxChunks = 1
    CacheCap = 1
    PoolCap = 1
    PersistInterval = 2
    MaxRequests = 3
INVARIANTS
    PaidBeforeStored
    AckedIsDurable
    NeverUndercounts
PROPERTIES
    Answered
CHECK_DEADLOCK FALSE
