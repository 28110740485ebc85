SPECIFICATION FairSpec
CONSTANTS
    MaxNode = 2
    Registered = 1
    MaxPid = 3
    Handler = {1, 2}
    Ops <- AllOps
    MaxRequests = 3
    MaxRestarts = 1
    Lossy = {1}
INVARIANTS
    OneProcessUnlessStopped
    EveryProcessWatched
    RegistryInSync
PROPERTIES
    NoStaleRunning
CHECK_DEADLOCK FALSE
