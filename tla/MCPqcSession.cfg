\* Two sessions and three calls that compete for one permit: the counter of a
\* session reaches its limit when all calls are on it.
SPECIFICATION FairSpec
CONSTANTS
    Session = {s1, s2}
    Call = {c1, c2, c3}
    Width = 4
    MaxSeq = 3
    GlobalPermits = 1
    SessionPermits = 1
    InOrder = FALSE
CHECK_DEADLOCK FALSE
INVARIANTS
    NonceUnique
    PermitsBalanced
    LagIsLostStreams
PROPERTIES
    CallsReturn
