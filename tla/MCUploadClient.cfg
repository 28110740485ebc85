SPECIFICATION FairSpec
CONSTANTS
    a = a
    b = b
    List <- MCList
    Peer = {p1, p2, p3}
    Flaky = {p3}
    Majority = 2
    WaveSize = 1
    MaxLeaves = 2
    Threshold = 2
    Concurrency = 2
    Plans <- MCPlans
    Again <- MCAgain
    MaxLate = 1
INVARIANTS
    UploadedIsReplicated
    NeverPaysForHeld
    OneWaveAtRisk
    PaidOnce
PROPERTIES UploadEnds
CHECK_DEADLOCK FALSE

