SPECIFICATION FairSpec
CONSTANTS
    s1 = s1
    s2 = s2
    d1 = d1
    d2 = d2
    r1 = r1
    r2 = r2
    Solo = {s1, s2}
    Dirs = {"default", "given"}
    Layouts <- MCLayouts
    Dev <- DevList
    BootCount = 1
    Req = {r1, r2}
    Asked = {s1, d2}
    Cap = 1
    Permits = 1
    MaxStarts = 3
    MaxNoise = 1
INVARIANTS
    OwnAnswer
    IdentityKept
    DevnetAllOrNone
PROPERTIES
    TasksFinish
CHECK_DEADLOCK FALSE
