SPECIFICATION FairFileSpec
CONSTANTS
    MaxChunk = 2
    Sizes = {2, 5, 7, 8}
    MaxRead = 2
    Channel = 2
    Wave = 4
    Batch = 2
    Peers = 2
    CacheCap = 2
    Modes = {"file", "external", "memory"}
    Kinds = {"file", "data", "browser"}
    MaxDownloads = 2
INVARIANTS
    OutputWhole
    NothingLeft
    FailsOnlyOnFault
PROPERTIES
    UploadIsRecoverable
    StreamAgrees
    RangesAgree
    TransfersEnd
CHECK_DEADLOCK FALSE
