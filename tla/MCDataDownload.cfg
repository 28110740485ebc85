SPECIFICATION FileSpec
CONSTANTS
    MaxChunk = 2
    Sizes = {8}
    MaxRead = 2
    Channel = 2
    Wave = 4
    Batch = 2
    Peers = 2
    CacheCap = 2
    Modes = {"memory"}
    Kinds = {"data"}
    MaxDownloads = 1
INVARIANTS
    DataDownloadWorks
CHECK_DEADLOCK FALSE
