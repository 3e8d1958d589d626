\* One request at a time with caching on; disks are completed only between requests and the cache is reset when they are.
CONSTANTS
    Slots = {1, 2, 3, 4}
    NoSlot = 0
    StorageSets <- MC_StorageSets3
    MainSlot <- MC_MainSlot3
    RepSlot <- MC_RepSlot3
    MimeTypes = {"x", "y"}
    StreamSets <- MC_StreamSets3
    Replication = TRUE
    d1 = d1
    d2 = d2
    d3 = d3
    Disks = {d1, d2, d3}
    DiskSlot <- MC_DiskSlot
    Threads = {t1}
    MaxRequests = 3
    FileSizes = {1, 2}
    ExemptLists <- MC_ExemptLists
    InitFree <- MC_InitFree
    Caching = TRUE
    ResetOnCompletion = TRUE
    QuiescentCompletion = TRUE
    DbFailures = FALSE
    None = None
    NoEntry = NoEntry

SPECIFICATION Spec
INVARIANT TypeOK
INVARIANT NoCompletedTarget
