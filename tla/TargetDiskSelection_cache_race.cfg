\* Archive threads with caching and the reset-on-completion discipline; a disk is completed while a request is in progress.
CONSTANTS
    Slots = {1, 2, 3}
    NoSlot = 0
    StorageSets <- MC_StorageSets
    MainSlot <- MC_MainSlot
    RepSlot <- MC_RepSlot
    MimeTypes = {"x"}
    StreamSets <- MC_StreamSets
    Replication = TRUE
    d1 = d1
    d2 = d2
    d3 = d3
    Disks = {d1, d2, d3}
    DiskSlot <- MC_DiskSlot
    Threads = {t1, t2}
    MaxRequests = 1
    FileSizes = {1, 2}
    ExemptLists <- MC_NoExempt
    InitFree <- MC_InitFree
    Caching = TRUE
    ResetOnCompletion = TRUE
    QuiescentCompletion = FALSE
    DbFailures = FALSE
    None = None
    NoEntry = NoEntry

SPECIFICATION Spec
INVARIANT NoCompletedTarget
