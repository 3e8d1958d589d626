\* Two archive threads without caching, disks completed at any time, DB reads and writes in updateDiskStatusDb that may raise: bookings on one disk race, selection races completion.  A raise between acquire and release keeps the semaphore, so the other thread may block for good and the system really stops: deadlock is not checked.
CONSTANTS
    Slots = {1, 2, 3}
    NoSlot = 0
    StorageSets <- MC_StorageSets
    MainSlot <- MC_MainSlot
    RepSlot <- MC_RepSlot
    MimeTypes = {"x"}
    StreamSets <- MC_StreamSets
    Replication = TRUE
    d1 = d1
    d2 = d2
    d3 = d3
    Disks = {d1, d2, d3}
    DiskSlot <- MC_DiskSlot
    Threads = {t1, t2}
    MaxRequests = 1
    FileSizes = {1, 2}
    ExemptLists <- MC_NoExempt
    InitFree <- MC_InitFree
    Caching = FALSE
    ResetOnCompletion = FALSE
    QuiescentCompletion = FALSE
    DbFailures = TRUE
    None = None
    NoEntry = NoEntry

SPECIFICATION Spec
CHECK_DEADLOCK FALSE
INVARIANT SpaceHonoured
PROPERTY Accounting
