\* Archiving system, passes separated by disk swaps, accessibility changes, completions and status dumps.
CONSTANTS
    Slots = {1, 2}
    NoSlot = 0
    StorageSets <- MC_StorageSets
    MainSlot <- MC_MainSlot
    RepSlot <- MC_RepSlot
    MimeTypes = {"x"}
    StreamSets <- MC_StreamSets
    Replication = TRUE
    a = a
    b = b
    c = c
    DiskIds = {a, b, c}
    None = None
    AllowArchive = TRUE
    LiveKeyView = FALSE
    MaxPasses = 3
    MaxChanges = 2

SPECIFICATION Spec
SYMMETRY MC_Symmetry
INVARIANT RoleInvariant
INVARIANT UnmountStale
INVARIANT AssocCompleteness

