\* get_stack_dist_list (LRUStack) against get_LRU_stack_from_db on the same
\* table of retrievals: three rows of one obs suffice.
CONSTANTS
    a = a
    b = b
    c = c
    Chunks = {a, b, c}
    OfflineValues <- MC_Retrievals
    MaxDate = 4
    SessionGap = 1
    MaxRows = 4
    DaySecs = 5
    NaN = NaN
    None = None

SPECIFICATION Spec
SYMMETRY MC_Symmetry
CHECK_DEADLOCK FALSE
INVARIANT LRUAgreesWithDb
