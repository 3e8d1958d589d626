\* LRUStack, LFUStack, LRUDStack and LIATStack against the reference definitions: six rows over
\* three obs, ingests and retrievals, timestamps 0..4 with a gap of 1, so
\* rows share timestamps, fall inside and outside a session.
\* The table is finite: the loops end after its last row.
CONSTANTS
    a = a
    b = b
    c = c
    Chunks = {a, b, c}
    OfflineValues <- MC_Offline
    MaxDate = 4
    SessionGap = 1
    MaxRows = 6
    DaySecs = 5
    NaN = NaN
    None = None

SPECIFICATION Spec
SYMMETRY MC_Symmetry
CHECK_DEADLOCK FALSE
INVARIANT LRUIsStackDistance
INVARIANT LFUIsFrequencyRank
INVARIANT LRUDIsExpectedReuseRank
INVARIANT LIATIsExpectedIATRank
