--------------------------- MODULE ReuseDistance ---------------------------
(***************************************************************************)
(* The access-pattern analysis of ngamsUtils/src/ngamsPlotDataAccess.py.   *)
(* The rows (ts, obs_id, offline) of the access table `ac` are read in     *)
(* order by two programs of the module:                                    *)
(*  - get_stack_dist_list, which pushes every row into an AccessStack      *)
(*    (here the LRUStack and the LFUStack side by side) and collects the  *)
(*    stack distances push returns;                                        *)
(*  - get_LRU_stack_from_db, which computes the LRU reuse distance         *)
(*    directly from the reference stream.                                  *)
(* Both skip a row whose obs was counted less than a session gap ago.      *)
(* One step of the model is one row, read by both loops.                   *)
(***************************************************************************)
EXTENDS Integers, Sequences, SequencesExt, FiniteSets

CONSTANTS
    Chunks,       \* obs ids
    OfflineValues,\* values of the ac.offline column: -1 ingest, 0/1 retrieval
    MaxDate,      \* timestamps are 0..MaxDate
    SessionGap,   \* session_gap (in timestamp units)
    MaxRows,      \* rows in the table
    DaySecs,      \* timestamp units in a day (timedelta.seconds wraps there)
    NaN,          \* np.nan, the distance of a first retrieval
    None

VARIABLES
    rows,     \* rows read so far
    lastDate, \* ts of the previous row (the table is read in ts order)
    lru,      \* LRUStack: chunk_ref_dict, chunk_date_dict, ref_stack, yd
    lfu,      \* LFUStack: the same fields
    lrud,     \* LRUDStack: the same, with chunk_pos_rud_dict and access_pos
    liat,     \* LIATStack: the same, with chunk_iat_dict and start_date
    counted,  \* the rows push went ahead with, as [id, mode, date] (history)
    db,       \* get_LRU_stack_from_db: y, yd, uobsDict, uobsDict_date
    vt        \* _raListToVTimeNA over the same accesses: the same fields

vars == <<rows, lastDate, lru, lfu, lrud, liat, counted, db, vt>>

\* AccessStack._mode_map: -1 is an ingest, 0 and 1 are retrievals.
ModeOf(off) == IF off = -1 THEN "INGEST" ELSE "RETRIEVAL"

NoChunk == [c \in Chunks |-> None]

\* AccessStack.__init__: empty dictionaries and an empty ref_stack.  The
\* fields key, pos, apos and start are the subclasses' own state:
\* chunk_pos_rud_dict and access_pos (LRUDStack), chunk_iat_dict and the
\* first epoch (LIATStack).
EmptyStack == [refs |-> NoChunk, dates |-> NoChunk, stack |-> <<>>, yd |-> <<>>,
               key |-> NoChunk, pos |-> NoChunk, apos |-> None, start |-> None]

\* The floats of LRUDStack and LIATStack are halves of halves of integers:
\* a key is kept multiplied by Scale, exact for up to MaxRows halvings.
Scale == 2 ^ MaxRows

\* LRUDStack.init: access_pos starts at -1.
LRUDInit == [EmptyStack EXCEPT !.apos = -1]

\* LIATStack.init: start_date is `SELECT min(ts) from ac`, the ts of the
\* first row of the table.
LIATInit(d) == [EmptyStack EXCEPT !.start = d]

-----------------------------------------------------------------------------
(* SortedCollection(key=itemgetter(1)), not in this repository: items are  *)
(* kept in ascending key order; insert goes to the left of equal keys      *)
(* (bisect_left); remove deletes the item and its position is the stack    *)
(* distance the subclasses return.                                         *)

Insert(s, e) ==
    InsertAt(s, Cardinality({j \in DOMAIN s : s[j].key < e.key}) + 1, e)

Position(s, e) == CHOOSE j \in DOMAIN s : s[j] = e

-----------------------------------------------------------------------------
(* compute_stack_dist returns the updated stack object and the distance;   *)
(* append_access the updated stack object.                                *)
(* LRUStack: the key is minus the date of the last counted access.        *)

\* Mutant: the moved entry goes to the right of equal keys (insort_right).
MutLRUComputeStackDist(st, c, d) ==
    LET i  == Position(st.stack, [id |-> c, key |-> -st.dates[c]])
        s1 == RemoveAt(st.stack, i)
    IN  [st  |-> [st EXCEPT !.stack = InsertAt(s1, Cardinality({j \in DOMAIN s1 : s1[j].key <= -d}) + 1,
                                              [id |-> c, key |-> -d])],
         rud |-> i - 1]

LRUComputeStackDist(st, c, d) ==
    LET i == Position(st.stack, [id |-> c, key |-> -st.dates[c]])
    IN  [st  |-> [st EXCEPT !.stack = Insert(RemoveAt(@, i), [id |-> c, key |-> -d])],
         rud |-> i - 1]

LRUAppendAccess(st, c, m, d) == [st EXCEPT !.stack = Insert(@, [id |-> c, key |-> -d])]

(* LFUStack: the key is minus the reference count.                         *)

\* Mutant: the moved entry goes to the right of equal counts.
MutLFUComputeStackDist(st, c, d) ==
    LET old == st.refs[c] - 1
        i   == Position(st.stack, [id |-> c, key |-> -old])
        s1  == RemoveAt(st.stack, i)
    IN  [st  |-> [st EXCEPT !.stack = InsertAt(s1, Cardinality({j \in DOMAIN s1 : s1[j].key <= -(old + 1)}) + 1,
                                              [id |-> c, key |-> -(old + 1)])],
         rud |-> i - 1]

LFUComputeStackDist(st, c, d) ==
    LET old == st.refs[c] - 1
        i   == Position(st.stack, [id |-> c, key |-> -old])
    IN  [st  |-> [st EXCEPT !.stack = Insert(RemoveAt(@, i), [id |-> c, key |-> -(old + 1)])],
         rud |-> i - 1]

LFUAppendAccess(st, c, m, d) ==
    [st EXCEPT !.stack = Insert(@, [id |-> c, key |-> IF m = "INGEST" THEN 0 ELSE -1])]

(* LRUDStack: the key is the expected reuse distance in virtual time, the  *)
(* mean of the new reuse interval and the previous key.                    *)

LRUDComputeStackDist(st, c, d) ==
    LET i   == Position(st.stack, [id |-> c, key |-> st.key[c]])
        new == st.apos + 1
        rud == ((new - st.pos[c]) * Scale + st.key[c]) \div 2
    IN  [st  |-> [st EXCEPT !.stack = Insert(RemoveAt(@, i), [id |-> c, key |-> rud]),
                            !.apos = new, !.pos[c] = new, !.key[c] = rud],
         rud |-> i - 1]

\* Mutant: a first access does not advance access_pos.
MutLRUDAppendAccess(st, c, m, d) ==
    LET rud == IF m = "RETRIEVAL" THEN st.apos * Scale ELSE 0
    IN  [st EXCEPT !.pos[c] = st.apos, !.key[c] = rud,
                   !.stack = Insert(@, [id |-> c, key |-> rud])]

\* A first retrieval's key is its position; an ingest's is 0
\* (zero_rud_on_ingest).
LRUDAppendAccess(st, c, m, d) ==
    LET p   == st.apos + 1
        rud == IF m = "RETRIEVAL" THEN p * Scale ELSE 0
    IN  [st EXCEPT !.apos = p, !.pos[c] = p, !.key[c] = rud,
                   !.stack = Insert(@, [id |-> c, key |-> rud])]

(* LIATStack: the key is the expected inter-arrival time, the mean of the  *)
(* new interval and the previous key (use_age_weight is False).           *)

LIATComputeStackDist(st, c, d) ==
    LET i   == Position(st.stack, [id |-> c, key |-> st.key[c]])
        iat == ((d - st.dates[c]) * Scale + st.key[c]) \div 2
    IN  [st  |-> [st EXCEPT !.stack = Insert(RemoveAt(@, i), [id |-> c, key |-> iat]),
                            !.key[c] = iat],
         rud |-> i - 1]

\* Mutant: a first retrieval's key is its date, not its time since start.
MutLIATAppendAccess(st, c, m, d) ==
    LET iat == IF m = "RETRIEVAL" THEN d * Scale ELSE 0
    IN  [st EXCEPT !.key[c] = iat, !.stack = Insert(@, [id |-> c, key |-> iat])]

\* A first retrieval's key is its time since the first epoch; an ingest's
\* is 0 (zero_iat_on_ingest).
LIATAppendAccess(st, c, m, d) ==
    LET iat == IF m = "RETRIEVAL" THEN (d - st.start) * Scale ELSE 0
    IN  [st EXCEPT !.key[c] = iat, !.stack = Insert(@, [id |-> c, key |-> iat])]

-----------------------------------------------------------------------------
(* AccessStack.push and the loop body of get_stack_dist_list.              *)

\* The chunk was never counted, or its last counted access is more than a
\* session gap ago.
GoAhead(st, c, d) == st.dates[c] = None \/ d - st.dates[c] > SessionGap

\* The subclass's compute_stack_dist and append_access.
ComputeStackDist(policy, st, c, d) ==
    CASE policy = "LRU"  -> LRUComputeStackDist(st, c, d)
      [] policy = "LFU"  -> LFUComputeStackDist(st, c, d)
      [] policy = "LRUD" -> LRUDComputeStackDist(st, c, d)
      [] policy = "LIAT" -> LIATComputeStackDist(st, c, d)

AppendAccess(policy, st, c, m, d) ==
    CASE policy = "LRU"  -> LRUAppendAccess(st, c, m, d)
      [] policy = "LFU"  -> LFUAppendAccess(st, c, m, d)
      [] policy = "LRUD" -> LRUDAppendAccess(st, c, m, d)
      [] policy = "LIAT" -> LIATAppendAccess(st, c, m, d)

\* push returns None (and changes nothing) inside a session; otherwise it
\* counts the reference, asks the subclass for the distance of a known
\* chunk or appends a new one (None for an ingest, nan for a first
\* retrieval), and records the date.  get_stack_dist_list keeps every
\* result that is not None.
Push(policy, st, c, m, d) ==
    IF ~GoAhead(st, c, d) THEN st
    ELSE LET known == st.refs[c] # None
             st1   == [st EXCEPT !.refs[c] = IF known THEN @ + 1
                                             ELSE IF m = "INGEST" THEN 0 ELSE 1]
             out   == IF known THEN ComputeStackDist(policy, st1, c, d)
                      ELSE [st  |-> AppendAccess(policy, st1, c, m, d),
                            rud |-> IF m = "INGEST" THEN None ELSE NaN]
         IN  [out.st EXCEPT !.dates[c] = d,
                            !.yd       = IF out.rud = None THEN @ ELSE Append(@, out.rud)]

-----------------------------------------------------------------------------
(* get_LRU_stack_from_db, one row.  uobsDict maps an obs to the length of  *)
(* y after its last counted reference (the counter c - 1), so y[lastref:]  *)
(* is what was referenced since.  The date is refreshed on every row.      *)

DbRow(st, c, off, d) ==
    LET ahead == st.dates[c] = None \/ d - st.dates[c] > SessionGap
        rud   == IF st.refs[c] = None THEN NaN
                 ELSE Cardinality(ToSet(SubSeq(st.y, st.refs[c] + 1, Len(st.y))))
        y1    == Append(st.y, c)
    IN  IF ahead
        THEN [st EXCEPT !.y = y1,
                        !.yd = IF off # -1 THEN Append(@, rud) ELSE @,
                        !.refs[c] = Len(y1),
                        !.dates[c] = d]
        ELSE [st EXCEPT !.dates[c] = d]

-----------------------------------------------------------------------------
(* _raListToVTimeNA over the RA list the table was made from               *)
(* (fit_csv_for_sqlite maps an offline of None, a qarchive, to -1).         *)

\* _timeGapInSecs: (d1 - d0).seconds, the remainder of the interval after
\* whole days.
TimeGapInSecs(d1, d0) == (d1 - d0) % DaySecs

\* One RA: a qarchive is skipped; otherwise the date is refreshed and, out
\* of a session, the access is counted and its distance recorded.
VTimeRow(st, c, off, d) ==
    LET ns  == st.dates[c] = None \/ TimeGapInSecs(d, st.dates[c]) > SessionGap
        rud == IF st.refs[c] = None THEN NaN
               ELSE Cardinality(ToSet(SubSeq(st.y, st.refs[c] + 1, Len(st.y))))
        y1  == Append(st.y, c)
    IN  IF off = -1 THEN st
        ELSE IF ns
        THEN [st EXCEPT !.y = y1, !.yd = Append(@, rud), !.refs[c] = Len(y1), !.dates[c] = d]
        ELSE [st EXCEPT !.dates[c] = d]

-----------------------------------------------------------------------------

Init ==
    /\ rows = 0
    /\ lastDate = 0
    /\ lru = EmptyStack
    /\ lfu = EmptyStack
    /\ lrud = LRUDInit
    /\ liat = EmptyStack
    /\ counted = <<>>
    /\ db = [y |-> <<>>, yd |-> <<>>, refs |-> NoChunk, dates |-> NoChunk]
    /\ vt = [y |-> <<>>, yd |-> <<>>, refs |-> NoChunk, dates |-> NoChunk]

\* The next row of `SELECT ts, obs_id, offline from ac`, read by every loop.
\* LIATStack is built once the table exists: its start_date is the first
\* row's ts.
Row(c, off, d) ==
    /\ rows < MaxRows
    /\ d >= lastDate
    /\ lru' = Push("LRU", lru, c, ModeOf(off), d)
    /\ lfu' = Push("LFU", lfu, c, ModeOf(off), d)
    /\ lrud' = Push("LRUD", lrud, c, ModeOf(off), d)
    /\ liat' = Push("LIAT", IF rows = 0 THEN LIATInit(d) ELSE liat, c, ModeOf(off), d)
    /\ counted' = IF GoAhead(lru, c, d)
                  THEN Append(counted, [id |-> c, mode |-> ModeOf(off), date |-> d])
                  ELSE counted
    /\ db' = DbRow(db, c, off, d)
    /\ vt' = VTimeRow(vt, c, off, d)
    /\ rows' = rows + 1
    /\ lastDate' = d

Next == \E c \in Chunks, off \in OfflineValues, d \in 0..MaxDate : Row(c, off, d)

Spec == Init /\ [][Next]_vars

-----------------------------------------------------------------------------
(* Reference definitions over the counted reference stream: the distance   *)
(* a policy should report for the i-th counted reference.  A first         *)
(* reference is nan, or nothing at all when it is an ingest.               *)

Occurrences(p, x) == {j \in DOMAIN p : p[j].id = x}

LastIndex(p, x) == Max(Occurrences(p, x))

\* LRU stack distance: the distinct obs referenced since x was last.
LRURank(p, x) == Cardinality({p[k].id : k \in LastIndex(p, x) + 1 .. Len(p)})

\* Reference count: 0 after an ingest, 1 after a first retrieval, one more
\* for every later counted reference.
Count(p, x) ==
    Cardinality(Occurrences(p, x))
      - (IF p[Min(Occurrences(p, x))].mode = "INGEST" THEN 1 ELSE 0)

\* LFU rank: the obs referenced more often, or as often and more recently.
LFURank(p, x) ==
    Cardinality({y \in {p[k].id : k \in DOMAIN p} \ {x} :
                   \/ Count(p, y) > Count(p, x)
                   \/ Count(p, y) = Count(p, x) /\ LastIndex(p, y) > LastIndex(p, x)})

\* The rank of x in a collection sorted by Key, where an entry goes to the
\* left of the entries with its key that were inserted before it.
SortedRank(p, x, Key(_, _)) ==
    Cardinality({y \in {p[k].id : k \in DOMAIN p} \ {x} :
                   \/ Key(p, y) < Key(p, x)
                   \/ Key(p, y) = Key(p, x) /\ LastIndex(p, y) > LastIndex(p, x)})

\* Expected reuse distance after the references o[1..n] of an obs to the
\* counted stream p, scaled by Scale: a first retrieval counts from the
\* start of the stream, an ingest from 0; every re-reference halves the
\* sum of the new interval (in counted references) and the previous
\* expectation.
LRUDKey(p, x) ==
    LET o == SetToSortSeq(Occurrences(p, x), <)
        RECURSIVE E(_)
        E(n) == IF n = 1 THEN IF p[o[1]].mode = "RETRIEVAL" THEN (o[1] - 1) * Scale ELSE 0
                ELSE ((o[n] - o[n - 1]) * Scale + E(n - 1)) \div 2
    IN  E(Len(o))

\* The same over actual time: intervals between dates, a first retrieval
\* counting from the first row of the table.
LIATKey(p, x) ==
    LET o == SetToSortSeq(Occurrences(p, x), <)
        RECURSIVE E(_)
        E(n) == IF n = 1 THEN IF p[o[1]].mode = "RETRIEVAL" THEN (p[o[1]].date - p[1].date) * Scale ELSE 0
                ELSE ((p[o[n]].date - p[o[n - 1]].date) * Scale + E(n - 1)) \div 2
    IN  E(Len(o))

LRUDRank(p, x) == SortedRank(p, x, LRUDKey)

LIATRank(p, x) == SortedRank(p, x, LIATKey)

IsFirst(s, i) == \A j \in 1 .. i - 1 : s[j].id # s[i].id

Reported(s) ==
    SelectSeq([i \in 1 .. Len(s) |-> i],
              LAMBDA i : ~(IsFirst(s, i) /\ s[i].mode = "INGEST"))

Reference(s, Rank(_, _)) ==
    LET K == Reported(s)
    IN  [k \in 1 .. Len(K) |->
           IF IsFirst(s, K[k]) THEN NaN
           ELSE Rank(SubSeq(s, 1, K[k] - 1), s[K[k]].id)]

-----------------------------------------------------------------------------
(* Properties                                                              *)

\* LRUStack (a SortedCollection keyed by minus the last counted date,
\* insertion to the left of equal dates) reports, for every counted
\* re-reference, its LRU stack distance: the number of distinct obs
\* referenced since, ties in the timestamps included.
LRUIsStackDistance == lru.yd = Reference(counted, LRURank)

\* LFUStack (keyed by minus the reference count, ingests starting at 0)
\* reports for every counted re-reference the number of obs used more
\* often, or as often and more recently ("age is punished").
LFUIsFrequencyRank == lfu.yd = Reference(counted, LFURank)

\* LRUDStack reports for every counted re-reference the number of obs whose
\* expected reuse distance (the running mean of their reuse intervals in
\* counted references) is smaller, or equal and set more recently.
LRUDIsExpectedReuseRank == lrud.yd = Reference(counted, LRUDRank)

\* LIATStack reports for every counted re-reference the number of obs whose
\* expected inter-arrival time (the running mean of their intervals in
\* timestamp units, from the first epoch for a first retrieval) is
\* smaller, or equal and set more recently.
LIATIsExpectedIATRank == liat.yd = Reference(counted, LIATRank)

\* The module's two LRU computations, get_stack_dist_list over an LRUStack
\* and get_LRU_stack_from_db, report the same reuse distances for the same
\* access table.
LRUAgreesWithDb == lru.yd = db.yd

\* On a table of retrievals, _raListToVTimeNA (over the RA list, with dates
\* compared by _timeGapInSecs) and get_LRU_stack_from_db (over epoch
\* timestamps) report the same reuse distances.
VTimeAgreesWithDb == vt.yd = db.yd

=============================================================================
