------------------------- MODULE TargetDiskSelection -------------------------
(***************************************************************************)
(* Archive request threads of one NG/AMS node choosing a target disk with  *)
(* findTargetDisk() and booking the stored file with updateDiskStatusDb()  *)
(* (ngamsLib/ngamsDiskUtils.py), sharing the ngas_disks rows, the three    *)
(* process-wide caches of findTargetDisk and the _ngamsDisksSem semaphore. *)
(*                                                                         *)
(* A request thread goes through                                           *)
(*   fetch [storeObjs] -> rank [storeBest] -> load [storeInfo]             *)
(*     -> store -> acquire -> read -> write -> release                     *)
(* where each step is one DB query, one cache store or one semaphore       *)
(* operation, the points at which another thread may run.  Free space is   *)
(* counted in MB and a file needs as many MB as its size.                  *)
(***************************************************************************)
EXTENDS NgasDiskConfig, Functions

CONSTANTS
    Disks,             \* disk ids of the disks mounted on this node
    DiskSlot,          \* [Disks -> Slots]: slot each disk is mounted in
    Threads,           \* archive request handler threads
    MaxRequests,       \* requests each thread handles (bound)
    FileSizes,         \* sizes (MB) of incoming files, also their reqSpace
    ExemptLists,       \* diskExemptList values callers pass
    InitFree,          \* [Disks -> Nat]: free MB on each disk at start
    Caching,           \* the caching flag callers pass to findTargetDisk
    ResetOnCompletion, \* callers call findTargetDiskResetCache() when a
                       \* disk is marked completed
    QuiescentCompletion, \* disks are marked completed only while no request
                       \* is in progress (one request at a time)
    DbFailures,        \* DB reads/writes in updateDiskStatusDb may raise
    None,              \* Python None
    NoEntry            \* absent key of a cache dictionary

ASSUME DiskSlot \in [Disks -> Slots] /\ IsInjective(DiskSlot)
ASSUME MaxRequests \in Nat /\ FileSizes \subseteq Nat \ {0}
ASSUME ExemptLists \subseteq SUBSET Disks /\ InitFree \in [Disks -> Nat]
ASSUME {Caching, ResetOnCompletion, QuiescentCompletion, DbFailures} \subseteq BOOLEAN

VARIABLES
    db,          \* ngas_disks rows: [Disks -> Row]
    free,        \* free MB on each disk's file system (getDiskSpaceAvail)
    objsCache,   \* _diskInfoObjsDic:   mime-type -> rows
    bestCache,   \* _bestTargetDiskDic: candidate set -> disk id or None
    infoCache,   \* _diskInfoDic:       <<disk id, mime-type>> -> row
    gate,        \* holder of _ngamsDisksSem, or None
    pc,          \* step each thread is at
    nreq,        \* requests each thread has finished
    call,        \* arguments of the thread's current request
    rows,        \* diskInfoObjs the thread works on
    cands,       \* diskIds: the candidate disks
    best,        \* the disk id ranked best
    info,        \* the row findTargetDisk returns
    local,       \* diskInfo read by updateDiskStatusDb
    dbAtCall     \* history: db when the thread's findTargetDisk was called

vars == <<db, free, objsCache, bestCache, infoCache, gate, pc, nreq, call,
          rows, cands, best, info, local, dbAtCall>>

Row == [slot: Slots, completed: BOOLEAN, avail: Int, bytes: Nat, nfiles: Nat]
Call == [mime: MimeTypes, size: FileSizes, exempt: ExemptLists, exists: BOOLEAN]
Steps == {"idle", "fetch", "storeObjs", "rank", "storeBest", "load",
          "storeInfo", "store", "acquire", "read", "write", "release"}

-----------------------------------------------------------------------------
(* Helpers                                                                 *)

\* Move thread t to step s; returning to "idle" ends the request, whether
\* it succeeded or raised.
Goto(t, s) ==
    /\ pc'   = [pc EXCEPT ![t] = s]
    /\ nreq' = [nreq EXCEPT ![t] = IF s = "idle" THEN @ + 1 ELSE @]

\* getDiskInfoObjsFromMimeType: the rows of the disks in the stream's
\* slots (getDiskInfoForSlotsAndHost).
StreamRows(m) == Restrict(db, {d \in Disks : DiskSlot[d] \in StreamSlotIds(m)})

\* `if reqSpace: if avail < reqSpace / 1048576.: continue`
HasSpace(row, req) == req = 0 \/ row.avail >= req

\* Mutant: the Replication disk is checked for completion but not for space.
MutCandidates(rs, exempt, req) ==
    LET bySlot == [s \in {rs[d].slot : d \in DOMAIN rs} |->
                      rs[CHOOSE d \in DOMAIN rs : rs[d].slot = s]]
    IN  {d \in DOMAIN rs \ exempt :
           /\ IsMainDisk(rs[d].slot)
           /\ ~rs[d].completed
           /\ HasSpace(rs[d], req)
           /\ LET rep == AssocSlotId(rs[d].slot) IN
                (Replication /\ rep # NoSlot /\ rep \in DOMAIN bySlot)
                  => ~bySlot[rep].completed}

\* The candidate loop of findTargetDisk: non-exempt, non-completed Main
\* disks with space whose Replication disk, if replication is on and that
\* disk is among the rows (slotIdDic), is not completed and has space.
Candidates(rs, exempt, req) ==
    LET bySlot == [s \in {rs[d].slot : d \in DOMAIN rs} |->
                      rs[CHOOSE d \in DOMAIN rs : rs[d].slot = s]]
    IN  {d \in DOMAIN rs \ exempt :
           /\ IsMainDisk(rs[d].slot)
           /\ ~rs[d].completed
           /\ HasSpace(rs[d], req)
           /\ LET rep == AssocSlotId(rs[d].slot) IN
                (Replication /\ rep # NoSlot /\ rep \in DOMAIN bySlot)
                  => (~bySlot[rep].completed /\ HasSpace(bySlot[rep], req))}

\* Continue findTargetDisk with the rows rs: filter, and raise
\* NGAMS_AL_NO_STO_SETS when no candidate is left.
UseRows(t, rs) ==
    LET c == Candidates(rs, call[t].exempt, call[t].size) IN
    /\ rows'  = [rows EXCEPT ![t] = rs]
    /\ cands' = [cands EXCEPT ![t] = c]
    /\ Goto(t, IF c = {} THEN "idle" ELSE "rank")

\* Continue with the ranked disk b: raise when it is None.
UseBest(t, b) ==
    /\ best' = [best EXCEPT ![t] = b]
    /\ Goto(t, IF b = None THEN "idle" ELSE "load")

\* updateDiskStatusDb's changes to the row it read.
BookFile(row, c, fr) ==
    [row EXCEPT !.nfiles = @ + (IF c.exists THEN 0 ELSE 1),
                !.avail  = fr,
                !.bytes  = @ + c.size]

\* Mutant: the reset forgets _diskInfoObjsDic.
MutNoCaches ==
    /\ objsCache' = objsCache
    /\ bestCache' = [k \in SUBSET Disks |-> NoEntry]
    /\ infoCache' = [k \in Disks \X MimeTypes |-> NoEntry]

\* findTargetDiskResetCache(): all three dictionaries are emptied.
NoCaches ==
    /\ objsCache' = [m \in MimeTypes |-> NoEntry]
    /\ bestCache' = [k \in SUBSET Disks |-> NoEntry]
    /\ infoCache' = [k \in Disks \X MimeTypes |-> NoEntry]

-----------------------------------------------------------------------------
(* Request threads                                                         *)

Init ==
    /\ db = [d \in Disks |-> [slot |-> DiskSlot[d], completed |-> FALSE,
                              avail |-> InitFree[d], bytes |-> 0, nfiles |-> 0]]
    /\ free = InitFree
    /\ objsCache = [m \in MimeTypes |-> NoEntry]
    /\ bestCache = [k \in SUBSET Disks |-> NoEntry]
    /\ infoCache = [k \in Disks \X MimeTypes |-> NoEntry]
    /\ gate = None
    /\ pc = [t \in Threads |-> "idle"]
    /\ nreq = [t \in Threads |-> 0]
    /\ call = [t \in Threads |-> CHOOSE c \in Call : TRUE]
    /\ rows = [t \in Threads |-> <<>>]
    /\ cands = [t \in Threads |-> {}]
    /\ best = [t \in Threads |-> None]
    /\ info = [t \in Threads |-> None]
    /\ local = [t \in Threads |-> None]
    /\ dbAtCall = [t \in Threads |-> db]

\* An archive request arrives and its handler calls findTargetDisk with
\* the file's mime-type, an exempt list and reqSpace = the file size.
FindTargetDisk(t) ==
    /\ pc[t] = "idle" /\ nreq[t] < MaxRequests
    /\ \E c \in Call : call' = [call EXCEPT ![t] = c]
    /\ dbAtCall' = [dbAtCall EXCEPT ![t] = db]
    /\ pc' = [pc EXCEPT ![t] = "fetch"]
    /\ UNCHANGED <<db, free, objsCache, bestCache, infoCache, gate, nreq,
                   rows, cands, best, info, local>>

\* Cache hit on _diskInfoObjsDic.
FetchCached(t) ==
    /\ pc[t] = "fetch"
    /\ Caching /\ objsCache[call[t].mime] # NoEntry
    /\ UseRows(t, objsCache[call[t].mime])
    /\ UNCHANGED <<db, free, objsCache, bestCache, infoCache, gate, call,
                   best, info, local, dbAtCall>>

\* getDiskInfoObjsFromMimeType queries the rows; it raises when there are
\* none.  With caching the rows are stored in a separate step.
FetchDb(t) ==
    /\ pc[t] = "fetch"
    /\ ~(Caching /\ objsCache[call[t].mime] # NoEntry)
    /\ LET rs == StreamRows(call[t].mime) IN
       IF DOMAIN rs = {} THEN
            /\ Goto(t, "idle")
            /\ UNCHANGED <<rows, cands>>
       ELSE IF Caching THEN
            /\ rows' = [rows EXCEPT ![t] = rs]
            /\ Goto(t, "storeObjs")
            /\ UNCHANGED cands
       ELSE UseRows(t, rs)
    /\ UNCHANGED <<db, free, objsCache, bestCache, infoCache, gate, call,
                   best, info, local, dbAtCall>>

\* `if (caching): _diskInfoObjsDic[mimeType] = diskInfoObjs`
StoreObjs(t) ==
    /\ pc[t] = "storeObjs"
    /\ objsCache' = [objsCache EXCEPT ![call[t].mime] = rows[t]]
    /\ UseRows(t, rows[t])
    /\ UNCHANGED <<db, free, bestCache, infoCache, gate, call, best, info,
                   local, dbAtCall>>

\* Cache hit on _bestTargetDiskDic (it may hold None).
RankCached(t) ==
    /\ pc[t] = "rank"
    /\ Caching /\ bestCache[cands[t]] # NoEntry
    /\ UseBest(t, bestCache[cands[t]])
    /\ UNCHANGED <<db, free, objsCache, bestCache, infoCache, gate, call,
                   rows, cands, info, local, dbAtCall>>

\* dbConObj.getBestTargetDisk(diskIds): the DB's ranking, opaque here: one
\* of the candidates, or None.
RankDb(t) ==
    /\ pc[t] = "rank"
    /\ ~(Caching /\ bestCache[cands[t]] # NoEntry)
    /\ \E b \in cands[t] \cup {None} :
         IF Caching THEN /\ best' = [best EXCEPT ![t] = b]
                         /\ Goto(t, "storeBest")
                    ELSE UseBest(t, b)
    /\ UNCHANGED <<db, free, objsCache, bestCache, infoCache, gate, call,
                   rows, cands, info, local, dbAtCall>>

\* `if (caching): _bestTargetDiskDic[key] = diskId`
StoreBest(t) ==
    /\ pc[t] = "storeBest"
    /\ bestCache' = [bestCache EXCEPT ![cands[t]] = best[t]]
    /\ UseBest(t, best[t])
    /\ UNCHANGED <<db, free, objsCache, infoCache, gate, call, rows, cands,
                   info, local, dbAtCall>>

\* Cache hit on _diskInfoDic: the row is returned.
LoadCached(t) ==
    /\ pc[t] = "load"
    /\ Caching /\ infoCache[<<best[t], call[t].mime>>] # NoEntry
    /\ info' = [info EXCEPT ![t] = infoCache[<<best[t], call[t].mime>>]]
    /\ Goto(t, "store")
    /\ UNCHANGED <<db, free, objsCache, bestCache, infoCache, gate, call,
                   rows, cands, best, local, dbAtCall>>

\* diskInfo.getInfo(): the row of the ranked disk is read and returned
\* (stored in the cache in a separate step when caching).
LoadDb(t) ==
    /\ pc[t] = "load"
    /\ ~(Caching /\ infoCache[<<best[t], call[t].mime>>] # NoEntry)
    /\ info' = [info EXCEPT ![t] = db[best[t]]]
    /\ Goto(t, IF Caching THEN "storeInfo" ELSE "store")
    /\ UNCHANGED <<db, free, objsCache, bestCache, infoCache, gate, call,
                   rows, cands, best, local, dbAtCall>>

\* Mutant: the disk id is cached in place of the disk info.
MutStoreInfo(t) ==
    /\ pc[t] = "storeInfo"
    /\ infoCache' = [infoCache EXCEPT ![<<best[t], call[t].mime>>] = best[t]]
    /\ Goto(t, "store")
    /\ UNCHANGED <<db, free, objsCache, bestCache, gate, call, rows, cands,
                   best, info, local, dbAtCall>>

\* `if (caching): _diskInfoDic[key] = diskInfo`
StoreInfo(t) ==
    /\ pc[t] = "storeInfo"
    /\ infoCache' = [infoCache EXCEPT ![<<best[t], call[t].mime>>] = info[t]]
    /\ Goto(t, "store")
    /\ UNCHANGED <<db, free, objsCache, bestCache, gate, call, rows, cands,
                   best, info, local, dbAtCall>>

\* The archive handler writes the file onto the returned disk; the write
\* fails when the file system has not enough free space.
StoreFile(t) ==
    /\ pc[t] = "store"
    /\ IF free[best[t]] >= call[t].size
         THEN /\ free' = [free EXCEPT ![best[t]] = @ - call[t].size]
              /\ Goto(t, "acquire")
         ELSE /\ Goto(t, "idle")
              /\ UNCHANGED free
    /\ UNCHANGED <<db, objsCache, bestCache, infoCache, gate, call, rows,
                   cands, best, info, local, dbAtCall>>

\* Mutant: updateDiskStatusDb without the semaphore.
MutAcquire(t) ==
    /\ pc[t] = "acquire"
    /\ Goto(t, "read")
    /\ UNCHANGED <<db, free, objsCache, bestCache, infoCache, gate, call, rows,
                   cands, best, info, local, dbAtCall>>

\* updateDiskStatusDb: _ngamsDisksSem.acquire()
Acquire(t) ==
    /\ pc[t] = "acquire"
    /\ gate = None
    /\ gate' = t
    /\ Goto(t, "read")
    /\ UNCHANGED <<db, free, objsCache, bestCache, infoCache, call, rows,
                   cands, best, info, local, dbAtCall>>

\* diskInfo.read(dbConObj, diskId); a raising read leaves the function
\* with the semaphore still acquired.
ReadRow(t) ==
    /\ pc[t] = "read"
    /\ \/ /\ local' = [local EXCEPT ![t] = db[best[t]]]
          /\ Goto(t, "write")
       \/ /\ DbFailures
          /\ Goto(t, "idle")
          /\ UNCHANGED local
    /\ UNCHANGED <<db, free, objsCache, bestCache, infoCache, gate, call,
                   rows, cands, best, info, dbAtCall>>

\* The counters are updated from the row read, available space is probed
\* again, and diskInfo.write(dbConObj) stores the row (or raises, again
\* leaving the semaphore acquired).
WriteRow(t) ==
    /\ pc[t] = "write"
    /\ \/ /\ db' = [db EXCEPT ![best[t]] = BookFile(local[t], call[t], free[best[t]])]
          /\ Goto(t, "release")
       \/ /\ DbFailures
          /\ Goto(t, "idle")
          /\ UNCHANGED db
    /\ UNCHANGED <<free, objsCache, bestCache, infoCache, gate, call, rows,
                   cands, best, info, local, dbAtCall>>

\* _ngamsDisksSem.release()
Release(t) ==
    /\ pc[t] = "release"
    /\ gate' = None
    /\ Goto(t, "idle")
    /\ UNCHANGED <<db, free, objsCache, bestCache, infoCache, call, rows,
                   cands, best, info, local, dbAtCall>>

-----------------------------------------------------------------------------
(* Environment: callers outside the disk utilities                         *)

\* A disk is marked completed (it has reached its capacity or is closed
\* by an operator); callers following the documented discipline reset the
\* findTargetDisk cache at the same time.
MarkCompleted(d) ==
    /\ ~db[d].completed
    /\ QuiescentCompletion => \A t \in Threads : pc[t] = "idle"
    /\ db' = [db EXCEPT ![d].completed = TRUE]
    /\ IF ResetOnCompletion THEN NoCaches
                            ELSE UNCHANGED <<objsCache, bestCache, infoCache>>
    /\ UNCHANGED <<free, gate, pc, nreq, call, rows, cands, best, info, local,
                   dbAtCall>>

\* findTargetDiskResetCache() called on its own.
FindTargetDiskResetCache ==
    /\ Caching
    /\ NoCaches
    /\ UNCHANGED <<db, free, gate, pc, nreq, call, rows, cands, best, info,
                   local, dbAtCall>>

\* Every thread has handled all its requests.
Finished ==
    /\ \A t \in Threads : pc[t] = "idle" /\ nreq[t] = MaxRequests
    /\ UNCHANGED vars

Next ==
    \/ \E t \in Threads :
          \/ FindTargetDisk(t) \/ FetchCached(t) \/ FetchDb(t) \/ StoreObjs(t)
          \/ RankCached(t) \/ RankDb(t) \/ StoreBest(t)
          \/ LoadCached(t) \/ LoadDb(t) \/ StoreInfo(t)
          \/ StoreFile(t) \/ Acquire(t) \/ ReadRow(t) \/ WriteRow(t)
          \/ Release(t)
    \/ \E d \in Disks : MarkCompleted(d)
    \/ FindTargetDiskResetCache
    \/ Finished

Spec == Init /\ [][Next]_vars

-----------------------------------------------------------------------------
(* Properties                                                              *)

\* Every variable keeps the shape the code gives it: rows, caches keyed
\* as findTargetDisk keys them, the semaphore's holder, thread steps.
TypeOK ==
    /\ db \in [Disks -> Row]
    /\ free \in [Disks -> Nat]
    /\ \A m \in MimeTypes : objsCache[m] = NoEntry \/ DOMAIN objsCache[m] \subseteq Disks
    /\ bestCache \in [SUBSET Disks -> Disks \cup {None, NoEntry}]
    /\ infoCache \in [Disks \X MimeTypes -> Row \cup {NoEntry}]
    /\ gate \in Threads \cup {None}
    /\ pc \in [Threads -> Steps]
    /\ nreq \in [Threads -> 0..MaxRequests]
    /\ call \in [Threads -> Call]
    /\ \A t \in Threads : cands[t] \subseteq Disks /\ best[t] \in Disks \cup {None}

\* The disk in the slot paired with disk d's slot, if one is mounted.
PartnerDisks(d) == {p \in Disks : DiskSlot[p] = AssocSlotId(DiskSlot[d])}

\* Thread t holds the disk findTargetDisk returned to it.
Selected(t) == pc[t] \in {"store", "acquire", "read", "write", "release"}

\* The disks a selection for t commits to: the Main disk and, with
\* replication on, its Replication disk.
TargetPair(t) ==
    {best[t]} \cup (IF Replication THEN PartnerDisks(best[t]) ELSE {})

\* P3: findTargetDisk never returns a disk (nor a disk whose Replication
\* disk) that was already marked completed in the DB when the call began,
\* whatever the caching flag.
NoCompletedTarget ==
    \A t \in Threads : Selected(t) =>
        \A d \in TargetPair(t) : ~dbAtCall[t][d].completed

\* P4: with reqSpace given, findTargetDisk never returns a disk (nor a disk
\* whose Replication disk) that, in the DB when the call began, had less
\* than reqSpace free.
SpaceHonoured ==
    \A t \in Threads : Selected(t) =>
        \A d \in TargetPair(t) : dbAtCall[t][d].avail >= call[t].size

\* P5 as refinement: the cumulative counters updateDiskStatusDb keeps in
\* the ngas_disks rows behave as if every booking were one atomic step,
\* however the request threads interleave: no booking is lost.
Usage == INSTANCE DiskUsage
            WITH usage <- [d \in Disks |-> [bytes  |-> db[d].bytes,
                                            nfiles |-> db[d].nfiles]]
Accounting == Usage!Spec

\* Section 3: completed disks are immutable targets.  Once a disk is
\* marked completed in the DB, no step of the disk utilities makes it
\* writable again (updateDiskStatusDb writes back the whole row it read).
CompletionPermanent ==
    [][\A d \in Disks : db[d].completed => db'[d].completed]_db

\* Section 4.3: the semaphore of updateDiskStatusDb is released on every
\* way out of it, exceptions included: it is held only by a thread that
\* is still between its acquire and its release.
GateReleasedOnExit ==
    gate # None => pc[gate] \in {"read", "write", "release"}

=============================================================================
