# TLA+ models of NG/AMS disk utilities, RUNTASK, MWA staging, PARCHIVE, MIT move and the access analysis

This directory holds TLA+ specifications of the part of NG/AMS that decides
which disks of a node are registered, mounted and writable, and that books
every archived file against a disk. All of it lives in
`src/src/ngamsCore/ngamsLib/ngamsDiskUtils.py`. The modules are checked with
TLC. Every definition is written from the Python source. The few that stand
for code outside the repository (`ngamsConfig`, `ngamsDiskInfo`, `ngamsDb`,
the archive handler) are marked `spec_modelled` in `PROJECT.json`; they follow
the text of `spec.md`.

Five further parts are modelled on their own: the RUNTASK plug-in's task
queue, the staging registry of the MWA job library
(`ngamsPlugIns/contributed/mwa/job/ngamsJobMWALib.py`), the PARCHIVE proxy
that relays files to the staging hosts (`ngamsPlugIns/ngamsCmd_PARCHIVE.py`),
the MWA_MIT_MOVE command that moves a file to another NGAS server
(`ngamsPlugIns/contributed/mwa/ngamsCmd_MWA_MIT_MOVE.py`, with the
`httpPostUrl` path of `ngamsLib/ngamsHttpUtils.py`), and the reuse-distance
analysis of `ngamsUtils/src/ngamsPlotDataAccess.py`. `SortedCollection`,
which the analysis imports but this repository does not hold, is modelled as
the usual recipe describes it and marked `spec_modelled`. So is the target
server's check of the checksum header of an archive request, which lives in
`ngamsArchiveUtils`, also not in the repository.

## The system

A node has a set of **slots**. The configuration groups them into **storage
sets**: a Main slot and an optional Replication slot. A **stream** maps a
mime-type to the storage sets that may receive it. A disk has a row in the
`ngas_disks` table and, on the disk, an `NgasDiskInfo` marker file. Both hold
the same record: the logical name (`<label>-M|R-<number>`), the slot and host
it is mounted in, the completed flag, the installation date and the counters.

Three parts of `ngamsDiskUtils.py` act on this state:

1. **checkDisks** runs at every Online transition. It reconciles the rows with
   the disks physically present:
   - it unmounts the rows of absent disks;
   - per slot, it chooses the row or the marker file, whichever is newer;
   - on an archiving system it validates each slot (completed,
     accessibility, Main/Replication role) and drops unpaired disks;
   - it adds or updates the surviving rows in storage-set order;
   - it warns about streams with no target.
   
   A non-archiving system just updates or adds every present disk.
   `markDisksAsUnmountedInDb` (Offline) and `dumpDiskInfoAllDisks` (the
   periodic status dump, which writes each mounted row into the marker file
   at its mount point) act on the same rows between passes.
2. **findTargetDisk** is called by every archive request. It picks a Main disk
   that is not completed and has space, and whose Replication disk is also not
   completed and has space. It can cache the rows, the ranking and the chosen
   row in three process-wide dictionaries; `findTargetDiskResetCache` empties
   them.
3. **updateDiskStatusDb** is called after the file is stored. Under the
   semaphore `_ngamsDisksSem` it reads the disk's row, adds the file to its
   counters, refreshes the free space and writes the whole row back.

The parts interact through the rows. checkDisks decides which disks
findTargetDisk can see and with which role. The archive handler marks disks
completed, and bookings rewrite the rows that checkDisks and the dump read.

## Modules

| Module | Models | State | Actions |
|---|---|---|---|
| `NgasDiskConfig` | the configuration queries (`isMainDisk`, `getAssocSlotId`, stream slot lists) | CONSTANTS only | none |
| `DiskUsage` | what `updateDiskStatusDb` promises: each booking adds one file's bytes and count atomically | `usage` | `Record` |
| `TargetDiskSelection` | archive threads running `findTargetDisk` then `updateDiskStatusDb`; the three caches; the semaphore | `db` rows, `free` space, `objsCache`/`bestCache`/`infoCache`, `gate`, per-thread `pc` and locals | one action per DB query, cache lookup, cache store, semaphore operation and DB read/write (see below); `MarkCompleted` and `FindTargetDiskResetCache` by callers |
| `DiskReconciliation` | `checkDisks` with `getNgasDiskInfoFile`, `addDiskInDb`, `updateDiskInDb`, `genLogicalName`, `checkStorageSetAvailability`; `markDisksAsUnmountedInDb`; `dumpDiskInfoAllDisks`/`dumpDiskInfo` | physical world (`inventory`, `marker`, `markerDisk`, `access`), `db`, and the locals of the pass (`diskDic`, `mtDiskDic`, `dbUpdateDic`, `rmDiskDic`, loop cursors) | one action per loop iteration of checkDisks; `SwapDisk`, `ToggleAccess`, `CompleteDisk`, `MarkDisksAsUnmountedInDb`, `DumpDiskInfoAllDisks` between passes |
| `RunTask` | the RUNTASK plug-in (`ngamsPlugIns/ngamsCmd_RUNTASK.py`): POST (accepted or rejected by `_getPostContent`/unpickling) and cancel in `handleCmd`, one `SCHEDULE_THRD` per POST (`_scheduleQScanThread`), the queue-scan threads (`_queScanThread`) | per-task scheduler step, the scan thread objects and their steps, the global `queScanThread`, `queTasks`, `g_mrLocalTask` (`g`), `cancelDict`, what each scan thread executes | `Submit`, `Reject`, `Cancel`; `SchedCheck` (141), `SchedAssign` (147–154), `SchedDaemon` (155), `SchedStart` (156), `SchedPut` (157); `Get`, `Check`, `Notify`, `ExecStart`, `ExecEnd`, `Send` |
| `StagingRegistry` | what `stage_dic` promises the correlator tasks: register once per file, one outcome answers all waiters of a key, a timeout withdraws one registration | `waiting`, `told` | `Register`, `Resolve`, `Withdraw` |
| `MWAStaging` | `stageFile`, `fileIngested`, `fileFailToDeliver`, `reportHostDown`, `fileIngestTimeout` of the MWA job library, with the archive server as environment | `stage_dic`, per-task `call`, `inflight` requests, `told` callbacks | `StageRegister` (523–551), `StageSend` (553–610), `FileIngested`, `FileFailToDeliver`, `ReportHostDown`, `FileIngestTimeout` |
| `PArchive` | PARCHIVE's `handleCmd`, `saveFromHttpToHttp`, `buildHttpClient`, `processHttpReply`, with the source and the next hop as environment | the request (`req`), `pc`, `remSize`, the announced Content-Length, `sizeKnown`, bytes relayed (`tot`), failed reads since the last reception (`idle`), refusal `reports` | `Reject`, `Refused`, `Connect`; `ReadBlock`, `SendFails`, `ReadNothing`, `EndLoop`; `Reply` |
| `MITMove` | `handleCmd` of MWA_MIT_MOVE with `_connect`, `_http_response` and `httpPost` of each trial, the target QARCHIVE as environment | the request's checks (`req`), `pc`, trials done, ECONNRESETs of the current `_connect` (`ntry`), the headers the next trial sends (`hdrs`), the versions the target `archived`, the source file (`src`), the `answer` | `Check`, `Connect`, `Post`, `Discard` |
| `ReuseDistance` | `AccessStack.push` with `LRUStack`, `LFUStack`, `LRUDStack` and `LIATStack`, the loop of `get_stack_dist_list`, `get_LRU_stack_from_db`, and the loop of `_raListToVTimeNA` with `_timeGapInSecs` | rows read, `lru`/`lfu`/`lrud`/`liat` stacks (refs, dates, sorted stack, keys, distances), `counted` history, `db` and `vt` locals | `Row`: one table row read by every loop |
| `MC_TargetDiskSelection`, `MC_DiskReconciliation`, `MC_MWAStaging`, `MC_ReuseDistance` | model values, small topologies and negative constants for TLC | | |

### TargetDiskSelection

A thread walks the steps below. Each step is one point at which the Python
code gives up the GIL to a DB call or changes shared state, so another thread
may run between any two of them:

`fetch [storeObjs] → rank [storeBest] → load [storeInfo] → store → acquire → read → write → release`

- `FetchDb`/`FetchCached`: lines 1039–1044.
- `StoreObjs`: 1042.
- `RankDb`/`RankCached`/`StoreBest`: 1101–1108.
- `LoadDb`/`LoadCached`/`StoreInfo`: 1118–1125.
- `Acquire`, `ReadRow`, `WriteRow`, `Release`: 820, 823, 824–832, 834.
- The candidate loop (1049–1089) is the operator `Candidates`, evaluated
  atomically: it works on a local list.
- A raise (no candidates, no best disk, a failing DB read or write) returns
  the thread to `idle`. After `ReadRow` or `WriteRow` fails, the semaphore
  stays held, as in the code.
- `StoreFile` is the archive handler's write of the file. It fails when the
  file system has too little space.

`dbAtCall` records the rows at the moment the call began, so a property can
say "the disk was already completed when you asked". The booking counters are
mapped onto `DiskUsage`. `Accounting` checks that the detailed module
implements the atomic one (`INSTANCE DiskUsage WITH usage <- ...`).

### DiskReconciliation

A pass runs these phases, each loop body an action:

`CheckDisks → ResolveSlots → ValidateSlot* → ValidateDone → AssocCheck* → RemoveInvalid → ApplySlot* → CheckStreams`

A non-archiving pass runs `CheckDisks → ResolveSlots → NonArchivingSlot* →
NonArchivingDone`. Every raise of the code ends the pass in phase `crashed`
(`Crash`):
- the KeyError at 422;
- the `split` on a None logical name at 567;
- the RuntimeError of deleting during `keys()` iteration under Python 3
  (`LiveKeyView`).

A row is abstracted to role token, number, slot (`NoSlot` = unmounted), the
completed flag and the installation date (the pass number). Counters are
recomputed from the file table on each update and play no part. The number in
a logical name is kept, because `genLogicalName` computes with it.

`markerDisk` records which disk's row a marker file came from. The marker
content itself is the same record type as a row.

### RunTask

A job manager POSTs local tasks. A POST whose body does not unpickle to a
task is answered with an error and starts nothing (`Reject`). Any other POST
is acknowledged and starts a new `SCHEDULE_THRD`, which (re)creates the single queue-scan thread when
`queScanThread` is None or not alive and puts the task on `queTasks`.
`setDaemon` and `start` act on the global `queScanThread`, not on the object
this scheduler created. Another scheduler may have rebound it and started
it in between. Either call then raises `RuntimeError`, which ends the
`SCHEDULE_THRD` before `put`: the acknowledged task is `lost`
(`SchedDaemon`, `SchedStart`). The scan
thread takes tasks into the global `g_mrLocalTask`, skips cancelled ones, sends
the dequeue event, executes the task and posts its result. Each action is one
statement after which the interpreter may switch threads. `isAlive()` is
false for a thread object that is assigned but not started, as in Python.
An exception other than `URLError` in either HTTP call ends the scan thread
(`ScanFailures`). The task classes' `execute()` and `stop()` are not in the
repository: an execution starts and ends.

### MWAStaging

A task's `stageFile` is two actions: `StageRegister` is the block under
`stage_sem` that appends the task to every key of its files and collects the
keys it created; `StageSend` is the HTTP post of the retrieve request for
those keys (with its retries), which either is accepted, raising `inflight`
for the created keys, or returns an error code. No path of `stageFile` takes
the created keys back out of `stage_dic`. `fileIngested` and `reportHostDown`
pop a key under the semaphore and call back every task on it (`told`).
`fileFailToDeliver` raises `TypeError` on its first statement
(`urlparse(toUrl).hostname()` calls a string), so in the model it only
consumes the server's answer. `fileIngestTimeout` removes the first
occurrence of the task and pops an empty list. An absent key is `<<>>`.

`RegistryRefinement` maps `stage_dic` onto `StagingRegistry`
(`waiting` = occurrences of the task in the key's list) and checks
`Registry!Spec` as a property.

### ReuseDistance

One action, `Row(c, off, d)`, reads the next row of the access table into
both programs of the module at once: `push` on an `LRUStack` and on an
`LFUStack` (as `get_stack_dist_list` does with one of them), and the loop body
of `get_LRU_stack_from_db`. Rows come in timestamp order (`d >= lastDate`).
Obs ids are model values, timestamps small integers, and the session gap one
unit. The stacks keep the code's data: the reference and date dictionaries,
the sorted collection of `(obs, key)` pairs, and the list of distances;
`counted` records the rows that `push` went ahead with. `Reference` is a
direct definition of the LRU stack distance and of the LFU rank over
`counted`, against which both stacks are checked.

`LRUDStack` and `LIATStack` key a chunk by a running average that halves at
each re-reference (`(new - old + key) / 2.0`). The model keeps the keys as
integers scaled by `Scale = 2^MaxRows`: with at most MaxRows halvings every
key is exact, so ties and orders are the float ones. `LRUDKey` and
`LIATKey` define the same averages directly over `counted` (a recursion over
the occurrences of a chunk), and `SortedRank` ranks a chunk among the others
as `bisect_left` over the sorted collection does.

`vt` holds the locals of `_raListToVTimeNA`, which reads the same rows as an
RA list. Its session test goes through `_timeGapInSecs`, which returns
`timedelta.seconds`; `DaySecs` is the length of a day in timestamp units, and
the gap is taken modulo it.

### MITMove

`Check` is the chain of early returns of `handleCmd` (501 no file, 502
missing parameter, the MWA check, the debug answer, 504 CRC differs from the
DB) in their order. The MWA check builds its message with
`'Not MWA visibilty file: %' % (fileId)`, an incomplete format, so it raises
`ValueError` instead of answering 503. Each of the three trials is `Connect`
(`_connect`: success, ECONNRESET retried up to `_connect_retries` times, other
errors raise) and `Post`: the request is sent whole, or the target closes
while it is written (tolerated, its error response is read), or the send
raises; the target archives the copy as a new version, refuses it, or fails;
the reply is read in full or cut short. An exception ends the trial with the
headers unchanged. A full reply that is not a success ends it too, and by then
`reply, msg, hdrs, data = httpPostUrl(..., hdrs=hdrs)` has rebound `hdrs` to
the reply's headers. Those carry no checksum, and they do carry the reply's
`content-length`, which httplib sends in place of the file's size. The
target then reads a prefix of the file. `Discard` is `_discardFile`, which
may raise.

A copy is `intact` or `corrupt`. It is corrupt when altered in transit
(`TransitCorruption`), or possibly when sent with the reply's headers (a
reply without a body has no length). The target refuses a corrupt copy only
when the request carries the CRC header.

### PArchive

One request is handled from start to end. `Reject` covers the raises of
`handleCmd` before any relaying (no URI, no `nexturl`, an unreachable
http:// source). `Refused` is a refused connection to the next hop, with its
reports. `Connect` announces the size: the request's size for a push, the
source's Content-Length for an http:// pull that has one, and 1e11 (`Huge`)
otherwise; only a push sets `sizeKnown`. Each loop iteration is `ReadBlock`
(a block, capped at `remSize`, resets the idle time), `SendFails` (the next
hop drops the connection) or `ReadNothing` (the source has closed; one 50 ms
sleep). The request says whether its source closes after its bytes or stays
open and silent, as the client of a GET pull does while it waits for the
reply. `rfile.read` has no timeout, so on an open silent source the read
blocks: no step is enabled and the 30 s check is never reached again. `EndLoop` applies the size check and the CRC check, and `Reply` the
checks of `processHttpReply`.

Bytes are counted, not kept. The relayed bytes are always a prefix of the
file, so their CRC equals the request's checksum exactly when the whole file
was relayed. The next hop is the environment. It answers with any status
document and HTTP code, but not with HTTP success when it received fewer
bytes than its Content-Length: it reads exactly that many bytes.
`HostDownSent` is FALSE. The job-manager report at line 301 calls
`urllib2.quote`, and the module never imports `urllib2`, so that report
never leaves the proxy.

## Runs

| Run | Expect | Checks | Shows |
|---|---|---|---|
| `TargetDiskSelection_booking` | pass | SpaceHonoured, Accounting | 2 threads, no caching, completions at any time, DB reads and writes in updateDiskStatusDb that may raise: space is honoured and no written booking is lost (a leaked semaphore blocks the other thread for good, so deadlock is not checked) |
| `TargetDiskSelection_cached_sequential` | pass | TypeOK, NoCompletedTarget | caching is safe when requests are sequential, completions happen between requests, and the cache is reset on completion; 4 slots, 2 streams |
| `TargetDiskSelection_completion_lost` | violation | CompletionPermanent | a booking's write-back un-completes a disk completed during it |
| `TargetDiskSelection_cache_race` | violation | NoCompletedTarget | a reset racing a cache store leaves a completed disk in the cache |
| `DiskReconciliation_archiving` | pass | RoleInvariant, UnmountStale, AssocCompleteness | 3 passes with up to 2 swaps/access changes/completions/unmounts and dumps between them |
| `DiskReconciliation_nonarch` | pass | MarkerOnOwnDisk, Idempotent | the same for a non-archiving node; the first loop, which unmounts absent disks, does not depend on the branch and is checked by the archiving run |
| `RunTask_exclusive` | violation | ExclusiveExecution | two POSTs: the second SCHEDULE_THRD checks while the first scan thread is assigned but not started, creates a second one, and both execute a task at once, against the docstring's mutual-exclusion promise |
| `MWAStaging_registry` | pass | RegistryRefinement | 2 tasks, 2 files, 1 host, 2 calls each, failing requests and deliveries: under every interleaving `stage_dic` implements the registry (no registration lost or answered twice, a timeout withdraws only the caller) |
| `PArchive_relay` | pass | TypeOK, SuccessImpliesComplete, AnsweredWhenSourceCloses | every kind of request, configuration, source that closes early or stays open, refused or dropped connection and next-hop reply: PARCHIVE reports success only when the next hop was announced and sent the whole file, and every request whose source closes ends (by the 30 s timeout when the announced size cannot be reached); one whose source stays open and silent blocks in the read for ever |
| `ReuseDistance_stacks` | pass | LRUIsStackDistance, LFUIsFrequencyRank, LRUDIsExpectedReuseRank, LIATIsExpectedIATRank | 3 obs, 6 rows, ingests and retrievals, timestamps 0..4 with ties: all four stacks report the distance their reference definition gives for every counted re-reference |
| `MITMove_crc_dropped` | violation | IntactCopySurvives | without any alteration in transit: the first trial's reply is an error, the second trial goes out with the reply's headers (no CRC, the reply's content-length), the target archives a prefix of the file and answers SUCCESS, and the source is discarded. With the rebinding removed the property holds, even with transit corruption |
| `ReuseDistance_session` | violation | LRUAgreesWithDb | three retrievals of one obs a unit apart: `push` measures the session from the last counted access and counts the third, `get_LRU_stack_from_db` refreshes the date on every row and skips it |

Further disagreements are recorded as hazards in `PROJECT.json` rather than
as runs; each is reproduced by changing one constant of a passing or
violation config:
- an exception in `updateDiskStatusDb` keeps `_ngamsDisksSem` held
  (GateReleasedOnExit fails under the booking config);
- on an archiving pass a row without marker file is re-added with a new
  identity (Idempotent fails with AllowArchive TRUE);
- on an archiving pass a rejected moved disk's stale row is dumped onto
  the disk now in its old slot (MarkerOnOwnDisk fails with AllowArchive TRUE);
- a completed disk whose partner slot is empty is planned anyway, and the
  apply loop raises KeyError at 422 (PassCompletes fails under the archiving
  config);
- deleting during `keys()` iteration raises under Python 3 (PassCompletes
  fails with LiveKeyView TRUE);
- with caching, the cached free space goes stale (SpaceHonoured fails on the
  second booking of a cached disk);
- genLogicalName numbers a Replication disk like its Main
  (RepNumberPrecedesMain, the spec's example, fails on the first pass);
- a non-archiving pass raises when it adds a Replication disk with no Main
  row (PassCompletes fails with AllowArchive FALSE);
- `_timeGapInSecs` drops the days of a gap, so `_raListToVTimeNA` treats
  two accesses a day apart as one session (VTimeAgreesWithDb fails with
  retrievals only, `DaySecs = 3`, `MaxDate = 4`, four rows);
- `fileFailToDeliver` raises `TypeError` before it pops the key, so the
  tasks waiting for a failed delivery are never answered (WaitersAnswered
  fails under the registry config with `Corrs = {c1}`, `Files = {f1}`,
  `MaxCalls = 1`, `RequestFailures = FALSE`, and equally with requests
  failing and deliveries succeeding);
- PARCHIVE's host-down report to the job manager raises NameError, so it
  is never sent (`HostDownSent` is FALSE in `PArchive`).

Each passing property has a mutant in `PROJECT.json`. The mutant is a
plausible bug in the mapped code (a dropped guard, a wrong field, an
indentation slip), and TLC finds the property violated under the run's own
config.

## Bounds

- **TargetDiskSelection:**
  - 3 slots in 2 storage sets (one with a Replication slot, one without);
  - 3 disks with 3, 1 and 2 MB free;
  - file sizes 1 and 2 MB;
  - two threads with one request each (three sequential requests when
    caching).
  
  These bounds are enough for:
  - a disk to fill up;
  - a Replication disk to block its Main;
  - two bookings to race on one disk;
  - a completion to land between any two steps of a request.
  
  The exempt list is varied only in the single-thread run, where it does not
  multiply interleavings.
- **DiskReconciliation:**
  - one storage set (Main slot 1, Replication slot 2);
  - three disks, under symmetry (disk ids are interchangeable model values);
  - initial marker files of either role;
  - up to 3 passes and 2 world changes.
  
  These bounds are enough for:
  - a disk to move to the other slot;
  - a disk to be replaced by a foreign one;
  - a disk to be completed, then repeated;
  - a dump to run between passes.
  
  The violation runs use the smallest bounds that reach their trace.
- **RunTask:** two tasks and two thread objects. Two concurrent POSTs are
  the least that can race, and a third thread object is never needed to
  show two executing at once. Deadlock is not checked: a scan thread
  killed by an exception leaves queued tasks waiting for the next POST,
  which is the code's behaviour.
- **MWAStaging:** two tasks, two files, one host, two stageFile calls per
  task. Two tasks are the least for one to join another's key and for a
  timeout to race an ingestion; two files let one call create one key and
  join another; a second call lets a task register twice on one key. The
  registry run has requests and deliveries failing; deadlock is not
  checked, because once every call is used and every key answered nothing
  is enabled, which is the system at rest.
- **ReuseDistance:** three obs, six rows, timestamps 0..4, session gap 1,
  a day of 5 units, offline values -1 and 0, under symmetry of the obs. Six
  rows reach re-references at distance 0, 1 and 2, ties between equal
  timestamps, equal counts and equal averaged keys, rows skipped inside a
  session, and ingests followed by retrievals. Six halvings keep the scaled
  keys exact. The table is finite, so deadlock is not checked.
- **PArchive:** a file of 3 bytes in blocks of 2, so there is a full block
  and a partial one; sources that deliver 0 to 3 bytes and then close or stay open; `Huge` = 5
  stands for 1e11, and only needs to exceed the file; 30 s of silence is two
  failed reads. Every combination of request kind, parameters, configuration
  (job manager, proxy CRC) and peer behaviour is an initial state. A handled
  request is final, and a read from an open silent source blocks, so
  deadlock is not checked.

- **MITMove:** the code's three trials; two connection attempts per trial,
  which reach both the retried ECONNRESET and the one that gives up. Every
  request outcome is an initial state. The violation needs two trials; the
  third lets a copy whose reply was cut be followed by two more trials. A finished
  command is final, so deadlock is not checked.

## Fairness

The disk, RUNTASK, MIT move and access-analysis properties are safety properties or
refinements of safety specifications, and those modules assume no fairness.

`PArchive` assumes weak fairness of its one handler thread: a step that
can proceed eventually does. A read from an open source that sends nothing
blocks, and the model gives it no step, so fairness does not make it
return. The 30 s reception timeout is a clock, not an event anyone must
deliver, but it is only checked between reads. `AnsweredWhenSourceCloses`
is therefore about the loop's own exit conditions once the source has
closed. Without that premise the property fails at once on a GET pull.

`MWAStaging` assumes weak fairness of `StageSend(c)`: a task's thread, once
it has registered, runs its request to an end (every path of the retry loop
terminates after `max_retry` attempts with socket timeouts). It assumes weak
fairness of the archive server's answer to an accepted request for a key
(`FileIngested(k) \/ FileFailToDeliver(k)`): the server either delivers or
reports the failure. Nothing forces `reportHostDown` or a task's timeout, so
`WaitersAnswered` asks whether the web-server callbacks alone answer every
waiter. It has no run of its own (see the list of further disagreements).

## Not modelled

- The other plugins and commands of this repository (PURGE, USUBSCRIBE,
  TRIGGERSUBSCRIPTION, CacheDel, Label and others) are listed in
  `PROJECT.json` with their status. They do not touch the disk rows modelled
  here. PURGE has the same check-then-start race as RUNTASK: its running flag
  is set inside the thread. It is recorded as a hazard.
- RUNTASK imports through `six`, but `cancelDict.has_key` exists only in
  Python 2. The rest of the server (`httplib`, `cStringIO` in
  `ngamsHttpUtils`) is Python 2 as well, and the model keeps the Python 2
  behaviour.
- Logging, notification text, XML formatting of marker files and the
  directories created on disks are left out: no property is about them.
- Of PARCHIVE, the bytes themselves, the MIME type guess and the log lines
  are left out. TRIGGERSUBSCRIPTION is a single call of the server's
  subscription trigger, which is not in the repository.
- The DB's ranking in `getBestTargetDisk` is opaque. Any candidate or None may
  come back.
- `getAssociatedDiskId` is defined but not called by the modelled code.
- Of MWA_MIT_MOVE, `isMWAVisFile` and the CRC comparison are booleans of
  the request, and the check `fileOnHost` is commented out in the code. The
  call has no timeout, so a target that never answers blocks the handler for
  good; a hung read is not a step of the model (recorded as a hazard). Of
  `ngamsHttpUtils`, the GET and download helpers and the formatting of
  requests are not modelled.
- The Cortex staging DPPI and the MWA async protocol classes, and the RDSI
  shell (`mwa_gleam/rdsi/ashell.py`, a `cmd.Cmd` front end whose commands
  each run an external tool), hold no state a property would tell apart.
- Of the MWA job library, `LT_dic` (`registerLocalTask`/`localTaskCompleted`),
  `getBestHost` and the host and LTA queries are not modelled: their callers
  and the tasks they drive are not in the repository. The text of the
  staging reply is abstracted to accepted or failed.
- Of the access analysis, the LNR stack (its keys come from the reference
  stream saved by an earlier run), `_raListToReuseDist` and the per-user
  variants, the log parsing and the plotting are not modelled.
  The LRU/LFU stacks assume a `SortedCollection.remove` that returns the
  removed item's position.
