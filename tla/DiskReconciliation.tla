-------------------------- MODULE DiskReconciliation --------------------------
(***************************************************************************)
(* checkDisks() of ngamsLib/ngamsDiskUtils.py: the pass that aligns the    *)
(* ngas_disks rows of this host with the disks physically present, run at  *)
(* every Online transition.  The pass is sequential; its steps are:        *)
(*   unmount -> resolve -> validate (per slot) -> assoc (per key)          *)
(*     -> remove -> apply (per slot) -> streams -> done                    *)
(* for an archiving system, and unmount -> resolve -> nonArch (per slot)   *)
(* -> done otherwise.  A raised exception ends the pass in "crashed".      *)
(*                                                                         *)
(* Between passes the world changes: a disk is swapped in or out of a slot *)
(* (possibly carrying an NgasDiskInfo marker file written elsewhere), a    *)
(* disk turns (in)accessible, archiving completes a disk, and the status   *)
(* dump (dumpDiskInfoAllDisks) rewrites the marker files.                  *)
(*                                                                         *)
(* A row (and a marker file) is abstracted to the fields the pass acts on: *)
(* the role token and number of the logical name, the slot it is mounted   *)
(* in on this host (NoSlot: unmounted, host and mount point cleared), the  *)
(* completed flag and the installation date.  Counters and free space are  *)
(* refreshed from the file table on every update and play no part here.   *)
(***************************************************************************)
EXTENDS NgasDiskConfig, SequencesExt

CONSTANTS
    DiskIds,      \* disk ids of the physical disks that may show up
    None,         \* Python None
    AllowArchive, \* getAllowArchiveReq()
    LiveKeyView,  \* dict.keys() is a live view (Python 3): deleting while
                  \* iterating over it raises RuntimeError
    MaxPasses,    \* checkDisks calls (bound)
    MaxChanges    \* physical changes and completions between passes (bound)

ASSUME {AllowArchive, LiveKeyView} \subseteq BOOLEAN
ASSUME MaxPasses \in Nat /\ MaxChanges \in Nat

Roles == {"M", "R"}
\* Installation dates: the pass number a row was added in; a marker file
\* written on another system carries the date of the pass after it.
Dates == 0..MaxPasses + 1
\* Numbers of logical names: each pass adds at most one Main disk per slot.
Nums == 0..MaxPasses * Cardinality(Slots) + 1
Rec == [role: Roles, num: Nums, slot: Slots \cup {NoSlot},
        completed: BOOLEAN, date: Dates]
\* dbUpdateDic entries: ["ADD"] or ["UPDATE", diskInfo].
Entry == [op: {"ADD"}, rec: {None}] \cup [op: {"UPDATE"}, rec: Rec]

VARIABLES
    inventory, \* the physical disks: [Slots -> DiskIds \cup {None}]
    marker,    \* NgasDiskInfo file on each disk, or None
    markerDisk, \* the disk id the NgasDiskInfo file on each disk names
    access,    \* the mount point of the disk is writable
    db,        \* ngas_disks rows: [DiskIds -> Rec \cup {None}]
    clock,     \* passes started so far (the current date)
    changes,   \* changes made between passes so far
    phase,     \* step of the current (or the last) pass
    diskDic,   \* the diskDic argument, slot -> disk id, pruned by the pass
    mtDiskDic, \* slot -> resolved row or None
    dbUpdateDic, \* slot -> Entry: the plan
    rmDiskDic, \* slots rejected
    todo,      \* slots (or plan keys) the current loop has still to visit
    queue,     \* sortedSlotIds still to apply
    notified,  \* notifications sent by this pass
    written,   \* disks whose row this pass wrote in the apply loop
    startDb,   \* history: db when the pass started
    settled,   \* history: the last pass completed and nothing but status
               \* dumps happened since
    repeat     \* history: the current pass repeats a settled one

vars == <<inventory, marker, access, db, clock, changes, phase, diskDic,
          mtDiskDic, dbUpdateDic, rmDiskDic, todo, queue, notified, written,
          startDb, settled, repeat, markerDisk>>
world == <<inventory, marker, markerDisk, access, changes>>
pass  == <<diskDic, mtDiskDic, dbUpdateDic, rmDiskDic, todo, queue, notified,
          written>>
history == <<startDb, settled, repeat>>

-----------------------------------------------------------------------------
(* Helpers                                                                 *)

\* The role a slot gives a disk: M for the Main slot of its storage set.
RoleOf(s) == IF IsMainDisk(s) THEN "M" ELSE "R"

\* Rows marked mounted on this host (getDiskInfoForMountedDisks).
MountedHere == {d \in DiskIds : db[d] # None /\ db[d].slot # NoSlot}

\* dbConObj.getMaxDiskNumber(): the highest number of all logical names,
\* None when there is no disk.
MaxDiskNumber ==
    IF \A d \in DiskIds : db[d] = None THEN None
    ELSE Max({db[d].num : d \in {e \in DiskIds : db[e] # None}})

\* The order of the apply loop: the Main slots of the plan's storage sets
\* in natural order, each followed by its Replication slot, if any.
SortedSlotIds(keys) ==
    LET mains == SetToSortSeq({MainSlot[StorageSetOf(s)] : s \in keys}, <)
    IN  FlattenSeq([i \in 1..Len(mains) |->
            <<mains[i]>> \o (IF RepSlot[StorageSetOf(mains[i])] = NoSlot
                             THEN <<>>
                             ELSE <<RepSlot[StorageSetOf(mains[i])]>>)])

\* getNgasDiskInfoFile: the NgasDiskInfo file at the mount point of the
\* disk in slot s, loaded, or None when there is none.
NgasDiskInfoFile(s) == marker[diskDic[s]]

\* Resolution of a slot's row (second loop of checkDisks): the row of the
\* disk found mounted, else its row in the DB, else the marker file; a
\* more recent marker file wins over the row.  When there is a row but no
\* marker file, the final else-branch leaves None.
Resolved(s, mounted) ==
    LET d    == diskDic[s]
        file == NgasDiskInfoFile(s)
    IN  IF s \notin DOMAIN mounted /\ db[d] = None THEN file
        ELSE LET row == IF s \in DOMAIN mounted THEN mounted[s] ELSE db[d] IN
             IF file = None THEN None
             ELSE IF file.date > row.date THEN file ELSE row

-----------------------------------------------------------------------------
(* The pass                                                                *)

Init ==
    /\ inventory \in {f \in [Slots -> DiskIds \cup {None}] :
                        \A s, t \in Slots : f[s] = f[t] /\ f[s] # None => s = t}
    /\ marker \in [DiskIds -> {None} \cup
                     {r \in Rec : r.slot = NoSlot /\ r.num = 1 /\ r.date = 0}]
    /\ markerDisk = [d \in DiskIds |-> IF marker[d] = None THEN None ELSE d]
    /\ access = [d \in DiskIds |-> TRUE]
    /\ db = [d \in DiskIds |-> None]
    /\ clock = 0
    /\ changes = 0
    /\ phase = "idle"
    /\ diskDic = <<>>
    /\ mtDiskDic = <<>>
    /\ dbUpdateDic = <<>>
    /\ rmDiskDic = {}
    /\ todo = {}
    /\ queue = <<>>
    /\ notified = {}
    /\ written = {}
    /\ startDb = db
    /\ settled = FALSE
    /\ repeat = FALSE

\* Mutant: a mounted row counts as found when its slot is occupied.
MutNotFound(dd) == {d \in MountedHere : db[d].slot \notin DOMAIN dd}

\* The rows mounted here whose disk id is in no slot of diskDic.
NotFound(dd) == {d \in MountedHere : \A s \in DOMAIN dd : dd[s] # d}

\* checkDisks(hostId, dbConObj, cfg, diskDic) is called with the physical
\* inventory, then marks stale rows unmounted (first loop): every row
\* mounted on this host whose disk is not in diskDic is unmounted, the
\* others are remembered per slot in mtDiskDic.
CheckDisks ==
    /\ phase \in {"idle", "done", "crashed"}
    /\ clock < MaxPasses
    /\ LET dd      == [s \in {t \in Slots : inventory[t] # None} |-> inventory[s]]
           stale   == NotFound(dd)
       IN /\ diskDic' = dd
          /\ db' = [d \in DiskIds |-> IF d \in stale
                                      THEN [db[d] EXCEPT !.slot = NoSlot]
                                      ELSE db[d]]
          /\ mtDiskDic' = [s \in {t \in DOMAIN dd : dd[t] \in MountedHere} |->
                             db[dd[s]]]
    /\ clock' = clock + 1
    /\ phase' = "resolve"
    /\ startDb' = db
    /\ repeat' = settled
    /\ dbUpdateDic' = <<>> /\ rmDiskDic' = {} /\ todo' = {} /\ queue' = <<>>
    /\ notified' = {} /\ written' = {}
    /\ UNCHANGED <<world, settled>>

\* Second loop: resolve every slot of diskDic, then take the archiving or
\* the non-archiving branch.
ResolveSlots ==
    /\ phase = "resolve"
    /\ mtDiskDic' = [s \in DOMAIN diskDic |-> Resolved(s, mtDiskDic)]
    /\ IF AllowArchive /\ DOMAIN diskDic # {}
         THEN /\ phase' = "validate" /\ todo' = Slots
         ELSE /\ phase' = "nonArch"  /\ todo' = DOMAIN diskDic
    /\ UNCHANGED <<world, db, clock, diskDic, dbUpdateDic, rmDiskDic, queue,
                   notified, written, history>>


\* The function f without key k (`del f[k]`).
Without(f, k) == Restrict(f, DOMAIN f \ {k})

\* rmDiskDic[slotId] = slotId, with a notification of the given kind.
Reject(s, kind) ==
    /\ rmDiskDic' = rmDiskDic \cup {s}
    /\ notified' = notified \cup {kind}

\* Accept slot s for the plan unless its associated slot was rejected.
Accept(s, e) ==
    /\ dbUpdateDic' = IF AssocSlotId(s) \notin rmDiskDic
                      THEN (s :> e) @@ dbUpdateDic ELSE dbUpdateDic
    /\ UNCHANGED <<rmDiskDic, notified>>

\* Mutant: the role token is taken from the wrong field of the name.
MutPrevMainDisk(r) == FALSE

\* `getLogicalName().split("-")[-2] == "M"`
PrevMainDisk(r) == r.role = "M"

\* One iteration of the validation loop over the configured slots in
\* sorted order: completed disks are just updated; an inaccessible disk
\* is rejected and takes its associated slot out of the plan; a disk
\* without a resolved row is added; a resolved row whose role token
\* contradicts the slot is rejected; otherwise the row is updated.
ValidateSlot ==
    /\ phase = "validate" /\ todo # {}
    /\ LET s == Min(todo)
           r == mtDiskDic[s]
       IN  IF s \notin DOMAIN diskDic
             THEN UNCHANGED <<dbUpdateDic, rmDiskDic, notified>>
           ELSE IF r # None /\ r.completed
             THEN /\ dbUpdateDic' = (s :> [op |-> "UPDATE", rec |-> r]) @@ dbUpdateDic
                  /\ UNCHANGED <<rmDiskDic, notified>>
           ELSE IF ~access[diskDic[s]]
             THEN /\ Reject(s, "inaccessible")
                  /\ dbUpdateDic' = Without(dbUpdateDic, AssocSlotId(s))
           ELSE IF r = None
             THEN Accept(s, [op |-> "ADD", rec |-> None])
           ELSE IF PrevMainDisk(r) /\ ~IsMainDisk(s)
             THEN Reject(s, "mainAsRep") /\ UNCHANGED dbUpdateDic
           ELSE IF ~PrevMainDisk(r) /\ IsMainDisk(s)
             THEN Reject(s, "repAsMain") /\ UNCHANGED dbUpdateDic
           ELSE Accept(s, [op |-> "UPDATE", rec |-> r])
    /\ todo' = todo \ {Min(todo)}
    /\ UNCHANGED <<world, db, clock, phase, diskDic, mtDiskDic, queue,
                   written, history>>

\* The validation loop is over: the associated-slot check iterates over
\* the keys of the plan.
ValidateDone ==
    /\ phase = "validate" /\ todo = {}
    /\ phase' = "assoc"
    /\ todo' = DOMAIN dbUpdateDic
    /\ UNCHANGED <<world, db, clock, diskDic, mtDiskDic, dbUpdateDic,
                   rmDiskDic, queue, notified, written, history>>

\* A pass ends with an exception.
Crash ==
    /\ phase' = "crashed"
    /\ settled' = FALSE
    /\ UNCHANGED <<startDb, repeat>>

\* Mutant: the `continue` skips every disk with a row, completed or not.
MutUnpaired(s) ==
    mtDiskDic[s] = None /\ AssocSlotId(s) # NoSlot
    /\ AssocSlotId(s) \notin DOMAIN dbUpdateDic

\* A plan key of a disk not completed whose configured associated slot
\* is not in the plan.
Unpaired(s) ==
    LET r == mtDiskDic[s] IN
    ~(r # None /\ r.completed) /\ AssocSlotId(s) # NoSlot
    /\ AssocSlotId(s) \notin DOMAIN dbUpdateDic

\* One iteration of the associated-slot check, over the keys in the
\* dictionary's order (any order): a non-completed disk whose configured
\* associated slot is not in the plan is deleted from the plan while the
\* keys are iterated, which raises when keys() is a live view.
AssocCheck ==
    /\ phase = "assoc"
    /\ \E s \in todo :
         LET drop == Unpaired(s) IN
             /\ todo' = todo \ {s}
             /\ IF drop /\ LiveKeyView
                  THEN Crash /\ UNCHANGED <<dbUpdateDic, rmDiskDic>>
                ELSE IF drop
                  THEN /\ dbUpdateDic' = Without(dbUpdateDic, s)
                       /\ rmDiskDic' = rmDiskDic \cup {s}
                       /\ UNCHANGED <<phase, history>>
                ELSE UNCHANGED <<dbUpdateDic, rmDiskDic, phase, history>>
    /\ UNCHANGED <<world, db, clock, diskDic, mtDiskDic, queue, notified,
                   written>>

\* Rejected slots and their associated slots leave diskDic and the plan;
\* the notification of the problems met is sent; the apply loop is set up
\* over the storage sets of the remaining plan.
RemoveInvalid ==
    /\ phase = "assoc" /\ todo = {}
    /\ LET gone == UNION {{s, AssocSlotId(s)} : s \in rmDiskDic}
           plan == Restrict(dbUpdateDic, DOMAIN dbUpdateDic \ gone)
       IN  /\ diskDic' = Restrict(diskDic, DOMAIN diskDic \ gone)
           /\ dbUpdateDic' = plan
           /\ queue' = SortedSlotIds(DOMAIN plan)
    /\ phase' = "apply"
    /\ UNCHANGED <<world, db, clock, mtDiskDic, rmDiskDic, todo, notified,
                   written, history>>

\* The number genLogicalName gives a disk added in slot s: one more than
\* the highest number for a Main disk; for a Replication disk the number
\* of the disk the DB has in the Main slot on this host, less one, plus
\* one.  No such disk: the logical name is None and the split raises.
LogicalNumbers(s) ==
    IF IsMainDisk(s)
      THEN {IF MaxDiskNumber = None THEN 1 ELSE MaxDiskNumber + 1}
      ELSE {LET maxDiskNumber == db[m].num - 1 IN maxDiskNumber + 1 :
              m \in {e \in MountedHere : db[e].slot = MainSlot[StorageSetOf(s)]}}

\* addDiskInDb: a fresh row for the disk in slot s, installed now.
AddDiskInDb(s) ==
    IF LogicalNumbers(s) = {} THEN Crash /\ UNCHANGED <<db, written>>
    ELSE /\ \E n \in LogicalNumbers(s) :
              db' = [db EXCEPT ![diskDic[s]] =
                       [role |-> RoleOf(s), num |-> n, slot |-> s,
                        completed |-> FALSE, date |-> clock]]
         /\ written' = written \cup {diskDic[s]}
         /\ UNCHANGED <<phase, history>>

\* Mutant: the slot is set only on a row that is not mounted.
MutUpdateKeepSlot(s, r) ==
    /\ db' = [db EXCEPT ![diskDic[s]] =
                IF r.slot = NoSlot THEN [r EXCEPT !.slot = s] ELSE r]
    /\ written' = written \cup {diskDic[s]}
    /\ UNCHANGED <<phase, history>>

\* Mutant: the update also stamps the installation date.
MutUpdateRefreshDate(s, r) ==
    /\ db' = [db EXCEPT ![diskDic[s]] = [r EXCEPT !.slot = s, !.date = clock]]
    /\ written' = written \cup {diskDic[s]}
    /\ UNCHANGED <<phase, history>>

\* updateDiskInDb: the row r is written for the disk in slot s, mounted
\* in s on this host.
UpdateDiskInDb(s, r) ==
    /\ db' = [db EXCEPT ![diskDic[s]] = [r EXCEPT !.slot = s]]
    /\ written' = written \cup {diskDic[s]}
    /\ UNCHANGED <<phase, history>>

\* One iteration of the apply loop; `dbUpdateDic[slId]` raises KeyError
\* for a slot of the order that is not in the plan.
ApplySlot ==
    /\ phase = "apply" /\ queue # <<>>
    /\ LET s == Head(queue) IN
         IF s \notin DOMAIN dbUpdateDic THEN Crash /\ UNCHANGED <<db, written>>
         ELSE IF dbUpdateDic[s].op = "ADD" THEN AddDiskInDb(s)
         ELSE UpdateDiskInDb(s, dbUpdateDic[s].rec)
    /\ queue' = Tail(queue)
    /\ UNCHANGED <<world, clock, diskDic, mtDiskDic, dbUpdateDic, rmDiskDic,
                   todo, notified>>

\* checkStorageSetAvailability(m): findTargetDisk(m, reqSpace = 0) finds a
\* Main disk of the stream mounted here and not completed whose
\* Replication disk, if replication is on and one is mounted, is not
\* completed.
StreamAvailable(m) ==
    \E d \in MountedHere :
        /\ db[d].slot \in StreamSlotIds(m) /\ IsMainDisk(db[d].slot)
        /\ ~db[d].completed
        /\ Replication =>
             \A e \in MountedHere : db[e].slot = AssocSlotId(db[d].slot)
                                    => ~db[e].completed

\* After the apply loop every stream is checked; one notification names
\* the mime-types without target disks.  The pass is over.
CheckStreams ==
    /\ phase = "apply" /\ queue = <<>>
    /\ notified' = notified \cup
         (IF \E m \in MimeTypes : ~StreamAvailable(m) THEN {"noTargets"} ELSE {})
    /\ phase' = "done"
    /\ settled' = TRUE
    /\ UNCHANGED <<world, db, clock, diskDic, mtDiskDic, dbUpdateDic,
                   rmDiskDic, todo, queue, written, startDb, repeat>>

\* Non-archiving branch, one slot of diskDic in sorted order: the disk's
\* row is read and updated; without a row the resolved info is written,
\* or else the disk is added.
NonArchivingSlot ==
    /\ phase = "nonArch" /\ todo # {}
    /\ LET s == Min(todo) IN
         IF db[diskDic[s]] # None THEN UpdateDiskInDb(s, db[diskDic[s]])
         ELSE IF mtDiskDic[s] # None THEN UpdateDiskInDb(s, mtDiskDic[s])
         ELSE AddDiskInDb(s)
    /\ todo' = todo \ {Min(todo)}
    /\ UNCHANGED <<world, clock, diskDic, mtDiskDic, dbUpdateDic, rmDiskDic,
                   queue, notified>>

NonArchivingDone ==
    /\ phase = "nonArch" /\ todo = {}
    /\ phase' = "done"
    /\ settled' = TRUE
    /\ UNCHANGED <<world, db, clock, pass, startDb, repeat>>

-----------------------------------------------------------------------------
(* Between passes                                                          *)

\* No pass is running.  A change of the world between passes moves the
\* phase to "idle", so that "done" marks the state a pass ended in.
Rest == {"idle", "done", "crashed"}

\* Marker files written by another NGAS system since the last pass.
Foreign == {r \in Rec : r.slot = NoSlot /\ r.num = 1 /\ r.date = clock + 1}

\* A disk is pulled from slot s, or put into it (when empty, or in place of
\* the disk there), carrying its old marker file or one written elsewhere.
SwapDisk ==
    /\ phase \in Rest /\ changes < MaxChanges
    /\ \E s \in Slots, d \in (DiskIds \ Range(inventory)) \cup {None} :
         /\ d # inventory[s]
         /\ inventory' = [inventory EXCEPT ![s] = d]
         /\ IF d = None THEN UNCHANGED <<marker, markerDisk>>
            ELSE \E m \in {marker[d]} \cup Foreign :
                   /\ marker' = [marker EXCEPT ![d] = m]
                   /\ markerDisk' = [markerDisk EXCEPT ![d] =
                                       IF m = marker[d] THEN @ ELSE d]
    /\ changes' = changes + 1 /\ settled' = FALSE
    /\ phase' = "idle"
    /\ UNCHANGED <<access, db, clock, pass, startDb, repeat>>

\* The file system of a disk present becomes (in)accessible.
ToggleAccess ==
    /\ phase \in Rest /\ changes < MaxChanges
    /\ \E d \in DiskIds \cap Range(inventory) :
         access' = [access EXCEPT ![d] = ~@]
    /\ changes' = changes + 1 /\ settled' = FALSE
    /\ UNCHANGED <<inventory, marker, markerDisk, db, clock, pass, startDb,
                   repeat>>
    /\ phase' = "idle"

\* Archiving marks a disk mounted here completed.
CompleteDisk ==
    /\ phase \in Rest /\ changes < MaxChanges
    /\ \E d \in MountedHere :
         /\ ~db[d].completed
         /\ db' = [db EXCEPT ![d].completed = TRUE]
    /\ changes' = changes + 1 /\ settled' = FALSE
    /\ UNCHANGED <<inventory, marker, markerDisk, access, clock, pass,
                   startDb, repeat>>
    /\ phase' = "idle"

\* markDisksAsUnmountedInDb (the Offline transition): every row mounted
\* on this host is read and written back unmounted.
MarkDisksAsUnmountedInDb ==
    /\ phase \in Rest /\ changes < MaxChanges /\ MountedHere # {}
    /\ db' = [d \in DiskIds |-> IF d \in MountedHere
                                THEN [db[d] EXCEPT !.slot = NoSlot] ELSE db[d]]
    /\ changes' = changes + 1 /\ settled' = FALSE
    /\ phase' = "idle"
    /\ UNCHANGED <<inventory, marker, markerDisk, access, clock, pass,
                   startDb, repeat>>

\* dumpDiskInfo for the row of disk d, on the files acc: the row is
\* written into the marker file at the mount point of its slot, that is
\* on the disk now in that slot; opening the file raises when the slot is
\* empty or the disk is not writable, which ends the dump.
DumpOne(acc, d) ==
    IF ~acc.ok THEN acc
    ELSE LET p == inventory[db[d].slot] IN
         IF p = None \/ ~access[p] THEN [acc EXCEPT !.ok = FALSE]
         ELSE [acc EXCEPT !.files[p] = [db[d] EXCEPT !.slot = NoSlot],
                          !.ids[p]   = d]

\* dumpDiskInfoAllDisks: the rows mounted here, in the DB's order.  The
\* server dumps while it is Online: after a pass that returned, before
\* the disks are changed again.
DumpDiskInfoAllDisks ==
    /\ phase \in Rest /\ settled
    /\ \E order \in SetToSeqs(MountedHere) :
         LET out == FoldLeft(DumpOne,
                       [files |-> marker, ids |-> markerDisk, ok |-> TRUE], order)
         IN  /\ marker' = out.files
             /\ markerDisk' = out.ids
    /\ UNCHANGED <<inventory, access, db, clock, changes, pass,
                   startDb, settled, repeat>>
    /\ phase' = "idle"

\* All passes have been run.
Finished ==
    /\ phase \in Rest /\ clock = MaxPasses
    /\ UNCHANGED vars

Next ==
    \/ CheckDisks \/ ResolveSlots
    \/ ValidateSlot \/ ValidateDone \/ AssocCheck \/ RemoveInvalid
    \/ ApplySlot \/ CheckStreams
    \/ NonArchivingSlot \/ NonArchivingDone
    \/ SwapDisk \/ ToggleAccess \/ CompleteDisk \/ DumpDiskInfoAllDisks
    \/ MarkDisksAsUnmountedInDb
    \/ Finished

Spec == Init /\ [][Next]_vars

-----------------------------------------------------------------------------
(* Properties                                                              *)

\* A pass of the archiving branch ran to its end.
ArchivingPassDone == phase = "done" /\ AllowArchive /\ written # {}

\* P2: a pass of an archiving system writes no row whose role token
\* contradicts the slot it is mounted in (completed disks excepted: the
\* validation loop updates them unchecked).
RoleInvariant ==
    ArchivingPassDone =>
        \A d \in written : ~db[d].completed => db[d].role = RoleOf(db[d].slot)

\* P6: after a pass, no row claims a disk is mounted on this host that is
\* not physically present (the first loop of checkDisks).
UnmountStale ==
    phase = "done" => \A d \in MountedHere : d \in Range(inventory)

\* P7: once the associated-slot check is over, every disk in the plan of
\* an archiving pass that is not completed and whose slot has an
\* associated slot is planned together with the disk of that slot (the
\* validation loop, the rejection of associated slots and the loop over
\* dbUpdateDic.keys() share this between them).
AssocCompleteness ==
    (AllowArchive /\ phase \in {"apply", "done"}) =>
        \A s \in DOMAIN dbUpdateDic :
            (~(mtDiskDic[s] # None /\ mtDiskDic[s].completed)
             /\ AssocSlotId(s) # NoSlot) => AssocSlotId(s) \in DOMAIN dbUpdateDic

\* P1: a pass that repeats a completed one, with no physical change in
\* between (status dumps aside), leaves the rows as it found them.
Idempotent ==
    (phase = "done" /\ repeat) => db = startDb

\* Section 6: the NgasDiskInfo file at a disk's mount point describes that
\* disk; the status dump never leaves on a disk the file of another one.
MarkerOnOwnDisk ==
    \A d \in DiskIds : markerDisk[d] \in {d, None}

\* Section 4.1b: a Replication disk added by a pass is numbered one less
\* than the Main disk of its storage set.
RepNumberPrecedesMain ==
    phase = "done" =>
        \A s \in DOMAIN dbUpdateDic :
            (dbUpdateDic[s].op = "ADD" /\ ~IsMainDisk(s)) =>
                \A m \in MountedHere :
                    db[m].slot = MainSlot[StorageSetOf(s)] =>
                        db[diskDic[s]].num = db[m].num - 1

\* Section 7: a reconciliation pass ends in an exception only on a
\* malformed logical name or a failing DB; role, accessibility and
\* pairing problems are soft failures.
PassCompletes == phase # "crashed"

=============================================================================
