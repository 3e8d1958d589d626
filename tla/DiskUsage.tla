----------------------------- MODULE DiskUsage -----------------------------
(***************************************************************************)
(* What the Disk Status Updater (updateDiskStatusDb) promises: after each  *)
(* stored file the disk's cumulative counters grow atomically, by the file *)
(* size in bytes stored and by one file unless the file already existed.   *)
(* The detailed module TargetDiskSelection is checked to implement this.   *)
(***************************************************************************)
EXTENDS Naturals

CONSTANTS Disks, FileSizes

VARIABLE usage   \* [Disks -> [bytes: Nat, nfiles: Nat]]

Init == usage = [d \in Disks |-> [bytes |-> 0, nfiles |-> 0]]

\* One stored file of size sz on disk d; exists = it replaced a file that
\* was already in the archive.
Record(d, sz, exists) ==
    usage' = [usage EXCEPT ![d].bytes  = @ + sz,
                           ![d].nfiles = @ + (IF exists THEN 0 ELSE 1)]

Next == \E d \in Disks, sz \in FileSizes, e \in BOOLEAN : Record(d, sz, e)

Spec == Init /\ [][Next]_usage

=============================================================================
