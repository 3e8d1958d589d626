----------------------- MODULE MC_TargetDiskSelection -----------------------
(***************************************************************************)
(* Instantiates TargetDiskSelection for TLC: two storage sets, S1 with a   *)
(* Main slot 1 and a Replication slot 2, and S2 with only a Main slot 3;   *)
(* one stream (mime-type "x") over both sets; disks d1, d2, d3 mounted in  *)
(* slots 1, 2, 3.  d2 (the Replication disk of d1) has less room than d1,  *)
(* so that a file fitting the Main disk may not fit its Replication disk.  *)
(***************************************************************************)
EXTENDS TargetDiskSelection, TLC

CONSTANTS d1, d2, d3

MC_StorageSets == {"S1", "S2"}
MC_MainSlot    == [ss \in MC_StorageSets |-> IF ss = "S1" THEN 1 ELSE 3]
MC_RepSlot     == [ss \in MC_StorageSets |-> IF ss = "S1" THEN 2 ELSE 0]
MC_StreamSets  == [m \in {"x"} |-> MC_StorageSets]
\* A variant with a third storage set S3 (Main slot 4, no disk mounted) and
\* a second stream "y" over S3 only, for which no disk is found.
MC_StorageSets3 == MC_StorageSets \cup {"S3"}
MC_MainSlot3    == [ss \in MC_StorageSets3 |-> IF ss = "S3" THEN 4 ELSE MC_MainSlot[ss]]
MC_RepSlot3     == [ss \in MC_StorageSets3 |-> IF ss = "S3" THEN 0 ELSE MC_RepSlot[ss]]
MC_StreamSets3  == ("x" :> MC_StorageSets) @@ ("y" :> {"S3"})
MC_DiskSlot    == (d1 :> 1) @@ (d2 :> 2) @@ (d3 :> 3)
MC_InitFree    == (d1 :> 3) @@ (d2 :> 1) @@ (d3 :> 2)
MC_ExemptLists == {{}, {d1}}
\* Two-thread runs pass no exempt list, to keep their state space small.
MC_NoExempt    == {{}}

=============================================================================
