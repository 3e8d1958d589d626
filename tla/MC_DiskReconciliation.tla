---------------------- MODULE MC_DiskReconciliation ----------------------
(***************************************************************************)
(* Instantiates DiskReconciliation for TLC: one storage set S1 with Main   *)
(* slot 1 and Replication slot 2, one stream "x" over it, three disks that *)
(* may be swapped in and out of the two slots.  Disks are interchangeable, *)
(* so their permutations are a symmetry.                                   *)
(***************************************************************************)
EXTENDS DiskReconciliation, TLC

CONSTANTS a, b, c

MC_StorageSets == {"S1"}
MC_MainSlot    == [ss \in MC_StorageSets |-> 1]
MC_RepSlot     == [ss \in MC_StorageSets |-> 2]
MC_StreamSets  == [m \in {"x"} |-> MC_StorageSets]
MC_Symmetry    == Permutations({a, b, c})

=============================================================================
