--------------------------- MODULE NgasDiskConfig ---------------------------
(***************************************************************************)
(* The storage-set topology of one NG/AMS node, as the disk utilities      *)
(* (ngamsLib/ngamsDiskUtils.py) read it from the configuration object.     *)
(* A storage set pairs a Main slot with an optional Replication slot; a    *)
(* stream maps a mime-type to the storage sets that may receive it.  The   *)
(* configuration is read-only to the disk utilities, so it is a set of     *)
(* CONSTANTS shared by the component modules.                              *)
(***************************************************************************)
EXTENDS Naturals, FiniteSets

CONSTANTS
    Slots,        \* slot ids of the configuration (getSlotIds), naturals
    NoSlot,       \* the empty slot id "" (no Replication slot)
    StorageSets,  \* storage-set ids
    MainSlot,     \* [StorageSets -> Slots]: getMainDiskSlotId()
    RepSlot,      \* [StorageSets -> Slots \cup {NoSlot}]: getRepDiskSlotId()
    MimeTypes,    \* mime-types that have a stream
    StreamSets,   \* [MimeTypes -> SUBSET StorageSets]: getStorageSetIdList()
    Replication   \* getReplication(): replication to the Replication slot

ASSUME Slots \subseteq Nat /\ NoSlot \notin Slots
ASSUME MainSlot \in [StorageSets -> Slots]
ASSUME RepSlot \in [StorageSets -> Slots \cup {NoSlot}]
\* Every slot belongs to exactly one storage set, in exactly one role.
ASSUME \A s \in Slots :
         Cardinality({ss \in StorageSets : s \in {MainSlot[ss], RepSlot[ss]}}) = 1
ASSUME \A ss \in StorageSets : MainSlot[ss] # RepSlot[ss]
ASSUME StreamSets \in [MimeTypes -> SUBSET StorageSets]
ASSUME Replication \in BOOLEAN

\* ngamsConfig.getStorageSetFromSlotId(slotId).
StorageSetOf(s) == CHOOSE ss \in StorageSets : s \in {MainSlot[ss], RepSlot[ss]}

\* isMainDisk(slotId, cfg): the slot is the Main slot of its storage set.
IsMainDisk(s) == MainSlot[StorageSetOf(s)] = s

\* ngamsConfig.getAssocSlotId(slotId): the other slot of the storage set,
\* or "" when there is none.
AssocSlotId(s) ==
    IF s \notin Slots THEN NoSlot
    ELSE IF IsMainDisk(s) THEN RepSlot[StorageSetOf(s)]
                          ELSE MainSlot[StorageSetOf(s)]

\* The slot ids whose disks may receive files of mime-type m: the Main
\* and (if any) Replication slot of every storage set of the stream.
StreamSlotIds(m) ==
    UNION {{MainSlot[ss]} \cup ({RepSlot[ss]} \ {NoSlot}) : ss \in StreamSets[m]}

=============================================================================
