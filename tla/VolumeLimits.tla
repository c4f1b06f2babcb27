---------------------------- MODULE VolumeLimits ----------------------------
(***************************************************************************)
(* How many volumes a node may have: the tables of instance types          *)
(* (pkg/cloud/limits) and NodeService.getVolumesLimit.                     *)
(***************************************************************************)
EXTENDS Integers

CONSTANTS InstanceTypes,
          NonNitro,      \* nonNitroInstanceTypes
          VolumeTable,   \* volumeLimits: instance types with their attachments, shared or not
          Dedicated,     \* dedicatedInstances: those the table has wrong
          CardTable,     \* ebsCardCounts
          VolumeAttachLimit,          \* --volume-attach-limit, -1 when not set
          ReservedVolumeAttachments   \* --reserved-volume-attachments, -1 to detect them

\* The tables: NonNitro and Dedicated are sets of types, the others functions on some types.
ASSUME TablesAssumption ==
    /\ NonNitro \subseteq InstanceTypes /\ Dedicated \subseteq InstanceTypes
    /\ DOMAIN VolumeTable \subseteq InstanceTypes
    /\ \A t \in DOMAIN VolumeTable : VolumeTable[t] \in [max : Nat, shared : BOOLEAN]
    /\ DOMAIN CardTable \subseteq InstanceTypes
    /\ \A t \in DOMAIN CardTable : CardTable[t] \in Nat \ {0}

ASSUME OptionsAssumption ==
    VolumeAttachLimit \in Nat \cup {-1} /\ ReservedVolumeAttachments \in Nat \cup {-1}

GetVolumeLimits(type) ==
    IF type \in NonNitro THEN [max |-> 39, shared |-> FALSE]
    ELSE IF type \in DOMAIN VolumeTable
    THEN [VolumeTable[type] EXCEPT !.shared = @ /\ type \notin Dedicated]
    ELSE [max |-> 27, shared |-> TRUE]

GetCardCount(type) == IF type \in DOMAIN CardTable THEN CardTable[type] ELSE 1

\* Wrong: the root volume is forgotten.
ReservedWithoutRoot(mappings) ==
    IF ReservedVolumeAttachments = -1 THEN mappings ELSE ReservedVolumeAttachments

\* The root volume is not among the mappings.
Reserved(mappings) ==
    IF ReservedVolumeAttachments = -1 THEN mappings + 1 ELSE ReservedVolumeAttachments

\* `enis` and `mappings` are NumAttachedENIs and NumBlockDeviceMappings of the metadata.
GetVolumesLimit(type, enis, mappings) ==
    LET limits == GetVolumeLimits(type)
        available == limits.max - Reserved(mappings) - (IF limits.shared THEN enis - 1 ELSE 0)
    IN  IF VolumeAttachLimit >= 0 THEN VolumeAttachLimit
        ELSE IF available <= 0 THEN 1 ELSE available
=============================================================================
