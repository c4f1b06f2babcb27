--------------------------- MODULE ModifyRequest ----------------------------
(***************************************************************************)
(* modifyVolumeRequest of pkg/driver/controller_modify_volume.go: what     *)
(* ControllerExpandVolume and ControllerModifyVolume ask for, and how two  *)
(* such requests are merged.  A field that is not asked for is 0.          *)
(***************************************************************************)
EXTENDS Integers

\* TagsToAdd with the two tags the driver reads back itself (0: not in the map), and
\* TagsToDelete, a list of tags the driver does not read.
Tags == [IOPSPerGb : Nat, AllowAutoIOPSIncreaseOnModify : 0..3, TagsToDelete : Nat]

NoTags == [IOPSPerGb |-> 0, AllowAutoIOPSIncreaseOnModify |-> 0, TagsToDelete |-> 0]

Request ==
    [newSize : Nat, IOPS : Nat, Throughput : Nat, VolumeType : Nat,
     IOPSPerGB : Nat, AllowIopsIncreaseOnResize : BOOLEAN, tags : Tags]

Nothing ==
    [newSize |-> 0, IOPS |-> 0, Throughput |-> 0, VolumeType |-> 0,
     IOPSPerGB |-> 0, AllowIopsIncreaseOnResize |-> FALSE, tags |-> NoTags]

\* ControllerExpandVolume.
Expansion(size) == [Nothing EXCEPT !.newSize = size]

\* ControllerModifyVolume: parseModifyVolumeParameters also makes the tags IOPSPerGb and
\* AllowAutoIOPSIncreaseOnModify of the parameters with these names; the value of the
\* latter is 1 for true, 2 for false, 3 when strconv.ParseBool does not know it.
Modification(iops, throughput, type, perGB, allow, del) ==
    [newSize |-> 0, IOPS |-> iops, Throughput |-> throughput, VolumeType |-> type,
     IOPSPerGB |-> perGB, AllowIopsIncreaseOnResize |-> allow = 1,
     tags |-> [IOPSPerGb |-> perGB, AllowAutoIOPSIncreaseOnModify |-> allow,
               TagsToDelete |-> del]]

Fields == DOMAIN Nothing

\* The fields mergeModifyVolumeRequest looks at.
MergedFields == {"newSize", "IOPS", "Throughput", "VolumeType", "tags"}

Asks(r, f) == r[f] # Nothing[f]

\* mergeModifyVolumeRequest returns an error.
Different(input, existing) ==
    \E f \in MergedFields : Asks(input, f) /\ Asks(existing, f) /\ input[f] # existing[f]

\* mergeModifyVolumeRequest, when it does not return an error.
Merged(input, existing) ==
    [f \in Fields |-> IF f \in MergedFields /\ Asks(input, f) THEN input[f] ELSE existing[f]]

\* executeModifyVolumeRequest calls ModifyTags; it calls ResizeOrModifyDisk.
AsksTags(r) == Asks(r, "tags")

AsksDisk(r) == \E f \in {"newSize", "IOPS", "Throughput", "VolumeType", "IOPSPerGB"} : Asks(r, f)

\* capIOPS with allowIncrease; a limit of 0 is none.
CapIOPS(size, requested, limits) ==
    LET raised == IF requested < limits.min THEN limits.min ELSE requested
        capped == IF limits.max > 0 /\ raised > limits.max THEN limits.max ELSE raised
        byCapacity == limits.perGb * size
    IN  IF byCapacity > 0 /\ capped > byCapacity /\ byCapacity >= limits.min
        THEN byCapacity ELSE capped
=============================================================================
