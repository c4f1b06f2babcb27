------------------------- MODULE MCVolumeAttachment -------------------------
(* VolumeAttachment for TLC. *)
EXTENDS VolumeAttachment, TLC

Symmetry == Permutations(Procs)
=============================================================================
