--------------------------- MODULE MCNodeService ----------------------------
EXTENDS NodeService, TLC

Symmetry == Permutations(Procs) \cup Permutations(Disks) \cup Permutations(Paths)
=============================================================================
