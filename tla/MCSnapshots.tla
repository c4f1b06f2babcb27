---------------------------- MODULE MCSnapshots -----------------------------
EXTENDS Snapshots, TLC

\* Every combination of parameters.
MCParameters == [fsr : BOOLEAN, lock : BOOLEAN]

Symmetry == Permutations(Procs)
=============================================================================
