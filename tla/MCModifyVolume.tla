--------------------------- MODULE MCModifyVolume ---------------------------
EXTENDS ModifyVolume, TLC

\* An expansion, IOPS with a type, IOPS per GiB with a tag to delete, and nothing but a tag to
\* delete.
MCInputs ==
    {Expansion(2), Modification(2, 0, 2, 0, 0, 0), Modification(0, 0, 0, 1, 1, 1),
     Modification(0, 0, 0, 0, 0, 1)}

\* IOPS and IOPS per GiB in one request, and a tag that does not parse.
MCMoreInputs == MCInputs \cup {Modification(1, 2, 0, 1, 3, 0)}

\* One IOPS per GiB of two is more than the first type allows.
MCLimits == [t \in 1..2 |-> [min |-> 1, max |-> t, perGb |-> 3]]

Symmetry == Permutations(Callers)
=============================================================================
