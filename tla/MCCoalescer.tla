---------------------------- MODULE MCCoalescer -----------------------------
EXTENDS Coalescer

\* Two sizes, IOPS with a type and a throughput, and IOPS per GiB, whose parameter also
\* makes a tag.
MCInputs == {Expansion(1), Expansion(2), Modification(2, 1, 1, 0, 0, 0),
             Modification(0, 0, 0, 1, 1, 0)}
=============================================================================
