------------------------------- MODULE Sizes --------------------------------
(***************************************************************************)
(* Sizes and IOPS: the conversions of pkg/util, getVolSizeBytes and        *)
(* capIOPS, with the widths of Go's integers.                              *)
(***************************************************************************)
EXTENDS Integers

CONSTANTS GiB, MaxInt32, MaxInt64, DefaultVolumeSize

\* The real values are 2^30, 2^31 - 1, 2^63 - 1 and 100 GiB.
ASSUME WidthsAssumption ==
    /\ GiB \in Nat \ {0} /\ MaxInt32 \in Nat \ {0} /\ MaxInt64 \in Nat \ {0}
    /\ GiB < MaxInt64 /\ MaxInt32 <= MaxInt64
    /\ DefaultVolumeSize \in Nat

\* Two's complement.
Wrap(n, max) == ((n + max + 1) % (2 * (max + 1))) - (max + 1)

Int32(n) == Wrap(n, MaxInt32)

Int64(n) == Wrap(n, MaxInt64)

\* Go's division truncates.
Quotient(a, b) == IF a >= 0 THEN a \div b ELSE -((-a) \div b)

\* Wrong: the remainder is dropped.
RoundDownSize(bytes, unit) == Quotient(bytes, unit)

RoundUpSize(bytes, unit) == Quotient(Int64(bytes + unit - 1), unit)

RoundUpBytes(bytes) == Int64(RoundUpSize(bytes, GiB) * GiB)

BytesToGiB(bytes) ==
    IF Quotient(bytes, GiB) > MaxInt32 THEN MaxInt32 ELSE Int32(Quotient(bytes, GiB))

GiBToBytes(gib) == Int64(gib * GiB)

\* getVolSizeBytes: `range` is the capacity range, if one is given; -1 stands for the error.
GetVolSizeBytes(range) ==
    LET size == RoundUpBytes(range.required)
    IN  IF ~range.given THEN DefaultVolumeSize
        ELSE IF range.limit > 0 /\ range.limit < size THEN -1 ELSE size

\* Wrong: the limit of the size is applied whatever the minimum.
CapIOPSBelowMin(gib, requested, limits, allowIncrease) ==
    LET raised == IF limits.min > 0 /\ requested < limits.min /\ allowIncrease
                  THEN limits.min ELSE requested
        capped == IF limits.max > 0 /\ raised > limits.max THEN limits.max ELSE raised
        bySize == Int32(limits.perGb * gib)
    IN  IF bySize > 0 /\ capped > bySize THEN bySize ELSE capped

CapIOPS(gib, requested, limits, allowIncrease) ==
    LET raised == IF limits.min > 0 /\ requested < limits.min /\ allowIncrease
                  THEN limits.min ELSE requested
        capped == IF limits.max > 0 /\ raised > limits.max THEN limits.max ELSE raised
        bySize == Int32(limits.perGb * gib)
    IN  IF requested = 0 THEN 0
        ELSE IF bySize > 0 /\ capped > bySize /\ bySize >= limits.min THEN bySize ELSE capped
=============================================================================
