---------------------------- MODULE AllocPolicy ----------------------------
(***************************************************************************)
(* _ssm_alloc_size(): the size to allocate for a dynamic buffer.           *)
(***************************************************************************)
EXTENDS SSMCommon

CONSTANTS
    SmallestAllocation,   \* SSM_SMALLEST_ALLOCATION, 8 in the code
    ShrinkPercent,        \* SSM_SHRINK_THRESHOLD_PERCENT, 20 in the code
    SizeT                 \* the number of values of size_t, 2^32 or 2^64

ASSUME PolicyAssumption == /\ SmallestAllocation \in Nat \ {0}
                           /\ ShrinkPercent \in 1 .. 100
                           /\ SizeT \in Nat /\ 2 * SizeMax < SizeT

\* Arithmetic on size_t.  Of the products of the policy only those of the
\* threshold can reach SizeT: doubling a size of at most SizeMax does not.
Wrap(x) == x % SizeT

\* Mutants: an area is kept for any smaller size, or for the same size only
KeepsLarger(oldSize, newSize) == newSize <= oldSize
KeepsSame(oldSize, newSize) == newSize = oldSize

\* An area of oldSize bytes is kept for newSize bytes: it has that size, or is
\* larger and the new size is above the shrink threshold
KeepsArea(oldSize, newSize) ==
    \/ newSize = oldSize
    \/ newSize < oldSize /\ Wrap(100 * newSize) > Wrap(ShrinkPercent * oldSize)

\* Mutant: a larger size doubles the area even when it asks for more
AllocDoubles(oldSize, newSize) ==
    IF KeepsArea(oldSize, newSize) THEN oldSize
    ELSE IF newSize <= SmallestAllocation THEN SmallestAllocation
    ELSE IF newSize > oldSize /\ oldSize > 0 THEN 2 * oldSize
    ELSE newSize

\* Mutant: a larger size is granted as it is
AllocExact(oldSize, newSize) ==
    IF KeepsArea(oldSize, newSize) THEN oldSize
    ELSE IF newSize <= SmallestAllocation THEN SmallestAllocation
    ELSE newSize

AllocSize(oldSize, newSize) ==
    IF KeepsArea(oldSize, newSize) THEN oldSize
    ELSE IF newSize <= SmallestAllocation THEN SmallestAllocation
    ELSE IF newSize > oldSize /\ newSize < 2 * oldSize THEN 2 * oldSize
    ELSE newSize

=============================================================================
