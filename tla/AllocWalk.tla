----------------------------- MODULE AllocWalk -----------------------------
(***************************************************************************)
(* The allocation policy over the life of one dynamic buffer: a sequence   *)
(* of requests, each answered from the size of the area the previous one   *)
(* left.                                                                   *)
(***************************************************************************)
EXTENDS AllocPolicy

CONSTANT MaxCredit   \* bound: no more credit than this is kept

ASSUME WalkAssumption == MaxCredit \in Nat

VARIABLES
    area,    \* the size of the area, 0 without one
    asked,   \* the size the last request asked for
    credit   \* two bytes for each byte the size asked for has moved, less the
             \* bytes the reallocations have copied (history)

vars == <<area, asked, credit>>

Init == area = 0 /\ asked = 0 /\ credit = 0

Smaller(m, n) == IF m < n THEN m ELSE n
Distance(m, n) == IF m < n THEN n - m ELSE m - n

\* The bytes of content, at most, that a reallocation moves to the new area
CopiedFor(n) == IF area' = area THEN 0 ELSE Smaller(asked, n)

\* A request of _ssm_dbuffer_alloc().  It is refused when the area is larger
\* than SSM_SIZE_MAX: the buffer is then taken for a corrupted one.
Request(n) ==
    /\ area <= SizeMax
    /\ asked' = n
    /\ area' = AllocSize(area, n)
    /\ credit' = Smaller(MaxCredit, credit + 2 * Distance(asked, n) - CopiedFor(n))

Next == \E n \in 1 .. SizeMax : Request(n)

Spec == Init /\ [][Next]_vars

-----------------------------------------------------------------------------
\* The area holds what was asked for.
Suffices == asked <= area

\* The area is never more than 100/ShrinkPercent times what was asked for, the
\* smallest allocation and the doubling included: the policy bounds the memory
\* a buffer wastes over any sequence of requests.
BoundedWaste ==
    \/ area <= SmallestAllocation
    \/ ShrinkPercent * area < 100 * asked
    \/ area <= 2 * asked

\* The policy does not thrash: after a request that has changed the area, the
\* same request or one for a byte less keeps it, so that a length that goes up
\* and down by one byte around a boundary does not reallocate each time.
NoThrash ==
    [][area' # area /\ asked' > 1 =>
          \A n \in {asked' - 1, asked'} : AllocSize(area', n) = area']_vars

\* The reallocations are paid for: over any sequence of requests they copy no more
\* than twice as many bytes as the requests go up and down.  Doubling when
\* a buffer grows and the threshold when it shrinks are what makes it so.
CopiesArePaid == credit >= 0

\* ssm_alloc_size.c: "we keep the previous larger buffer to avoid reallocation
\* and copy, unless the new size is really much smaller (below this threshold)".
ShrinksOnlyBelowThreshold ==
    [][area' < area => 100 * asked' <= ShrinkPercent * area]_vars

=============================================================================
