---------------------------- MODULE AllocProofs ----------------------------
(***************************************************************************)
(* The allocation policy for every value of its constants: the theorems of *)
(* AllocWalk.                                                              *)
(*                                                                         *)
(* What the threshold guarantees needs a size_t wide enough for the         *)
(* products of _ssm_alloc_size().  Where it is not, AllocWalk32 shows it to *)
(* be false.                                                               *)
(***************************************************************************)
EXTENDS AllocWalk, TLAPS

\* The products of the policy do not wrap for any size up to twice the maximum,
\* which the doubling can reach: true of a size_t of 64 bits
Wide == 200 * SizeMax < SizeT

IInv == area \in Nat /\ asked \in Nat /\ Suffices

-----------------------------------------------------------------------------
\* _ssm_alloc_size() never answers less than it is asked for: it keeps an area
\* only for a size that is not larger, and its other answers are at least it.
LEMMA AllocSizeSuffices ==
    ASSUME NEW old \in Nat, NEW new \in Nat
    PROVE  AllocSize(old, new) \in Nat /\ AllocSize(old, new) >= new
  BY PolicyAssumption DEF AllocSize, KeepsArea

LEMMA Inductive == Spec => []IInv
<1>1. Init => IInv
  BY DEF Init, IInv, Suffices
<1>2. IInv /\ [Next]_vars => IInv'
  <2> SUFFICES ASSUME IInv, [Next]_vars PROVE IInv'
    OBVIOUS
  <2>1. CASE UNCHANGED vars
    BY <2>1 DEF IInv, Suffices, vars
  <2>2. ASSUME NEW n \in 1 .. SizeMax, Request(n) PROVE IInv'
    BY <2>2, AllocSizeSuffices, SizeAssumption DEF Request, IInv, Suffices
  <2> QED
    BY <2>1, <2>2 DEF Next
<1> QED
  BY <1>1, <1>2, PTL DEF Spec

\* The area always holds what was last asked for, over any sequence of requests,
\* also when the products of the threshold wrap around.
THEOREM AlwaysSuffices == Spec => []Suffices
<1>1. IInv => Suffices
  BY DEF IInv
<1> QED
  BY <1>1, Inductive, PTL

-----------------------------------------------------------------------------
LEMMA Monotone ==
    ASSUME NEW a \in Nat, NEW b \in Nat, NEW c \in Nat, a <= b
    PROVE  a * c <= b * c
  OBVIOUS

LEMMA NoWrap ==
    ASSUME NEW x \in Nat, x < SizeT PROVE Wrap(x) = x
  BY PolicyAssumption DEF Wrap

\* With a wide size_t the threshold is the one the code's comment describes.
LEMMA Threshold ==
    ASSUME Wide, NEW old \in 0 .. 2 * SizeMax, NEW new \in 0 .. SizeMax
    PROVE  KeepsArea(old, new) <=>
              new = old \/ (new < old /\ 100 * new > ShrinkPercent * old)
<1>1. ShrinkPercent * old <= 100 * old
  BY Monotone, PolicyAssumption, SizeAssumption
<1>2. 100 * old < SizeT /\ 100 * new < SizeT /\ ShrinkPercent * old < SizeT
  BY <1>1, SizeAssumption, PolicyAssumption DEF Wide
<1>3. ShrinkPercent * old \in Nat /\ 100 * new \in Nat
  BY PolicyAssumption, SizeAssumption
<1>4. Wrap(100 * new) = 100 * new /\ Wrap(ShrinkPercent * old) = ShrinkPercent * old
  BY <1>2, <1>3, NoWrap
<1> QED
  BY <1>4 DEF KeepsArea

\* The only results of _ssm_alloc_size() other than the size of the area.
LEMMA OtherSizes ==
    ASSUME NEW old \in Nat, NEW new \in Nat, AllocSize(old, new) # old
    PROVE  /\ ~ KeepsArea(old, new)
           /\ \/ new <= SmallestAllocation /\ AllocSize(old, new) = SmallestAllocation
              \/ /\ new > SmallestAllocation /\ old < new /\ new < 2 * old
                 /\ AllocSize(old, new) = 2 * old
              \/ new > SmallestAllocation /\ AllocSize(old, new) = new
  BY PolicyAssumption DEF AllocSize

-----------------------------------------------------------------------------
\* The area is larger than 100/ShrinkPercent times what was asked for only when
\* it is the smallest one, or the one doubling gave.
THEOREM WasteIsBounded == ASSUME Wide PROVE Spec => []BoundedWaste
<1> DEFINE J == IInv /\ BoundedWaste
<1>1. Init => J
  BY PolicyAssumption DEF Init, IInv, Suffices, BoundedWaste
<1>2. J /\ [Next]_vars => J'
  <2> SUFFICES ASSUME J, [Next]_vars PROVE J'
    OBVIOUS
  <2>1. CASE UNCHANGED vars
    BY <2>1 DEF IInv, Suffices, BoundedWaste, vars
  <2>2. ASSUME NEW n \in 1 .. SizeMax, Request(n) PROVE J'
    <3>1. area \in 0 .. SizeMax /\ n \in Nat /\ n <= SizeMax /\ asked' = n
      BY <2>2, SizeAssumption DEF Request, IInv
    <3>2. area' = AllocSize(area, n) /\ area' \in Nat /\ area' >= n
      BY <2>2, <3>1, AllocSizeSuffices DEF Request
    <3>3. CASE area' = area
      <4>1. KeepsArea(area, n) \/ area' <= SmallestAllocation \/ area' <= 2 * n
        BY <3>1, <3>2, PolicyAssumption DEF AllocSize
      <4>2. KeepsArea(area, n) => area = n \/ ShrinkPercent * area < 100 * n
        <5>1. area \in 0 .. 2 * SizeMax /\ n \in 0 .. SizeMax
          BY <3>1, SizeAssumption
        <5>2. ShrinkPercent * area \in Nat /\ 100 * n \in Nat
          BY <3>1, PolicyAssumption
        <5> QED
          BY <5>1, <5>2, Threshold
      <4> QED
        BY <3>1, <3>2, <3>3, <4>1, <4>2 DEF IInv, Suffices, BoundedWaste
    <3>4. CASE area' # area
      <4>1. area' <= SmallestAllocation \/ area' <= 2 * n
        BY <3>1, <3>2, <3>4, OtherSizes, PolicyAssumption
      <4> QED
        BY <3>1, <3>2, <4>1 DEF IInv, Suffices, BoundedWaste
    <3> QED
      BY <3>3, <3>4
  <2> QED
    BY <2>1, <2>2 DEF Next
<1>3. J => BoundedWaste
  OBVIOUS
<1> QED
  BY <1>1, <1>2, <1>3, PTL DEF Spec

\* A size that has changed the area fits it, and so does the one below: with a
\* threshold under 50 percent the policy cannot alternate between two areas
\* around one length.
THEOREM DoesNotThrash ==
    ASSUME Wide, ShrinkPercent < 50 PROVE Spec => NoThrash
<1> DEFINE A == area' # area /\ asked' > 1 =>
                   \A n \in {asked' - 1, asked'} : AllocSize(area', n) = area'
<1>1. IInv /\ [Next]_vars => [A]_vars
  <2> SUFFICES ASSUME IInv, NEW m \in 1 .. SizeMax, Request(m), area' # area, m > 1,
                      NEW n \in {m - 1, m}
               PROVE  AllocSize(area', n) = area'
    BY DEF Next, vars, Request
  <2>1. /\ area \in Nat /\ area <= SizeMax /\ m \in Nat /\ m <= SizeMax
        /\ area' = AllocSize(area, m)
    BY SizeAssumption DEF IInv, Request
  <2>2. n = m - 1 \/ n = m
    OBVIOUS
  <2>3. n \in Nat /\ n <= SizeMax /\ 1 <= n /\ n <= m /\ m <= n + 1
    BY <2>1, <2>2, SizeAssumption
  <2>4. CASE m <= SmallestAllocation /\ area' = SmallestAllocation
    BY <2>3, <2>1, <2>4, PolicyAssumption DEF AllocSize
  <2>5. CASE m > SmallestAllocation /\ area < m /\ m < 2 * area /\ area' = 2 * area
    <3>1. area' \in 0 .. 2 * SizeMax /\ n \in 0 .. SizeMax /\ n < area'
      BY <2>1, <2>3, <2>5, SizeAssumption
    <3>2. ShrinkPercent * area <= 49 * area
      BY <2>1, Monotone, PolicyAssumption
    <3>3. ShrinkPercent * area' = 2 * (ShrinkPercent * area)
      BY <2>1, <2>5, PolicyAssumption
    <3>4. ShrinkPercent * area \in Nat
      BY <2>1, PolicyAssumption
    <3>5. ShrinkPercent * area' < 100 * n
      BY <2>1, <2>3, <2>5, <3>2, <3>3, <3>4
    <3>6. KeepsArea(area', n)
      BY <3>1, <3>5, Threshold
    <3> QED
      BY <3>6 DEF AllocSize
  <2>6. CASE m > SmallestAllocation /\ area' = m
    <3>1. CASE n = m
      BY <2>6, <3>1 DEF AllocSize, KeepsArea
    <3>2. CASE n = m - 1
      <4>1. ShrinkPercent * m <= 49 * m
        BY <2>1, Monotone, PolicyAssumption
      <4>2. ShrinkPercent * m < 100 * n
        <5>1. ShrinkPercent * m \in Nat
          BY <2>1, PolicyAssumption
        <5> QED
          BY <2>1, <2>3, <3>2, <4>1, <5>1
      <4>3. m \in 0 .. 2 * SizeMax /\ n \in 0 .. SizeMax /\ n < m
        BY <2>1, <2>3, <3>2, SizeAssumption
      <4>4. KeepsArea(area', n)
        BY <2>6, <4>2, <4>3, Threshold
      <4> QED
        BY <4>4 DEF AllocSize
    <3> QED
      BY <2>2, <3>1, <3>2
  <2> QED
    BY <2>1, <2>4, <2>5, <2>6, OtherSizes
<1> QED
  BY <1>1, Inductive, PTL DEF Spec, NoThrash

-----------------------------------------------------------------------------
(* The copies are paid for.                                                *)

\* A buffer has no area, or one of the smallest size at least
Sized == (area = 0 /\ asked = 0) \/ area >= SmallestAllocation

\* With c of credit the next reallocation of an area of size a that holds n is paid
\* for: the one for a byte more than the area, after the length has gone up to it,
\* and one for a size m below the threshold
PaysFor(a, n, c) ==
    /\ c \in Int
    /\ c >= 0
    /\ c >= 2 * n - a - 2
    /\ a > SmallestAllocation =>
          \A m \in 1 .. a : 100 * m <= ShrinkPercent * a => c >= 4 * m - 2 * n - 2

Provided == PaysFor(area, asked, credit)

\* A quarter of an area, at most, is below the threshold.
LEMMA BelowThreshold ==
    ASSUME ShrinkPercent <= 25, NEW a \in Nat, NEW m \in Nat, 100 * m <= ShrinkPercent * a
    PROVE  4 * m <= a
<1>1. ShrinkPercent * a <= 25 * a /\ ShrinkPercent * a \in Nat
  BY Monotone, PolicyAssumption
<1> QED
  BY <1>1

\* What is left after a reallocation for n, before the bound on it applies.
LEMMA Paid ==
    ASSUME Wide, ShrinkPercent <= 25, IInv, BoundedWaste, Sized, Provided,
           NEW n \in 1 .. SizeMax, Request(n), area' # area, NEW c \in Int,
           c = credit + 2 * Distance(asked, n) - Smaller(asked, n)
    PROVE  /\ c >= 0 /\ c >= 2 * n - area' - 2
           /\ \/ area' = SmallestAllocation
              \/ \A m \in 1 .. area' : 100 * m <= ShrinkPercent * area' => 4 * m - 2 * n - 2 <= 0
<1>1. /\ area \in Nat /\ area <= SizeMax /\ asked \in Nat /\ asked <= area
      /\ n \in Nat /\ n >= 1 /\ n <= SizeMax /\ credit \in Int /\ credit >= 0
      /\ credit >= 2 * asked - area - 2
      /\ SmallestAllocation \in Nat /\ SmallestAllocation >= 1
      /\ ShrinkPercent * area \in Nat
  BY SizeAssumption, PolicyAssumption DEF IInv, Suffices, Provided, PaysFor, Request
<1>2. /\ c >= credit + 2 * (asked - n) - n /\ c >= credit + 2 * (n - asked) - asked
  BY <1>1 DEF Distance, Smaller
<1>3. /\ ~ KeepsArea(area, n) /\ area' \in Nat /\ area' >= n
      /\ \/ n <= SmallestAllocation /\ area' = SmallestAllocation
         \/ n > SmallestAllocation /\ area < n /\ n < 2 * area /\ area' = 2 * area
         \/ n > SmallestAllocation /\ area' = n
  BY <1>1, AllocSizeSuffices, OtherSizes DEF Request
<1>4. CASE n > area
  <2>1. c >= 2 * n - asked - area - 2
    BY <1>1, <1>2
  <2>2. CASE n <= SmallestAllocation /\ area' = SmallestAllocation
    <3>1. area = 0 /\ asked = 0
      BY <1>1, <1>4, <2>2 DEF Sized
    <3> QED
      BY <1>1, <1>2, <2>2, <3>1
  <2>3. CASE n < 2 * area /\ area' = 2 * area
    <3>1. ASSUME NEW m \in 1 .. area', 100 * m <= ShrinkPercent * area' PROVE 4 * m - 2 * n - 2 <= 0
      <4>1. 4 * m <= area' /\ area' <= 2 * n
        BY <1>1, <1>3, <1>4, <2>3, <3>1, BelowThreshold
      <4> QED
        BY <1>1, <1>3, <4>1
    <3> QED
      BY <1>1, <1>4, <2>1, <2>3, <3>1
  <2>4. CASE ~ n < 2 * area /\ n > SmallestAllocation /\ area' = n
    <3>1. ASSUME NEW m \in 1 .. area', 100 * m <= ShrinkPercent * area' PROVE 4 * m - 2 * n - 2 <= 0
      <4>1. 4 * m <= area'
        BY <1>3, <3>1, BelowThreshold
      <4> QED
        BY <1>1, <2>4, <4>1
    <3> QED
      BY <1>1, <2>1, <2>4, <3>1
  <2> QED
    <3>1. AllocSize(area, n) = area'
      BY DEF Request
    <3>2. n < 2 * area /\ n > SmallestAllocation => area' = 2 * area
      BY <1>1, <1>3, <1>4, <3>1 DEF AllocSize
    <3> QED
      BY <1>1, <1>3, <2>2, <2>3, <2>4, <3>2
<1>5. CASE ~ n > area
  <2>1. n < area /\ 100 * n <= ShrinkPercent * area
    <3>1. area \in 0 .. 2 * SizeMax /\ n \in 0 .. SizeMax
      BY <1>1, SizeAssumption
    <3>2. ~ (n = area \/ (n < area /\ 100 * n > ShrinkPercent * area))
      BY <1>3, <3>1, Threshold
    <3> QED
      BY <1>1, <1>5, <3>2
  <2>2. area > SmallestAllocation
    BY <1>1, <1>3, <2>1 DEF Sized
  <2>3. credit >= 4 * n - 2 * asked - 2
    BY <1>1, <2>1, <2>2 DEF Provided, PaysFor
  <2>4. n < asked
    <3>1. 4 * n <= area
      BY <1>1, <2>1, BelowThreshold
    <3>2. ShrinkPercent * area < 100 * asked \/ area <= 2 * asked
      BY <1>1, <2>2 DEF BoundedWaste
    <3> QED
      BY <1>1, <2>1, <3>1, <3>2
  <2>5. c >= 0 /\ c >= n - 2
    BY <1>1, <1>2, <2>3, <2>4
  <2>6. CASE area' = SmallestAllocation
    BY <1>1, <1>3, <2>5, <2>6
  <2>7. CASE area' = n
    <3>1. ASSUME NEW m \in 1 .. area', 100 * m <= ShrinkPercent * area' PROVE 4 * m - 2 * n - 2 <= 0
      <4>1. 4 * m <= area'
        BY <1>3, <3>1, BelowThreshold
      <4> QED
        BY <1>1, <2>7, <4>1
    <3> QED
      BY <1>1, <2>5, <2>7, <3>1
  <2> QED
    BY <1>1, <1>3, <2>1, <2>6, <2>7
<1> QED
  BY <1>4, <1>5

\* The bound on the credit loses none that is needed.
LEMMA Capped ==
    ASSUME ShrinkPercent <= 25, MaxCredit >= 2 * SizeMax,
           NEW a \in Nat, NEW n \in 1 .. SizeMax, n <= a,
           a <= 2 * SizeMax \/ a = SmallestAllocation,
           NEW c, PaysFor(a, n, c)
    PROVE  PaysFor(a, n, Smaller(MaxCredit, c))
<1>1. /\ MaxCredit \in Nat /\ SizeMax \in Nat /\ n \in Nat /\ n <= SizeMax
      /\ c \in Int /\ c >= 0 /\ c >= 2 * n - a - 2
  BY SizeAssumption, WalkAssumption DEF PaysFor
<1>2. CASE Smaller(MaxCredit, c) = c
  BY <1>2
<1>3. CASE Smaller(MaxCredit, c) = MaxCredit
  <2>1. MaxCredit >= 2 * n - a - 2
    BY <1>1
  <2>2. ASSUME a > SmallestAllocation, NEW m \in 1 .. a, 100 * m <= ShrinkPercent * a
        PROVE  MaxCredit >= 4 * m - 2 * n - 2
    <3>1. 4 * m <= a /\ a <= 2 * SizeMax
      BY <2>2, BelowThreshold, PolicyAssumption
    <3> QED
      BY <1>1, <3>1
  <2> QED
    BY <1>1, <1>3, <2>1, <2>2 DEF PaysFor
<1> QED
  BY <1>2, <1>3 DEF Smaller

\* An area that is kept: the credit goes up with each step of the length.
LEMMA PaidOnKeeping ==
    ASSUME NEW a \in Nat, NEW n \in Nat, NEW m \in Nat, NEW c, PaysFor(a, n, c)
    PROVE  PaysFor(a, m, c + 2 * Distance(n, m))
<1> DEFINE d == Distance(n, m)
<1>1. d >= n - m /\ d >= m - n /\ d \in Nat
  BY DEF Distance
<1> HIDE DEF d
<1>2. c \in Int /\ c >= 0 /\ c >= 2 * n - a - 2
  BY DEF PaysFor
<1>3. c + 2 * d \in Int /\ c + 2 * d >= 0 /\ c + 2 * d >= 2 * m - a - 2
  BY <1>1, <1>2
<1>4. ASSUME a > SmallestAllocation, NEW k \in 1 .. a, 100 * k <= ShrinkPercent * a
      PROVE  c + 2 * d >= 4 * k - 2 * m - 2
  <2>1. c >= 4 * k - 2 * n - 2 /\ k \in Nat
    BY <1>4 DEF PaysFor
  <2> QED
    BY <1>1, <1>2, <2>1
<1>5. PaysFor(a, m, c + 2 * d)
  BY <1>3, <1>4 DEF PaysFor
<1> QED
  BY <1>5 DEF d

\* Growing by doubling and shrinking below a quarter keep the cost of reallocations
\* proportional to how far the length of the content moves.  The bound on the
\* credit loses none that is needed when it is twice SSM_SIZE_MAX.
THEOREM CopiesStayPaid ==
    ASSUME Wide, ShrinkPercent <= 25, MaxCredit >= 2 * SizeMax
    PROVE  Spec => []CopiesArePaid
<1> DEFINE J == Sized /\ Provided
<1>1. Init => J
  BY PolicyAssumption DEF Init, Sized, Provided, PaysFor
<1>2. IInv /\ BoundedWaste /\ J /\ [Next]_vars => J'
  <2> SUFFICES ASSUME IInv, BoundedWaste, J, [Next]_vars PROVE J'
    OBVIOUS
  <2>1. CASE UNCHANGED vars
    BY <2>1 DEF Sized, Provided, PaysFor, vars
  <2>2. ASSUME NEW n \in 1 .. SizeMax, Request(n) PROVE J'
    <3> DEFINE c == credit + 2 * Distance(asked, n) - CopiedFor(n)
    <3>1. /\ area \in Nat /\ area <= SizeMax /\ asked \in Nat /\ asked <= area
          /\ n \in Nat /\ n >= 1 /\ n <= SizeMax /\ SizeMax \in Nat
          /\ asked' = n /\ credit' = Smaller(MaxCredit, c) /\ credit \in Int
      BY <2>2, SizeAssumption DEF Request, IInv, Suffices, Provided, PaysFor
    <3>2. PICK b \in Nat : b = area' /\ b = AllocSize(area, n) /\ b >= n
      BY <2>2, <3>1, AllocSizeSuffices DEF Request
    <3>3. /\ b = area \/ b = SmallestAllocation \/ b = 2 * area \/ b = n
          /\ b <= 2 * SizeMax \/ b = SmallestAllocation
      BY <3>1, <3>2, OtherSizes
    <3>4. b >= SmallestAllocation
      <4>1. CASE b = area
        BY <3>1, <3>2, <4>1, PolicyAssumption DEF Sized
      <4>2. CASE b # area
        BY <3>1, <3>2, <4>2, OtherSizes, PolicyAssumption DEF Sized
      <4> QED
        BY <4>1, <4>2
    <3>5. PaysFor(b, n, c)
      <4>1. CASE b = area
        <5>1. c = credit + 2 * Distance(asked, n)
          BY <3>1, <3>2, <4>1 DEF CopiedFor, Distance
        <5> QED
          BY <3>1, <4>1, <5>1, PaidOnKeeping DEF Provided
      <4>2. CASE b # area
        <5>1. c = credit + 2 * Distance(asked, n) - Smaller(asked, n) /\ c \in Int
          BY <3>1, <3>2, <4>2 DEF CopiedFor, Distance, Smaller
        <5> HIDE DEF c
        <5>2. /\ c >= 0 /\ c >= 2 * n - b - 2
              /\ \/ b = SmallestAllocation
                 \/ \A m \in 1 .. b :
                       100 * m <= ShrinkPercent * b => 4 * m - 2 * n - 2 <= 0
          BY <2>2, <3>2, <4>2, <5>1, Paid
        <5>3. ASSUME b > SmallestAllocation, NEW m \in 1 .. b, 100 * m <= ShrinkPercent * b
              PROVE  c >= 4 * m - 2 * n - 2
          <6>1. 4 * m - 2 * n - 2 <= 0 /\ m \in Nat
            BY <5>2, <5>3, PolicyAssumption
          <6> QED
            BY <3>1, <5>1, <5>2, <6>1
        <5> QED
          BY <5>1, <5>2, <5>3 DEF PaysFor
      <4> QED
        BY <4>1, <4>2
    <3>6. PaysFor(b, n, credit')
      <4> HIDE DEF c
      <4> QED
        BY <3>1, <3>2, <3>3, <3>5, Capped
    <3> QED
      BY <3>1, <3>2, <3>4, <3>6 DEF Sized, Provided
  <2> QED
    BY <2>1, <2>2 DEF Next
<1>3. J => CopiesArePaid
  BY DEF Provided, PaysFor, CopiesArePaid
<1> QED
  BY <1>1, <1>2, <1>3, Inductive, WasteIsBounded, PTL DEF Spec

=============================================================================
