---------------------------- MODULE MemoryProofs ----------------------------
(***************************************************************************)
(* What ssm_copy() and ssm_set() do to an area they stay inside: the       *)
(* lemmas about Move, Fill and the status values that the proofs about the *)
(* buffers share.                                                          *)
(***************************************************************************)
EXTENDS SSMCommon, TLAPS

\* The bytes at from .. from+n-1 can be read
Readable(src, from, n) ==
    \A i \in from .. from + n - 1 : i \in DOMAIN src /\ src[i] \in Cell

\* new has the cells of old, except at at .. at+n-1
SameOutside(m, new, old, at, n) ==
    \A i \in 0 .. m : i \notin at .. at + n - 1 => new[i] = old[i]

\* new has the n cells of src from position from on at position at
HasCopy(new, at, src, from, n) ==
    \A i \in at .. at + n - 1 : new[i] = src[from + (i - at)]

\* new has v at at .. at+n-1
Filled(new, at, n, v) == \A i \in at .. at + n - 1 : new[i] = v

-----------------------------------------------------------------------------
\* A copy that starts and ends in an area neither enlarges it nor touches the
\* cells it does not aim at.
LEMMA MoveInside ==
    ASSUME NEW m \in Nat, NEW mem \in [0 .. m -> Cell],
           NEW at \in Nat, NEW n \in Nat, at + n <= m + 1,
           NEW src, NEW from \in Nat, Readable(src, from, n)
    PROVE  /\ Move(mem, at, src, from, n) \in [0 .. m -> Cell]
           /\ SameOutside(m, Move(mem, at, src, from, n), mem, at, n)
           /\ HasCopy(Move(mem, at, src, from, n), at, src, from, n)
<1> DEFINE new == Move(mem, at, src, from, n)
<1>1. DOMAIN mem \cup (at .. at + n - 1) = 0 .. m
  OBVIOUS
<1>2. new = [i \in 0 .. m |->
                IF i \in at .. at + n - 1 THEN Load(src, from + (i - at)) ELSE mem[i]]
  BY <1>1 DEF Move
<1>3. \A i \in at .. at + n - 1 :
         Load(src, from + (i - at)) = src[from + (i - at)] /\ src[from + (i - at)] \in Cell
  <2> SUFFICES ASSUME NEW i \in at .. at + n - 1
               PROVE  /\ Load(src, from + (i - at)) = src[from + (i - at)]
                      /\ src[from + (i - at)] \in Cell
    OBVIOUS
  <2>1. from + (i - at) \in from .. from + n - 1
    OBVIOUS
  <2> QED
    BY <2>1 DEF Readable, Load
<1>4. \A i \in at .. at + n - 1 : i \in 0 .. m
  OBVIOUS
<1> HIDE DEF new
<1>5. \A i \in 0 .. m : new[i] \in Cell
  BY <1>2, <1>3
<1> QED
  BY <1>2, <1>3, <1>4, <1>5 DEF new, SameOutside, HasCopy

\* So does an assignment of the same byte to consecutive cells.
LEMMA FillInside ==
    ASSUME NEW m \in Nat, NEW mem \in [0 .. m -> Cell],
           NEW at \in Nat, NEW n \in Nat, at + n <= m + 1, NEW v \in Cell
    PROVE  /\ Fill(mem, at, n, v) \in [0 .. m -> Cell]
           /\ SameOutside(m, Fill(mem, at, n, v), mem, at, n)
           /\ Filled(Fill(mem, at, n, v), at, n, v)
<1>1. DOMAIN mem \cup (at .. at + n - 1) = 0 .. m
  OBVIOUS
<1> QED
  BY <1>1 DEF Fill, SameOutside, Filled

\* A copy of n bytes into an area with room for them, or for fewer, reports a
\* success and at most that many copied.
LEMMA CopiesWithinRoom ==
    ASSUME NEW room \in Nat, NEW n \in Nat, room <= SizeMax, n <= SizeMax, NEW old
    PROVE  /\ CopyStatus(room, n) \in Successes
           /\ CopiedSize(room, n, old) \in 0 .. room
           /\ CopiedSize(room, n, old) <= n
  BY SizeAssumption DEF CopyStatus, CopiedSize, Successes

\* The classes of the status values are disjoint.
LEMMA StatusKinds ==
    /\ Successes \subseteq Statuses
    /\ NonFatalErrors \subseteq Statuses /\ FatalErrors \subseteq Statuses
    /\ {"SSM_CORRUPTED", "SSM_SIZETOOLARGE", "SSM_INDEXRANGE", "SSM_NULLOUT",
        "SSM_NOMEMORY"} \subseteq Statuses \ Successes
    /\ {"SSM_OK", "SSM_TRUNCATED"} \subseteq Successes
  BY DEF Statuses, Successes, NonFatalErrors, FatalErrors

=============================================================================
