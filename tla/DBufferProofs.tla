--------------------------- MODULE DBufferProofs ---------------------------
(***************************************************************************)
(* What DBuffer promises of dynamic buffers and strings, for every set of  *)
(* buffers and of addresses, every size of a canary, every allocation       *)
(* policy, every text and every argument.                                  *)
(*                                                                         *)
(* The argument: the inductive invariant says who owns which area, that an *)
(* area has the size its structure says, and that a buffer nobody has       *)
(* overrun is sound while an overrun one fails the check.  A call that      *)
(* finds its buffer in order replaces the structure and at most one area,   *)
(* and leaves a sound pair (Sound), every intermediate one being guarded   *)
(* (Shielded); any other call changes nothing.                             *)
(*                                                                         *)
(* The invariant needs no bound on what the application asks for.  What     *)
(* does need one (SmallRequests) follows from a second invariant, Bounded. *)
(***************************************************************************)
EXTENDS DBuffer, MemoryProofs

\* An area of the size its structure says, both canaries in place
Shielded(h, mem) ==
    /\ h \in Structure
    /\ mem \in [0 .. h.maxSize - 1 -> Cell]
    /\ h.curSize < h.maxSize - 2 * CanarySize
    /\ Holds(mem, 0, CanarySize, LEAD)
    /\ Holds(mem, h.maxSize - CanarySize, CanarySize, TRAIL)

\* One with the terminator as well
Sound(h, mem) == Shielded(h, mem) /\ Load(mem, CanarySize + h.curSize) = NUL

\* new has the canaries of old
SameCanaries(h, new, old) ==
    /\ \A i \in 0 .. CanarySize - 1 : new[i] = old[i]
    /\ \A i \in h.maxSize - CanarySize .. h.maxSize - 1 : new[i] = old[i]

-----------------------------------------------------------------------------
(* One structure and its area.                                             *)

LEMMA ShieldedLayout ==
    ASSUME NEW h, NEW mem, Shielded(h, mem)
    PROVE  /\ h.maxSize \in Nat /\ h.curSize \in Nat /\ CanarySize \in Nat
           /\ mem \in [0 .. h.maxSize - 1 -> Cell]
           /\ Room(h, 0) \in Nat /\ h.curSize <= Room(h, 0)
           /\ h.maxSize = Room(h, 0) + 2 * CanarySize + 1
           /\ \A at \in 0 .. Room(h, 0) :
                 Room(h, at) \in Nat /\ Room(h, at) = Room(h, 0) - at
<1>1. /\ h.maxSize \in Nat /\ h.curSize \in Nat /\ CanarySize \in Nat
      /\ mem \in [0 .. h.maxSize - 1 -> Cell] /\ h.curSize < h.maxSize - 2 * CanarySize
  BY SizeAssumption DEF Shielded, Structure
<1>2. Room(h, 0) = h.maxSize - 2 * CanarySize - 1
  BY <1>1 DEF Room
<1>3. ASSUME NEW at \in 0 .. Room(h, 0)
      PROVE  Room(h, at) \in Nat /\ Room(h, at) = Room(h, 0) - at
  BY <1>1 DEF Room
<1>4. Room(h, 0) \in Nat /\ h.curSize <= Room(h, 0) /\ h.maxSize = Room(h, 0) + 2 * CanarySize + 1
  BY <1>1, <1>2
<1> QED
  BY <1>1, <1>3, <1>4

\* Shields only depend on the cells of the canaries.
LEMMA NewAreaShields ==
    ASSUME NEW h, NEW mem, Shielded(h, mem),
           NEW new \in [0 .. h.maxSize - 1 -> Cell], SameCanaries(h, new, mem)
    PROVE  Shielded(h, new)
<1>1. /\ h.maxSize \in Nat /\ CanarySize \in Nat /\ h.maxSize > 2 * CanarySize
      /\ mem \in [0 .. h.maxSize - 1 -> Cell]
  BY ShieldedLayout
<1>2. ASSUME NEW i \in 0 .. 0 + CanarySize - 1 PROVE Load(new, i) = LEAD
  <2>1. i \in 0 .. CanarySize - 1 /\ i \in 0 .. h.maxSize - 1
    BY <1>1
  <2>2. Load(mem, i) = LEAD
    BY DEF Shielded, Holds
  <2> QED
    BY <1>1, <2>1, <2>2 DEF SameCanaries, Load
<1>3. ASSUME NEW i \in h.maxSize - CanarySize .. h.maxSize - CanarySize + CanarySize - 1
      PROVE  Load(new, i) = TRAIL
  <2>1. i \in h.maxSize - CanarySize .. h.maxSize - 1 /\ i \in 0 .. h.maxSize - 1
    BY <1>1
  <2>2. Load(mem, i) = TRAIL
    BY DEF Shielded, Holds
  <2> QED
    BY <1>1, <2>1, <2>2 DEF SameCanaries, Load
<1> QED
  BY <1>2, <1>3 DEF Shielded, Holds

\* A store between the canaries spoils neither of them.
LEMMA InnerStoreShields ==
    ASSUME NEW h, NEW mem, Shielded(h, mem), NEW at \in Nat, NEW k \in Nat,
           at + k <= Room(h, 0) + 1,
           NEW new \in [0 .. h.maxSize - 1 -> Cell],
           SameOutside(h.maxSize - 1, new, mem, CanarySize + at, k)
    PROVE  Shielded(h, new)
<1>1. /\ h.maxSize \in Nat /\ CanarySize \in Nat
      /\ h.maxSize = Room(h, 0) + 2 * CanarySize + 1 /\ Room(h, 0) \in Nat
  BY ShieldedLayout
<1>2. ASSUME NEW i \in (0 .. CanarySize - 1) \cup (h.maxSize - CanarySize .. h.maxSize - 1)
      PROVE  new[i] = mem[i]
  <2>1. i \in 0 .. h.maxSize - 1 /\ i \notin CanarySize + at .. CanarySize + at + k - 1
    BY <1>1
  <2> QED
    BY <2>1 DEF SameOutside
<1> QED
  BY <1>2, NewAreaShields DEF SameCanaries

\* ssm_copy() into the content.
LEMMA MoveShields ==
    ASSUME NEW h, NEW mem, Shielded(h, mem), NEW at \in Nat, NEW k \in Nat,
           at + k <= Room(h, 0) + 1,
           NEW src, NEW from \in Nat, Readable(src, from, k)
    PROVE  /\ Shielded(h, Move(mem, CanarySize + at, src, from, k))
           /\ SameOutside(h.maxSize - 1, Move(mem, CanarySize + at, src, from, k),
                          mem, CanarySize + at, k)
           /\ HasCopy(Move(mem, CanarySize + at, src, from, k), CanarySize + at, src, from, k)
<1> DEFINE m  == h.maxSize - 1
           to == CanarySize + at
<1>0. /\ h.maxSize \in Nat /\ CanarySize \in Nat /\ Room(h, 0) \in Nat
      /\ h.maxSize = Room(h, 0) + 2 * CanarySize + 1
      /\ mem \in [0 .. h.maxSize - 1 -> Cell]
  BY ShieldedLayout
<1>1. /\ m \in Nat /\ to \in Nat /\ to + k <= m + 1
      /\ mem \in [0 .. m -> Cell]
  BY <1>0
<1> HIDE DEF m, to
<1>2. /\ Move(mem, to, src, from, k) \in [0 .. m -> Cell]
      /\ SameOutside(m, Move(mem, to, src, from, k), mem, to, k)
      /\ HasCopy(Move(mem, to, src, from, k), to, src, from, k)
  BY <1>1, MoveInside
<1> QED
  BY <1>2, InnerStoreShields DEF m, to

\* ssm_set() in the content, and the store of a terminator.
LEMMA FillShields ==
    ASSUME NEW h, NEW mem, Shielded(h, mem), NEW at \in Nat, NEW k \in Nat,
           at + k <= Room(h, 0) + 1, NEW v \in Cell
    PROVE  /\ Shielded(h, Fill(mem, CanarySize + at, k, v))
           /\ SameOutside(h.maxSize - 1, Fill(mem, CanarySize + at, k, v),
                          mem, CanarySize + at, k)
           /\ Filled(Fill(mem, CanarySize + at, k, v), CanarySize + at, k, v)
<1> DEFINE m  == h.maxSize - 1
           to == CanarySize + at
<1>0. /\ h.maxSize \in Nat /\ CanarySize \in Nat /\ Room(h, 0) \in Nat
      /\ h.maxSize = Room(h, 0) + 2 * CanarySize + 1
      /\ mem \in [0 .. h.maxSize - 1 -> Cell]
  BY ShieldedLayout
<1>1. /\ m \in Nat /\ to \in Nat /\ to + k <= m + 1
      /\ mem \in [0 .. m -> Cell]
  BY <1>0
<1> HIDE DEF m, to
<1>2. /\ Fill(mem, to, k, v) \in [0 .. m -> Cell]
      /\ SameOutside(m, Fill(mem, to, k, v), mem, to, k)
      /\ Filled(Fill(mem, to, k, v), to, k, v)
  BY <1>1, FillInside
<1> QED
  BY <1>2, InnerStoreShields DEF m, to

\* A new length within the room, with its terminator, makes a sound pair.
LEMMA TerminatorSound ==
    ASSUME NEW h, NEW mem, Shielded(h, mem), NEW n \in 0 .. Room(h, 0)
    PROVE  Sound([h EXCEPT !.curSize = n], Fill(mem, CanarySize + n, 1, NUL))
<1> DEFINE new == Fill(mem, CanarySize + n, 1, NUL)
           g   == [h EXCEPT !.curSize = n]
<1>1. /\ Room(h, 0) \in Nat /\ CanarySize \in Nat /\ h.maxSize \in Nat
      /\ h.maxSize = Room(h, 0) + 2 * CanarySize + 1
  BY ShieldedLayout
<1>2. n \in Nat /\ n + 1 <= Room(h, 0) + 1 /\ 1 \in Nat /\ NUL \in Cell
  BY <1>1 DEF NUL, Cell
<1>3. Shielded(h, new) /\ Filled(new, CanarySize + n, 1, NUL)
  BY <1>2, FillShields
<1>4. CanarySize + n \in CanarySize + n .. CanarySize + n + 1 - 1 /\ CanarySize + n \in 0 .. h.maxSize - 1
  BY <1>1, <1>2
<1>5. /\ g \in Structure /\ g.curSize = n /\ g.maxSize = h.maxSize
  BY <1>2 DEF Shielded, Structure
<1> HIDE DEF new, g
<1>6. Shielded(g, new)
  BY <1>1, <1>3, <1>5 DEF Shielded
<1>7. Load(new, CanarySize + n) = NUL
  BY <1>3, <1>4 DEF Load, Shielded, Filled
<1> QED
  BY <1>5, <1>6, <1>7 DEF Sound, new, g

\* ssm_set() within the content leaves a sound pair sound.
LEMMA FillSound ==
    ASSUME NEW h, NEW mem, Sound(h, mem), NEW at \in Nat, NEW k \in Nat,
           at + k <= h.curSize, NEW v \in Cell
    PROVE  Sound(h, Fill(mem, CanarySize + at, k, v))
<1> DEFINE new == Fill(mem, CanarySize + at, k, v)
<1>1. Shielded(h, mem)
  BY DEF Sound
<1>2. /\ h.maxSize \in Nat /\ h.curSize \in Nat /\ CanarySize \in Nat
      /\ Room(h, 0) \in Nat /\ h.curSize <= Room(h, 0)
      /\ h.maxSize = Room(h, 0) + 2 * CanarySize + 1
      /\ mem \in [0 .. h.maxSize - 1 -> Cell]
  BY <1>1, ShieldedLayout
<1>3. Shielded(h, new) /\ SameOutside(h.maxSize - 1, new, mem, CanarySize + at, k)
  <2>1. at + k <= Room(h, 0) + 1
    BY <1>2
  <2> QED
    BY <1>1, <2>1, FillShields
<1>4. /\ CanarySize + h.curSize \in 0 .. h.maxSize - 1
      /\ CanarySize + h.curSize \notin CanarySize + at .. CanarySize + at + k - 1
  BY <1>2
<1> HIDE DEF new
<1>5. new[CanarySize + h.curSize] = mem[CanarySize + h.curSize]
  BY <1>3, <1>4 DEF SameOutside
<1> QED
  BY <1>2, <1>3, <1>4, <1>5 DEF Sound, Shielded, Load, new

\* The content of a shielded pair can be read.
LEMMA ContentReadable ==
    ASSUME NEW h, NEW mem, NEW at \in Nat, NEW k \in Nat,
           h.curSize \in Nat, h.maxSize \in Nat,
           mem \in [0 .. h.maxSize - 1 -> Cell],
           h.curSize < h.maxSize - 2 * CanarySize, at + k <= h.curSize
    PROVE  Readable(mem, CanarySize + at, k)
<1>1. \A i \in CanarySize + at .. CanarySize + at + k - 1 : i \in 0 .. h.maxSize - 1
  BY SizeAssumption
<1> QED
  BY <1>1 DEF Readable

-----------------------------------------------------------------------------
(* The invariants.                                                         *)

IInv == TypeOK /\ Ownership /\ InBounds /\ IntactUnlessDamaged /\ DamageStaysVisible

\* With requests as small as SmallRequests wants them, sizes stay in range
Small(h) == h.curSize <= MaxLength /\ h.maxSize <= SizeMax
Bounded == \A b \in Bufs : Small(buf[b])

\* The check of a buffer, of its structure and its area
InOrder(h, mem) ==
    /\ CanarySize > 0 => h.canary1 = LEAD /\ h.canary2 = TRAIL
    /\ IF h.data = NULL THEN h.maxSize = 0 /\ h.curSize = 0
       ELSE h.maxSize <= SizeMax /\ AreaIntact(h, mem)

\* A structure and an area nobody has overrun
Whole(h, mem) ==
    /\ h.canary1 = LEAD /\ h.canary2 = TRAIL
    /\ IF h.data = NULL THEN h.maxSize = 0 /\ h.curSize = 0 ELSE AreaIntact(h, mem)

LEMMA CheckIsInOrder ==
    ASSUME NEW b
    PROVE  /\ Check(b) <=> InOrder(buf[b], heap[buf[b].data])
           /\ Check(b)' <=> InOrder(buf'[b], heap'[buf'[b].data])
           /\ Intact(b) <=> Whole(buf[b], heap[buf[b].data])
           /\ Intact(b)' <=> Whole(buf'[b], heap'[buf'[b].data])
<1>1. \A h, mem : AreaIntact(h, mem) <=> AreaIntact(h, mem)'
  OBVIOUS
<1> QED
  BY DEF Check, Intact, InOrder, Whole, AreaIntact, Load, Holds

\* What a call knows of a buffer that passed the check.
LEMMA Ready ==
    ASSUME IInv, NEW b \in Bufs, Check(b)
    PROVE  /\ b \notin damaged /\ buf[b] \in Structure
           /\ buf[b].canary1 = LEAD /\ buf[b].canary2 = TRAIL
           /\ buf[b].data = NULL => buf[b].maxSize = 0 /\ buf[b].curSize = 0
           /\ buf[b].data # NULL =>
                 /\ buf[b].data \in DOMAIN heap /\ buf[b].data \in Areas
                 /\ buf[b].maxSize <= SizeMax
                 /\ Sound(buf[b], heap[buf[b].data])
<1>1. b \notin damaged /\ buf[b] \in Structure
  BY DEF IInv, TypeOK, DamageStaysVisible
<1>2. Intact(b)
  BY <1>1 DEF IInv, IntactUnlessDamaged
<1>3. ASSUME buf[b].data # NULL
      PROVE  /\ buf[b].data \in DOMAIN heap /\ buf[b].data \in Areas
             /\ buf[b].maxSize <= SizeMax
             /\ Sound(buf[b], heap[buf[b].data])
  <2>1. buf[b].data \in DOMAIN heap /\ buf[b].data \in Areas
    BY <1>3 DEF IInv, Ownership, TypeOK
  <2>2. buf[b].maxSize <= SizeMax /\ AreaIntact(buf[b], heap[buf[b].data])
    BY <1>3 DEF Check
  <2>3. heap[buf[b].data] \in [0 .. buf[b].maxSize - 1 -> Cell]
    BY <1>3 DEF IInv, InBounds
  <2> QED
    BY <1>1, <2>1, <2>2, <2>3 DEF Sound, Shielded, AreaIntact
<1> QED
  BY <1>1, <1>2, <1>3 DEF Intact

\* Two buffers never share an area.
LEMMA OtherAreas ==
    ASSUME IInv, NEW b \in Bufs, NEW c \in Bufs, b # c, buf[c].data # NULL
    PROVE  /\ buf[c].data \in DOMAIN heap /\ buf[c].data \in Areas
           /\ buf[c].data # buf[b].data
           /\ heap[buf[c].data] \in [0 .. buf[c].maxSize - 1 -> Cell]
           /\ buf[c].curSize < buf[c].maxSize - 2 * CanarySize
  BY DEF IInv, Ownership, TypeOK, InBounds

-----------------------------------------------------------------------------
(* _ssm_dbuffer_alloc().                                                   *)

\* The size allocated holds what is asked for, and small requests do not take
\* it above SSM_SIZE_MAX: neither the smallest allocation nor the doubling does.
LEMMA AllocSizeBounds ==
    ASSUME NEW old \in Nat, NEW new \in Nat
    PROVE  /\ AllocSize(old, new) \in Nat /\ AllocSize(old, new) >= new
           /\ SmallRequests /\ old <= SizeMax /\ new <= MaxLength + 1 + 2 * CanarySize
                 => AllocSize(old, new) <= SizeMax
<1>1. AllocSize(old, new) \in Nat /\ AllocSize(old, new) >= new
  BY PolicyAssumption DEF AllocSize, KeepsArea
<1>2. ASSUME SmallRequests, old <= SizeMax, new <= MaxLength + 1 + 2 * CanarySize
      PROVE  AllocSize(old, new) <= SizeMax
  <2>1. MaxLength \in Nat /\ SizeMax \in Nat /\ CanarySize \in Nat
    BY DBufferAssumption, SizeAssumption
  <2>2. new > old => 2 * old <= SizeMax
    BY <1>2, <2>1 DEF SmallRequests
  <2> QED
    BY <1>2, <2>1, <2>2, PolicyAssumption DEF SmallRequests, AllocSize
<1> QED
  BY <1>1, <1>2

\* A new area is sound whatever it keeps of the old content.
LEMMA NewAreaSound ==
    ASSUME NEW h, NEW size \in Nat, NEW kept \in BOOLEAN, NEW cur \in Nat,
           cur < size - 2 * CanarySize,
           kept => Readable(heap[h.data], CanarySize,
                            CopiedSize(size - 2 * CanarySize - 1, h.curSize, 0)),
           kept => h.curSize \in Nat,
           NEW g \in Structure, g.maxSize = size, g.curSize = cur
    PROVE  Sound(g, NewArea(h, size, kept, cur))
<1> DEFINE m     == size - 1
           room  == size - 2 * CanarySize - 1
           k     == CopiedSize(room, h.curSize, 0)
           fresh == [i \in 0 .. size - 1 |-> Undef]
           moved == IF kept THEN Move(fresh, CanarySize, heap[h.data], CanarySize, k)
                    ELSE fresh
           ended == Fill(moved, CanarySize + cur, 1, NUL)
           led   == Fill(ended, 0, CanarySize, LEAD)
           new   == Fill(led, size - CanarySize, CanarySize, TRAIL)
<1>1. /\ CanarySize \in Nat /\ m \in Nat /\ room \in Nat /\ m + 1 = size
      /\ cur \in 0 .. room
  BY SizeAssumption
<1>2. {Undef, NUL, LEAD, TRAIL} \subseteq Cell
  BY DEF Undef, NUL, LEAD, TRAIL, Cell
<1>3. moved \in [0 .. m -> Cell]
  <2>1. fresh \in [0 .. m -> Cell]
    BY <1>2
  <2>2. kept => k \in Nat /\ CanarySize + k <= m + 1
    BY <1>1, SizeAssumption DEF CopiedSize
  <2> HIDE DEF fresh, k, m
  <2>3. kept => Move(fresh, CanarySize, heap[h.data], CanarySize, k) \in [0 .. m -> Cell]
    <3> SUFFICES ASSUME kept
                 PROVE  Move(fresh, CanarySize, heap[h.data], CanarySize, k) \in [0 .. m -> Cell]
      OBVIOUS
    <3>1. Readable(heap[h.data], CanarySize, k)
      BY DEF k
    <3> QED
      BY <1>1, <2>1, <2>2, <3>1, MoveInside
  <2> QED
    BY <2>1, <2>3
<1> HIDE DEF moved
<1>4. ended \in [0 .. m -> Cell] /\ ended[CanarySize + cur] = NUL
  <2> DEFINE at == CanarySize + cur
  <2>1. at \in Nat /\ at + 1 <= m + 1 /\ at \in at .. at + 1 - 1 /\ NUL \in Cell /\ 1 \in Nat
    BY <1>1, <1>2
  <2> HIDE DEF at, m
  <2>2. Fill(moved, at, 1, NUL) \in [0 .. m -> Cell] /\ Filled(Fill(moved, at, 1, NUL), at, 1, NUL)
    BY <1>1, <1>3, <2>1, FillInside
  <2> QED
    BY <2>1, <2>2 DEF at, Filled
<1> HIDE DEF ended
<1>5. /\ led \in [0 .. m -> Cell] /\ led[CanarySize + cur] = NUL
      /\ \A i \in 0 .. CanarySize - 1 : led[i] = LEAD
  <2>1. 0 + CanarySize <= m + 1 /\ 0 \in Nat /\ LEAD \in Cell
    BY <1>1, <1>2
  <2>2. /\ CanarySize + cur \in 0 .. m
        /\ CanarySize + cur \notin 0 .. 0 + CanarySize - 1
    BY <1>1
  <2> HIDE DEF m
  <2>3. /\ led \in [0 .. m -> Cell] /\ SameOutside(m, led, ended, 0, CanarySize)
        /\ Filled(led, 0, CanarySize, LEAD)
    BY <1>1, <1>4, <2>1, FillInside
  <2> QED
    BY <1>1, <1>4, <2>2, <2>3 DEF SameOutside, Filled
<1> HIDE DEF led
<1>6. /\ new \in [0 .. m -> Cell] /\ new[CanarySize + cur] = NUL
      /\ \A i \in 0 .. CanarySize - 1 : new[i] = LEAD
      /\ \A i \in size - CanarySize .. size - 1 : new[i] = TRAIL
  <2> DEFINE at == size - CanarySize
  <2>1. at \in Nat /\ at + CanarySize <= m + 1 /\ TRAIL \in Cell
    BY <1>1, <1>2
  <2>2. \A i \in 0 .. CanarySize - 1 : i \in 0 .. m /\ i \notin at .. at + CanarySize - 1
    BY <1>1
  <2>3. CanarySize + cur \in 0 .. m /\ CanarySize + cur \notin at .. at + CanarySize - 1
    BY <1>1
  <2>4. \A i \in size - CanarySize .. size - 1 : i \in at .. at + CanarySize - 1
    BY <1>1
  <2>5. new = Fill(led, at, CanarySize, TRAIL)
    OBVIOUS
  <2> HIDE DEF at, m, new
  <2>6. /\ new \in [0 .. m -> Cell] /\ SameOutside(m, new, led, at, CanarySize)
        /\ Filled(new, at, CanarySize, TRAIL)
    BY <1>1, <1>5, <2>1, <2>5, FillInside
  <2> QED
    BY <1>5, <2>2, <2>3, <2>4, <2>6 DEF SameOutside, Filled
<1>7. NewArea(h, size, kept, cur) = new
  BY DEF NewArea, new, led, ended, moved
<1> HIDE DEF new
<1>8. new \in [0 .. g.maxSize - 1 -> Cell] /\ g.curSize < g.maxSize - 2 * CanarySize
  BY <1>6
<1>9. Holds(new, 0, CanarySize, LEAD)
  <2>1. \A i \in 0 .. 0 + CanarySize - 1 : i \in 0 .. CanarySize - 1 /\ i \in 0 .. m
    BY <1>1
  <2> QED
    BY <1>6, <2>1 DEF Holds, Load
<1>10. Holds(new, g.maxSize - CanarySize, CanarySize, TRAIL)
  <2>1. \A i \in g.maxSize - CanarySize .. g.maxSize - CanarySize + CanarySize - 1 :
           i \in size - CanarySize .. size - 1 /\ i \in 0 .. m
    BY <1>1
  <2> QED
    BY <1>6, <2>1 DEF Holds, Load
<1>11. Load(new, CanarySize + g.curSize) = NUL
  <2>1. CanarySize + cur \in 0 .. m
    BY <1>1
  <2> QED
    BY <1>6, <2>1 DEF Load
<1> QED
  BY <1>7, <1>8, <1>9, <1>10, <1>11 DEF Sound, Shielded

-----------------------------------------------------------------------------
(* A call in progress.                                                     *)

\* A call on b works on a guarded area, its own or a new one that replaces it,
\* and has left every other area alone
Held(b, r) ==
    /\ DOMAIN r = {"status", "hdr", "heap"}
    /\ r.hdr.canary1 = LEAD /\ r.hdr.canary2 = TRAIL
    /\ r.hdr.data \in Areas
    /\ r.hdr.data = buf[b].data \/ r.hdr.data \notin DOMAIN heap
    /\ DOMAIN r.heap = (DOMAIN heap \ {buf[b].data}) \cup {r.hdr.data}
    /\ \A a \in DOMAIN r.heap \ {r.hdr.data} : r.heap[a] = heap[a]
    /\ Shielded(r.hdr, r.heap[r.hdr.data])

Complete(b, r) == Held(b, r) /\ Sound(r.hdr, r.heap[r.hdr.data])

\* The allocation refused: nothing has changed
Refused(b, r) ==
    /\ \/ r = Untouched(b, "SSM_CORRUPTED")
       \/ r = Untouched(b, "SSM_SIZETOOLARGE")
       \/ r = Untouched(b, "SSM_NOMEMORY")
    /\ ~ Check(b) => r # Untouched(b, "SSM_NOMEMORY")

\* It gave an area with room for n bytes of content
Granted(b, n, keep, r) ==
    /\ Check(b) /\ n <= SizeMax /\ Complete(b, r) /\ n <= Room(r.hdr, 0)
    /\ r.status \in {"SSM_OK", "SSM_TRUNCATED", "SSM_SIZETOOLARGE"}
    /\ r.hdr.curSize <= buf[b].curSize
    /\ r.status = "SSM_OK" /\ keep => r.hdr.curSize = buf[b].curSize
    /\ SmallRequests /\ Bounded /\ Requested(n)
          => Small(r.hdr) /\ r.status # "SSM_SIZETOOLARGE"

\* What copying into an area may leave of the length.
LEMMA CopiedSizes ==
    ASSUME NEW room \in Nat, NEW n \in Nat, NEW old \in Nat
    PROVE  /\ CopiedSize(room, n, 0) \in 0 .. room /\ CopiedSize(room, n, 0) <= n
           /\ CopiedSize(room, n, 0) \in Nat
           /\ old <= room => CopiedSize(room, n, old) \in 0 .. room
           /\ room <= SizeMax => CopiedSize(room, n, old) <= n \/ CopiedSize(room, n, old) = old
           /\ CopyStatus(room, n) \in {"SSM_OK", "SSM_TRUNCATED", "SSM_SIZETOOLARGE"}
           /\ room <= SizeMax /\ n <= SizeMax => CopyStatus(room, n) # "SSM_SIZETOOLARGE"
           /\ CopyStatus(room, n) = "SSM_OK" => CopiedSize(room, n, old) = n
           /\ CopyStatus(room, n) = "SSM_SIZETOOLARGE" => CopiedSize(room, n, 0) = 0
  BY SizeAssumption DEF CopiedSize, CopyStatus

\* A buffer whose area is kept.
LEMMA UntouchedComplete ==
    ASSUME IInv, NEW b \in Bufs, Check(b), buf[b].data # NULL, NEW st
    PROVE  Complete(b, Untouched(b, st))
<1>1. /\ buf[b].data \in DOMAIN heap /\ buf[b].data \in Areas
      /\ buf[b].canary1 = LEAD /\ buf[b].canary2 = TRAIL
      /\ Sound(buf[b], heap[buf[b].data])
  BY Ready
<1> QED
  BY <1>1 DEF Complete, Held, Untouched, Sound

\* A buffer whose area is replaced.
LEMMA ReallocatedComplete ==
    ASSUME IInv, NEW b \in Bufs, Check(b), NEW size \in Nat, NEW keep \in BOOLEAN,
           size > 2 * CanarySize, NEW a \in Areas, a \notin DOMAIN heap
    PROVE  /\ Complete(b, Reallocated(b, size, keep, a))
           /\ Reallocated(b, size, keep, a).hdr.maxSize = size
           /\ Reallocated(b, size, keep, a).hdr.curSize <= buf[b].curSize
           /\ Reallocated(b, size, keep, a).status
                 \in {"SSM_OK", "SSM_TRUNCATED", "SSM_SIZETOOLARGE"}
           /\ size <= SizeMax => Reallocated(b, size, keep, a).status # "SSM_SIZETOOLARGE"
           /\ Reallocated(b, size, keep, a).status = "SSM_OK" /\ keep
                 => Reallocated(b, size, keep, a).hdr.curSize = buf[b].curSize
<1> DEFINE h    == buf[b]
           room == size - 2 * CanarySize - 1
           kept == keep /\ h.data # NULL
           cur  == IF kept THEN CopiedSize(room, h.curSize, h.curSize) ELSE 0
           st   == IF kept THEN CopyStatus(room, h.curSize) ELSE "SSM_OK"
           g    == [h EXCEPT !.data = a, !.maxSize = size, !.curSize = cur]
           hp   == [x \in (DOMAIN heap \ {h.data}) \cup {a} |->
                       IF x = a THEN NewArea(h, size, kept, cur) ELSE heap[x]]
           r    == Reallocated(b, size, keep, a)
<1>1. r = [status |-> st, hdr |-> g, heap |-> hp]
  BY DEF Reallocated
<1>2. /\ h \in Structure /\ h.canary1 = LEAD /\ h.canary2 = TRAIL
      /\ h.data = NULL => h.curSize = 0
      /\ h.data # NULL => h.maxSize <= SizeMax /\ Sound(h, heap[h.data])
  BY Ready
<1>3. h.curSize \in Nat /\ h.maxSize \in Nat /\ CanarySize \in Nat /\ room \in Nat
  BY <1>2, SizeAssumption DEF Structure
<1>4. ASSUME kept
      PROVE  /\ h.curSize < h.maxSize - 2 * CanarySize /\ h.curSize <= SizeMax
             /\ heap[h.data] \in [0 .. h.maxSize - 1 -> Cell]
  BY <1>2, <1>3, <1>4, SizeAssumption DEF Sound, Shielded
<1>5. cur \in Nat /\ cur < size - 2 * CanarySize /\ cur <= h.curSize
  <2>1. ASSUME kept
        PROVE  CopiedSize(room, h.curSize, h.curSize) \in 0 .. room
               /\ CopiedSize(room, h.curSize, h.curSize) <= h.curSize
    BY <1>3, <1>4, <2>1, SizeAssumption DEF CopiedSize
  <2> QED
    BY <1>3, <2>1
<1>6. ASSUME kept
      PROVE  Readable(heap[h.data], CanarySize, CopiedSize(room, h.curSize, 0))
  <2> DEFINE k == CopiedSize(room, h.curSize, 0)
  <2>1. k \in Nat /\ 0 + k <= h.curSize
    BY <1>3, SizeAssumption DEF CopiedSize
  <2> HIDE DEF k, h
  <2>2. Readable(heap[h.data], CanarySize + 0, k)
    BY <1>3, <1>4, <1>6, <2>1, ContentReadable
  <2> QED
    BY <1>3, <2>2 DEF k
<1>7. /\ g \in Structure /\ g.data = a /\ g.maxSize = size /\ g.curSize = cur
      /\ g.canary1 = LEAD /\ g.canary2 = TRAIL
  BY <1>2, <1>5 DEF Structure
<1>8. Sound(g, NewArea(h, size, kept, cur))
  <2>1. kept \in BOOLEAN
    OBVIOUS
  <2>2. kept => Readable(heap[h.data], CanarySize,
                         CopiedSize(size - 2 * CanarySize - 1, h.curSize, 0))
    BY <1>6
  <2>3. kept => h.curSize \in Nat
    BY <1>3
  <2> HIDE DEF kept, cur, g, h
  <2> QED
    BY <1>5, <1>7, <2>1, <2>2, <2>3, NewAreaSound
<1>9. /\ DOMAIN hp = (DOMAIN heap \ {h.data}) \cup {a}
      /\ hp[a] = NewArea(h, size, kept, cur)
      /\ \A x \in DOMAIN hp \ {a} : hp[x] = heap[x]
  OBVIOUS
<1>10. /\ st \in {"SSM_OK", "SSM_TRUNCATED", "SSM_SIZETOOLARGE"}
       /\ size <= SizeMax => st # "SSM_SIZETOOLARGE"
       /\ st = "SSM_OK" /\ keep => cur = h.curSize
  <2>1. ASSUME kept
        PROVE  /\ CopyStatus(room, h.curSize) \in {"SSM_OK", "SSM_TRUNCATED", "SSM_SIZETOOLARGE"}
               /\ size <= SizeMax => CopyStatus(room, h.curSize) # "SSM_SIZETOOLARGE"
               /\ CopyStatus(room, h.curSize) = "SSM_OK" => cur = h.curSize
    BY <1>3, <1>4, <2>1, SizeAssumption DEF CopyStatus, CopiedSize
  <2> QED
    BY <1>2, <2>1
<1>11. r.status = st /\ r.hdr = g /\ r.heap = hp
  BY <1>1
<1> HIDE DEF st, g, hp, r, cur, kept
<1>12. Complete(b, r)
  BY <1>1, <1>7, <1>8, <1>9, <1>11 DEF Complete, Held, Sound
<1> QED
  BY <1>5, <1>7, <1>10, <1>11, <1>12 DEF r

\* The outcomes of an allocation.
LEMMA AllocKinds ==
    ASSUME IInv, NEW b \in Bufs, NEW n \in Nat, NEW keep \in BOOLEAN,
           NEW r \in AllocOutcomes(b, n, keep)
    PROVE  Refused(b, r) \/ Granted(b, n, keep, r)
<1> DEFINE h    == buf[b]
           need == n + 1 + 2 * CanarySize
           size == AllocSize(h.maxSize, need)
<1>1. CASE ~ Check(b)
  <2>1. r = Untouched(b, "SSM_CORRUPTED")
    BY <1>1 DEF AllocOutcomes
  <2>2. r.status = "SSM_CORRUPTED" /\ Untouched(b, "SSM_NOMEMORY").status = "SSM_NOMEMORY"
    BY <2>1 DEF Untouched
  <2> QED
    BY <2>1, <2>2 DEF Refused
<1>2. CASE Check(b) /\ n > SizeMax
  <2>1. r = Untouched(b, "SSM_SIZETOOLARGE")
    BY <1>2, SizeAssumption DEF AllocOutcomes
  <2> QED
    BY <1>2, <2>1 DEF Refused
<1>3. CASE Check(b) /\ ~ n > SizeMax
  <2>1. /\ h \in Structure /\ h.maxSize \in Nat /\ h.curSize \in Nat
        /\ h.data = NULL => h.maxSize = 0
    BY <1>3, Ready DEF Structure
  <2>2. /\ CanarySize \in Nat /\ SizeMax \in Nat /\ need \in Nat /\ n <= SizeMax
    BY <1>3, SizeAssumption
  <2>3. size \in Nat /\ size >= need
    BY <2>1, <2>2, AllocSizeBounds
  <2>4. ASSUME SmallRequests, Bounded, Requested(n) PROVE size <= SizeMax
    <3>1. MaxLength \in Nat /\ n <= MaxLength /\ h.maxSize <= SizeMax
      BY <2>2, <2>4, DBufferAssumption DEF Requested, Bounded, Small
    <3>2. need <= MaxLength + 1 + 2 * CanarySize
      BY <2>2, <3>1
    <3> HIDE DEF need
    <3> QED
      BY <2>1, <2>2, <2>4, <3>1, <3>2, AllocSizeBounds
  <2>5. ASSUME size = h.maxSize, r = Untouched(b, "SSM_OK")
        PROVE  Granted(b, n, keep, r)
    <3>1. h.data # NULL
      BY <2>1, <2>2, <2>3, <2>5
    <3>2. Complete(b, r)
      BY <1>3, <2>5, <3>1, UntouchedComplete
    <3>3. r.hdr = h /\ r.status = "SSM_OK"
      BY <2>5 DEF Untouched
    <3>4. n <= Room(h, 0)
      BY <2>1, <2>2, <2>3, <2>5 DEF Room
    <3> QED
      BY <1>3, <2>1, <2>2, <3>2, <3>3, <3>4 DEF Granted, Bounded
  <2>6. ASSUME NEW a \in Areas \ DOMAIN heap, r = Reallocated(b, size, keep, a)
        PROVE  Granted(b, n, keep, r)
    <3>1. size > 2 * CanarySize
      BY <2>2, <2>3
    <3> HIDE DEF size
    <3>2. /\ Complete(b, r) /\ r.hdr.maxSize = size /\ r.hdr.curSize <= h.curSize
          /\ r.status \in {"SSM_OK", "SSM_TRUNCATED", "SSM_SIZETOOLARGE"}
          /\ size <= SizeMax => r.status # "SSM_SIZETOOLARGE"
          /\ r.status = "SSM_OK" /\ keep => r.hdr.curSize = h.curSize
      BY <1>3, <2>3, <2>6, <3>1, ReallocatedComplete
    <3>3. n <= Room(r.hdr, 0)
      BY <2>2, <2>3, <3>2 DEF Room
    <3>4. ASSUME SmallRequests, Bounded, Requested(n) PROVE Small(r.hdr)
      <4>1. h.curSize <= MaxLength /\ MaxLength \in Nat /\ r.hdr.curSize \in Nat
        BY <3>2, <3>4, DBufferAssumption DEF Bounded, Small, Complete, Sound, Shielded, Structure
      <4> QED
        BY <2>1, <2>4, <3>2, <3>4, <4>1 DEF Small
    <3> QED
      BY <1>3, <2>2, <2>4, <3>2, <3>3, <3>4 DEF Granted
  <2>7. CASE r = Untouched(b, "SSM_NOMEMORY")
    BY <1>3, <2>7 DEF Refused
  <2>8. \/ size = h.maxSize /\ r = Untouched(b, "SSM_OK")
        \/ r = Untouched(b, "SSM_NOMEMORY")
        \/ \E a \in Areas \ DOMAIN heap : r = Reallocated(b, size, keep, a)
    BY <1>3, <2>2 DEF AllocOutcomes
  <2> QED
    BY <2>5, <2>6, <2>7, <2>8
<1> QED
  BY <1>1, <1>2, <1>3

\* ssm_copy() into the content.  When it refuses the size it changes nothing.
LEMMA CopyToHeld ==
    ASSUME NEW b, NEW r, Held(b, r), NEW at \in 0 .. Room(r.hdr, 0),
           NEW src, NEW from \in Nat, NEW n \in Nat, Readable(src, from, n)
    PROVE  /\ Held(b, CopyTo(r, at, src, from, n))
           /\ CopyTo(r, at, src, from, n).hdr = r.hdr
           /\ CopyTo(r, at, src, from, n).status = CopyStatus(Room(r.hdr, at), n)
           /\ CopyStatus(Room(r.hdr, at), n) = "SSM_SIZETOOLARGE" /\ Complete(b, r)
                 => Complete(b, CopyTo(r, at, src, from, n))
<1> DEFINE h   == r.hdr
           mem == r.heap[h.data]
           k   == CopiedSize(Room(h, at), n, 0)
           new == Move(mem, CanarySize + at, src, from, k)
           hp  == [r.heap EXCEPT ![h.data] = new]
           st  == CopyStatus(Room(h, at), n)
           c   == CopyTo(r, at, src, from, n)
<1>1. Shielded(h, mem) /\ h.data \in DOMAIN r.heap
  BY DEF Held
<1>2. /\ Room(h, 0) \in Nat /\ Room(h, at) \in Nat /\ Room(h, at) = Room(h, 0) - at
      /\ at \in Nat /\ CanarySize \in Nat /\ h.curSize \in Nat /\ h.maxSize \in Nat
      /\ h.maxSize = Room(h, 0) + 2 * CanarySize + 1 /\ h.curSize <= Room(h, 0)
  <2>1. /\ Room(h, 0) \in Nat /\ CanarySize \in Nat /\ h.curSize \in Nat /\ h.maxSize \in Nat
        /\ h.maxSize = Room(h, 0) + 2 * CanarySize + 1 /\ h.curSize <= Room(h, 0)
    BY <1>1, ShieldedLayout
  <2>2. Room(h, at) \in Nat /\ Room(h, at) = Room(h, 0) - at
    BY <1>1, ShieldedLayout
  <2> QED
    BY <2>1, <2>2
<1>3. k \in Nat /\ k <= Room(h, at) /\ k <= n /\ (st = "SSM_SIZETOOLARGE" => k = 0)
  BY <1>2, SizeAssumption DEF CopiedSize, CopyStatus
<1>4. Readable(src, from, k) /\ at + k <= Room(h, 0) + 1
  BY <1>2, <1>3 DEF Readable
<1>5. c.status = st /\ c.hdr = h /\ c.heap = hp /\ DOMAIN c = DOMAIN r
  BY DEF Held, CopyTo
<1> HIDE DEF k, mem, h
<1>6. Shielded(h, new) /\ SameOutside(h.maxSize - 1, new, mem, CanarySize + at, k)
  BY <1>1, <1>2, <1>3, <1>4, MoveShields
<1> HIDE DEF new
<1>7. /\ DOMAIN hp = DOMAIN r.heap /\ hp[h.data] = new
      /\ \A a \in DOMAIN hp \ {h.data} : hp[a] = r.heap[a]
  BY <1>1
<1> HIDE DEF hp, st, c
<1>8. Held(b, c)
  BY <1>5, <1>6, <1>7 DEF Held, h
<1>9. ASSUME st = "SSM_SIZETOOLARGE", Complete(b, r) PROVE Complete(b, c)
  <2>1. /\ CanarySize + h.curSize \in 0 .. h.maxSize - 1
        /\ CanarySize + h.curSize \notin CanarySize + at .. CanarySize + at + k - 1
    BY <1>2, <1>3, <1>9
  <2>2. new[CanarySize + h.curSize] = mem[CanarySize + h.curSize]
    BY <1>6, <2>1 DEF SameOutside
  <2>3. /\ new \in [0 .. h.maxSize - 1 -> Cell] /\ mem \in [0 .. h.maxSize - 1 -> Cell]
        /\ Load(mem, CanarySize + h.curSize) = NUL
    BY <1>1, <1>6, <1>9 DEF Shielded, Complete, Sound, h, mem
  <2>4. Sound(h, new)
    BY <1>6, <2>1, <2>2, <2>3 DEF Sound, Load
  <2> QED
    BY <1>5, <1>7, <1>8, <2>4 DEF Complete
<1> QED
  BY <1>5, <1>8, <1>9 DEF c, h, st

\* The store of a length and of its terminator ends a call.
LEMMA TerminateComplete ==
    ASSUME NEW b, NEW r, Held(b, r), NEW n \in 0 .. Room(r.hdr, 0)
    PROVE  /\ Complete(b, Terminate(r, n))
           /\ Terminate(r, n).status = r.status
           /\ Terminate(r, n).hdr.curSize = n
           /\ Terminate(r, n).hdr.maxSize = r.hdr.maxSize
<1> DEFINE h   == r.hdr
           mem == r.heap[h.data]
           new == Fill(mem, CanarySize + n, 1, NUL)
           g   == [h EXCEPT !.curSize = n]
           hp  == [r.heap EXCEPT ![h.data] = new]
           t   == Terminate(r, n)
<1>1. Shielded(h, mem) /\ h \in Structure /\ h.data \in DOMAIN r.heap
  BY DEF Held, Shielded
<1>2. /\ g.curSize = n /\ g.maxSize = h.maxSize /\ g.data = h.data
      /\ g.canary1 = h.canary1 /\ g.canary2 = h.canary2
  BY <1>1 DEF Structure
<1>3. t.status = r.status /\ t.hdr = g /\ t.heap = hp /\ DOMAIN t = DOMAIN r
  BY <1>2 DEF Held, Terminate
<1> HIDE DEF h, mem
<1>4. Sound(g, new)
  BY <1>1, TerminatorSound DEF h
<1> HIDE DEF g, new
<1>5. /\ DOMAIN hp = DOMAIN r.heap /\ hp[h.data] = new
      /\ \A a \in DOMAIN hp \ {h.data} : hp[a] = r.heap[a]
  BY <1>1
<1> HIDE DEF hp, t
<1>6. Complete(b, t)
  BY <1>2, <1>3, <1>4, <1>5 DEF Complete, Held, Sound, h
<1> QED
  BY <1>2, <1>3, <1>6 DEF t, h

-----------------------------------------------------------------------------
(* How the calls end.                                                      *)

\* A call that may be committed
Ended(b, r) ==
    /\ Complete(b, r) /\ r.status \in Statuses
    /\ SmallRequests /\ Bounded => Small(r.hdr) /\ r.status \in Successes

\* A structure h and a heap hp that may replace those of b
Replaces(b, h, hp) ==
    /\ h \in Structure /\ h.canary1 = LEAD /\ h.canary2 = TRAIL
    /\ IF h.data = NULL THEN h.maxSize = 0 /\ h.curSize = 0 ELSE Sound(h, hp[h.data])
    /\ h.data = NULL \/ h.data = buf[b].data \/ h.data \notin DOMAIN heap
    /\ DOMAIN hp = (DOMAIN heap \ {buf[b].data}) \cup ({h.data} \ {NULL})
    /\ \A a \in DOMAIN hp \ {h.data} : hp[a] = heap[a]

\* What a call on b may do
Effect(b) ==
    /\ UNCHANGED damaged
    /\ last' \in Outcome /\ last'.obj = b
    /\ ~ Check(b) => last'.status \in {"SSM_CORRUPTED", "SSM_SIZETOOLARGE"}
    /\ \/ UNCHANGED <<buf, heap>>
       \/ /\ Check(b)
          /\ \E h : /\ buf' = [buf EXCEPT ![b] = h] /\ Replaces(b, h, heap')
                    /\ SmallRequests /\ Bounded => Small(h) /\ last'.status \in Successes

LEMMA ReturnEffect ==
    ASSUME NEW op \in Calls, NEW b \in Bufs, NEW st \in Statuses,
           ~ Check(b) => st \in {"SSM_CORRUPTED", "SSM_SIZETOOLARGE"}, Return(op, b, st)
    PROVE  Effect(b)
  BY DEF Return, Report, Effect, Outcome

LEMMA CommitEffect ==
    ASSUME NEW op \in Calls, NEW b \in Bufs, NEW n \in Nat, Check(b),
           NEW r, Ended(b, r), Commit(op, b, n, r)
    PROVE  Effect(b)
<1>1. /\ UNCHANGED damaged /\ last' \in Outcome /\ last'.obj = b
      /\ last'.status = r.status
      /\ buf' = [buf EXCEPT ![b] = r.hdr] /\ heap' = r.heap
  BY DEF Commit, Report, Ended, Outcome
<1>2. r.hdr.data \in Areas /\ r.hdr.data # NULL /\ r.hdr \in Structure
  BY DBufferAssumption DEF Ended, Complete, Sound, Held, Shielded
<1>3. Replaces(b, r.hdr, heap')
  BY <1>1, <1>2 DEF Ended, Complete, Held, Replaces
<1> QED
  BY <1>1, <1>3 DEF Effect, Ended

LEMMA RefusedEffect ==
    ASSUME IInv, NEW op \in Calls, NEW b \in Bufs, NEW n \in Nat,
           NEW r, Refused(b, r), Commit(op, b, n, r)
    PROVE  Effect(b)
<1>1. /\ r.hdr = buf[b] /\ r.heap = heap
      /\ r.status \in {"SSM_CORRUPTED", "SSM_SIZETOOLARGE", "SSM_NOMEMORY"}
      /\ ~ Check(b) => r.status \in {"SSM_CORRUPTED", "SSM_SIZETOOLARGE"}
  BY DEF Refused, Untouched
<1>2. UNCHANGED <<buf, heap, damaged>>
  BY <1>1 DEF Commit, IInv, TypeOK
<1>3. last' = [op |-> op, obj |-> b, want |-> n, status |-> r.status]
  BY DEF Commit, Report
<1>4. r.status \in Statuses
  BY <1>1, StatusKinds
<1> QED
  BY <1>1, <1>2, <1>3, <1>4 DEF Effect, Outcome

\* A request the second invariant can rely on
Limited(n) == SmallRequests /\ Bounded => Requested(n)

\* The call ends where the allocation does not report a plain success.
LEMMA AllocFails ==
    ASSUME IInv, NEW op \in Calls, NEW b \in Bufs, NEW n \in Nat, Limited(n),
           NEW keep \in BOOLEAN, NEW r \in AllocOutcomes(b, n, keep), r.status # "SSM_OK",
           Commit(op, b, n, r)
    PROVE  Effect(b)
<1>1. CASE Refused(b, r)
  BY <1>1, RefusedEffect
<1>2. CASE Granted(b, n, keep, r)
  <2>1. r.status \in Statuses /\ (r.status # "SSM_SIZETOOLARGE" => r.status \in Successes)
    BY <1>2, StatusKinds DEF Granted
  <2>2. Check(b) /\ Ended(b, r)
    BY <1>2, <2>1 DEF Granted, Ended, Limited
  <2> QED
    BY <2>2, CommitEffect
<1> QED
  BY <1>1, <1>2, AllocKinds

\* The call goes on where it does.
LEMMA AllocSucceeds ==
    ASSUME IInv, NEW b \in Bufs, NEW n \in Nat, NEW keep \in BOOLEAN,
           NEW r \in AllocOutcomes(b, n, keep), r.status = "SSM_OK"
    PROVE  Granted(b, n, keep, r)
<1>1. ~ Refused(b, r)
  BY DEF Refused, Untouched
<1> QED
  BY <1>1, AllocKinds

\* Bytes copied into the area, the length and the terminator.
LEMMA CopyEnds ==
    ASSUME NEW b \in Bufs, NEW want \in Nat, Limited(want), NEW keep,
           NEW r, Granted(b, want, keep, r), NEW at \in 0 .. Room(r.hdr, 0),
           NEW src, NEW from \in Nat, NEW n \in Nat, at + n <= want, Readable(src, from, n),
           NEW old \in Nat, old <= Room(r.hdr, at), NEW len,
           len = at + CopiedSize(Room(r.hdr, at), n, old)
    PROVE  Ended(b, Terminate(CopyTo(r, at, src, from, n), len))
<1> DEFINE c    == CopyTo(r, at, src, from, n)
           room == Room(r.hdr, at)
           t    == Terminate(c, len)
<1>1. Held(b, r) /\ Shielded(r.hdr, r.heap[r.hdr.data]) /\ want <= SizeMax /\ want <= Room(r.hdr, 0)
  BY DEF Granted, Complete, Sound
<1>2. /\ Room(r.hdr, 0) \in Nat /\ room \in Nat /\ room = Room(r.hdr, 0) - at /\ at \in Nat
      /\ r.hdr.maxSize = Room(r.hdr, 0) + 2 * CanarySize + 1 /\ CanarySize \in Nat
  BY <1>1, ShieldedLayout
<1>3. Held(b, c) /\ c.hdr = r.hdr /\ c.status = CopyStatus(room, n)
  BY <1>1, CopyToHeld
<1>4. len \in 0 .. Room(r.hdr, 0)
  <2>1. CopiedSize(room, n, old) \in 0 .. room
    BY <1>2, CopiedSizes
  <2> HIDE DEF room
  <2> QED
    BY <1>2, <2>1 DEF room
<1> HIDE DEF c
<1>5. /\ Complete(b, t) /\ t.status = c.status /\ t.hdr.curSize = len
      /\ t.hdr.maxSize = r.hdr.maxSize
  BY <1>3, <1>4, TerminateComplete
<1>6. CopyStatus(room, n) \in Statuses
  <2>1. CopyStatus(room, n) \in {"SSM_OK", "SSM_TRUNCATED", "SSM_SIZETOOLARGE"}
    BY DEF CopyStatus
  <2> QED
    BY <2>1, StatusKinds
<1>7. ASSUME SmallRequests, Bounded
      PROVE  Small(t.hdr) /\ CopyStatus(room, n) \in Successes
  <2>1. Small(r.hdr) /\ Requested(want)
    BY <1>7 DEF Granted, Limited
  <2>2. want <= MaxLength /\ MaxLength \in Nat /\ r.hdr.maxSize <= SizeMax /\ SizeMax \in Nat
    BY <1>1, <2>1, DBufferAssumption, SizeAssumption DEF Requested, Small
  <2>3. n <= room /\ n <= SizeMax /\ room <= SizeMax
    BY <1>1, <1>2, <2>2
  <2> HIDE DEF room
  <2>4. CopyStatus(room, n) = "SSM_OK" /\ CopiedSize(room, n, old) = n
    BY <1>2, <2>2, <2>3 DEF CopyStatus, CopiedSize, room
  <2>5. Small(t.hdr)
    BY <1>5, <2>2, <2>4 DEF Small, room
  <2> QED
    BY <2>4, <2>5, StatusKinds
<1> HIDE DEF room, t
<1>8. Ended(b, t)
  BY <1>3, <1>5, <1>6, <1>7 DEF Ended
<1> QED
  BY <1>8 DEF t, c

-----------------------------------------------------------------------------
(* The operations.                                                         *)

LEMMA TextReadable ==
    ASSUME NEW text \in Texts, NEW n \in Nat, 0 .. n - 1 \subseteq DOMAIN text
    PROVE  Readable(text, 0, n)
<1>1. \A i \in 0 .. 0 + n - 1 : i \in DOMAIN text /\ text[i] \in Byte
  BY DBufferAssumption
<1> QED
  BY <1>1 DEF Readable, Byte, Cell

\* The content of another buffer can be read, whatever has become of the area
\* of the buffer a call works on.
LEMMA SourceReadable ==
    ASSUME IInv, NEW b \in Bufs, NEW s \in Bufs, s # b, Check(s), NEW r, Held(b, r)
    PROVE  Readable(AreaOf(buf[s], r.heap), CanarySize, buf[s].curSize)
<1>1. /\ buf[s].curSize \in Nat /\ buf[s].maxSize \in Nat /\ CanarySize \in Nat
      /\ buf[s].data = NULL => buf[s].curSize = 0
  BY Ready, SizeAssumption DEF Structure
<1>2. CASE buf[s].data = NULL
  BY <1>1, <1>2 DEF Readable
<1>3. CASE buf[s].data # NULL
  <2>1. /\ buf[s].data \in DOMAIN heap /\ buf[s].data # buf[b].data
        /\ heap[buf[s].data] \in [0 .. buf[s].maxSize - 1 -> Cell]
        /\ buf[s].curSize < buf[s].maxSize - 2 * CanarySize
    BY <1>3, OtherAreas
  <2>2. r.heap[buf[s].data] = heap[buf[s].data]
    BY <2>1 DEF Held
  <2>3. AreaOf(buf[s], r.heap) = heap[buf[s].data]
    BY <1>3, <2>2 DEF AreaOf
  <2>4. 0 + buf[s].curSize <= buf[s].curSize
    BY <1>1
  <2>5. Readable(heap[buf[s].data], CanarySize + 0, buf[s].curSize)
    BY <1>1, <2>1, <2>4, ContentReadable
  <2> QED
    BY <1>1, <2>3, <2>5
<1> QED
  BY <1>2, <1>3

\* What a call knows of a granted area
Laid(b, n, r) ==
    /\ Held(b, r)
    /\ r.hdr.curSize \in Nat /\ r.hdr.maxSize \in Nat /\ CanarySize \in Nat
    /\ Room(r.hdr, 0) \in Nat /\ r.hdr.curSize <= Room(r.hdr, 0) /\ n <= Room(r.hdr, 0)
    /\ r.hdr.data # NULL
    /\ r.heap[r.hdr.data] \in [0 .. r.hdr.maxSize - 1 -> Cell]
    /\ r.hdr.curSize < r.hdr.maxSize - 2 * CanarySize

LEMMA GrantedLayout ==
    ASSUME NEW b, NEW n, NEW keep, NEW r, Granted(b, n, keep, r)
    PROVE  Laid(b, n, r)
<1>1. Shielded(r.hdr, r.heap[r.hdr.data]) /\ Held(b, r)
  BY DEF Granted, Complete, Sound
<1>2. r.hdr.data # NULL
  BY <1>1, DBufferAssumption DEF Held
<1> QED
  BY <1>1, <1>2, ShieldedLayout DEF Granted, Shielded, Laid

LEMMA LaidRoom ==
    ASSUME NEW b, NEW n, NEW r, Laid(b, n, r), NEW at \in 0 .. Room(r.hdr, 0)
    PROVE  Room(r.hdr, at) \in Nat /\ Room(r.hdr, at) = Room(r.hdr, 0) - at
<1>1. Shielded(r.hdr, r.heap[r.hdr.data])
  BY DEF Laid, Held
<1> QED
  BY <1>1, ShieldedLayout

LEMMA ImportBytesEffect ==
    ASSUME IInv, NEW op \in Calls, NEW b \in Bufs, NEW src, NEW n \in Nat, Limited(n),
           n <= SizeMax => Readable(src, 0, n), ImportBytes(op, b, src, n)
    PROVE  Effect(b)
<1>1. PICK r \in AllocOutcomes(b, n, FALSE) :
         IF r.status # "SSM_OK" THEN Commit(op, b, n, r)
         ELSE LET c == CopyTo(r, 0, src, 0, n)
              IN  Commit(op, b, n, Terminate(c, CopiedSize(Room(r.hdr, 0), n, r.hdr.curSize)))
  BY DEF ImportBytes
<1>2. CASE r.status # "SSM_OK"
  BY <1>1, <1>2, AllocFails
<1>3. CASE r.status = "SSM_OK"
  <2> DEFINE len == CopiedSize(Room(r.hdr, 0), n, r.hdr.curSize)
             t   == Terminate(CopyTo(r, 0, src, 0, n), len)
  <2>1. Granted(b, n, FALSE, r)
    BY <1>3, AllocSucceeds
  <2>2. Readable(src, 0, n)
    BY <2>1 DEF Granted
  <2>3. /\ r.hdr.curSize \in Nat /\ Room(r.hdr, 0) \in Nat /\ r.hdr.curSize <= Room(r.hdr, 0)
        /\ 0 \in 0 .. Room(r.hdr, 0) /\ 0 + n <= n
    <3>1. Laid(b, n, r)
      BY <2>1, GrantedLayout
    <3> QED
      BY <3>1 DEF Laid
  <2>4. len = 0 + len
    BY <2>3, SizeAssumption DEF CopiedSize
  <2>5. Ended(b, t)
    <3> HIDE DEF Limited
    <3> QED
      BY <2>1, <2>2, <2>3, <2>4, CopyEnds
  <2>6. Commit(op, b, n, t) /\ Check(b)
    BY <1>1, <1>3, <2>1 DEF Granted
  <2> HIDE DEF t
  <2> QED
    BY <2>5, <2>6, CommitEffect
<1> QED
  BY <1>2, <1>3

LEMMA ImportEffect ==
    ASSUME IInv, NEW b \in Bufs, NEW text \in Texts, NEW n \in Sizes, Import(b, text, n)
    PROVE  Effect(b)
<1>1. n \in Nat /\ Limited(n) /\ ImportBytes("import", b, text, n)
  BY DBufferAssumption DEF Import, Limited
<1>2. n <= SizeMax => Readable(text, 0, n)
  BY <1>1, TextReadable DEF Import
<1> QED
  BY <1>1, <1>2, ImportBytesEffect DEF Calls

LEMMA ImportStringEffect ==
    ASSUME IInv, NEW b \in Bufs, NEW text \in Texts, NEW n \in Nat, ImportString(b, text, n)
    PROVE  Effect(b)
<1>1. CASE n > SizeMax
  BY <1>1, StatusKinds, ReturnEffect DEF ImportString, Calls
<1>2. CASE ~ n > SizeMax
  <2>1. PICK len \in 0 .. n : /\ IsStringLength(text, n, len) /\ Requested(len)
                              /\ ImportBytes("import_size", b, text, len)
    BY <1>2 DEF ImportString
  <2>2. len \in Nat /\ Limited(len) /\ Readable(text, 0, len)
    BY <2>1, TextReadable DEF Limited, IsStringLength
  <2> QED
    BY <2>1, <2>2, ImportBytesEffect DEF Calls
<1> QED
  BY <1>1, <1>2

\* With the bounds of the second invariant, what a buffer holds may be asked for.
LEMMA ContentLimited ==
    ASSUME IInv, NEW s \in Bufs PROVE buf[s].curSize \in Nat /\ Limited(buf[s].curSize)
  BY DEF IInv, TypeOK, Structure, Limited, Bounded, Small, Requested

LEMMA CopyEffect ==
    ASSUME IInv, NEW b \in Bufs, NEW s \in Bufs \cup {NULL}, Copy(b, s)
    PROVE  Effect(b)
<1> DEFINE n == IF s = NULL THEN 0 ELSE buf[s].curSize
<1>1. CASE ~ Check(b) \/ ~ CheckIn(s)
  BY <1>1, StatusKinds, ReturnEffect DEF Copy, Calls
<1>2. CASE Check(b) /\ CheckIn(s) /\ s = b
  BY <1>2, StatusKinds, ReturnEffect DEF Copy, Calls
<1>3. CASE Check(b) /\ CheckIn(s) /\ s # b
  <2>1. n \in Nat /\ Limited(n)
    <3>1. 0 \in Nat /\ Limited(0)
      BY DBufferAssumption DEF Limited, Requested
    <3> QED
      BY <3>1, ContentLimited
  <2>2. PICK r \in AllocOutcomes(b, n, FALSE) :
           IF r.status # "SSM_OK" THEN Commit("copy", b, n, r)
           ELSE IF s = NULL THEN Commit("copy", b, n, Terminate(r, 0))
           ELSE LET c == CopyTo(r, 0, AreaOf(buf[s], r.heap), CanarySize, n)
                IN  Commit("copy", b, n,
                       Terminate(c, CopiedSize(Room(r.hdr, 0), n, r.hdr.curSize)))
    BY <1>3 DEF Copy
  <2>3. "copy" \in Calls
    BY DEF Calls
  <2> HIDE DEF n
  <2>4. CASE r.status # "SSM_OK"
    BY <2>1, <2>2, <2>3, <2>4, AllocFails
  <2>5. CASE r.status = "SSM_OK" /\ s = NULL
    <3>1. Granted(b, n, FALSE, r)
      BY <2>1, <2>5, AllocSucceeds
    <3>2. Held(b, r) /\ 0 \in 0 .. Room(r.hdr, 0)
      <4>1. Laid(b, n, r)
        BY <3>1, GrantedLayout
      <4> QED
        BY <4>1 DEF Laid
    <3>3. /\ Complete(b, Terminate(r, 0)) /\ Terminate(r, 0).status = "SSM_OK"
          /\ Terminate(r, 0).hdr.curSize = 0
          /\ Terminate(r, 0).hdr.maxSize = r.hdr.maxSize
      BY <2>5, <3>2, TerminateComplete
    <3>4. Ended(b, Terminate(r, 0))
      BY <2>1, <3>1, <3>3, StatusKinds, DBufferAssumption DEF Ended, Granted, Limited, Small
    <3> QED
      BY <1>3, <2>1, <2>2, <2>3, <2>5, <3>4, CommitEffect
  <2>6. CASE r.status = "SSM_OK" /\ s # NULL
    <3> DEFINE src == AreaOf(buf[s], r.heap)
               len == CopiedSize(Room(r.hdr, 0), n, r.hdr.curSize)
               t   == Terminate(CopyTo(r, 0, src, CanarySize, n), len)
    <3>1. Granted(b, n, FALSE, r)
      BY <2>1, <2>6, AllocSucceeds
    <3>2. /\ r.hdr.curSize \in Nat /\ Room(r.hdr, 0) \in Nat /\ r.hdr.curSize <= Room(r.hdr, 0)
          /\ 0 \in 0 .. Room(r.hdr, 0) /\ 0 + n <= n /\ CanarySize \in Nat /\ Held(b, r)
      <4>1. Laid(b, n, r)
        BY <3>1, GrantedLayout
      <4> QED
        BY <2>1, <4>1 DEF Laid
    <3>3. s \in Bufs /\ Check(s) /\ n = buf[s].curSize
      BY <1>3, <2>6 DEF CheckIn, n
    <3>4. Readable(src, CanarySize, n)
      BY <1>3, <3>2, <3>3, SourceReadable
    <3>5. len = 0 + len
      BY <2>1, <3>2, SizeAssumption DEF CopiedSize
    <3> HIDE DEF src
    <3>6. Ended(b, t)
      BY <2>1, <3>1, <3>2, <3>4, <3>5, CopyEnds
    <3>7. Commit("copy", b, n, t)
      BY <2>2, <2>6 DEF src
    <3> HIDE DEF t
    <3> QED
      BY <1>3, <2>1, <2>3, <3>6, <3>7, CommitEffect
  <2> QED
    BY <2>4, <2>5, <2>6
<1> QED
  BY <1>1, <1>2, <1>3

LEMMA ConcatEffect ==
    ASSUME IInv, NEW b \in Bufs, NEW s \in Bufs \cup {NULL}, Concat(b, s)
    PROVE  Effect(b)
<1> DEFINE total == buf[b].curSize + buf[s].curSize
<1>1. CASE ~ Check(b) \/ ~ CheckIn(s)
  BY <1>1, StatusKinds, ReturnEffect DEF Concat, Calls
<1>2. CASE Check(b) /\ CheckIn(s) /\ (s = NULL \/ buf[s].curSize = 0)
  BY <1>2, StatusKinds, ReturnEffect DEF Concat, Calls
<1>3. CASE Check(b) /\ CheckIn(s) /\ ~ (s = NULL \/ buf[s].curSize = 0)
  <2>1. s \in Bufs /\ Check(s) /\ buf[b].curSize \in Nat /\ buf[s].curSize \in Nat
    BY <1>3, ContentLimited DEF CheckIn
  <2>2. total \in Nat /\ Limited(total)
    BY <1>3, <2>1 DEF Concat, Limited
  <2>3. PICK r \in AllocOutcomes(b, total, TRUE) :
           IF r.status # "SSM_OK" THEN Commit("concat", b, total, r)
           ELSE LET src == IF s = b THEN r.hdr ELSE buf[s]
                    cur == r.hdr.curSize
                    c   == CopyTo(r, cur, AreaOf(src, r.heap), CanarySize, src.curSize)
                IN  Commit("concat", b, total,
                       Terminate(c, cur + CopiedSize(Room(r.hdr, cur), src.curSize, 0)))
    BY <1>3 DEF Concat
  <2>4. "concat" \in Calls
    BY DEF Calls
  <2> HIDE DEF total
  <2>5. CASE r.status # "SSM_OK"
    BY <2>2, <2>3, <2>4, <2>5, AllocFails
  <2>6. CASE r.status = "SSM_OK"
    <3> DEFINE h   == IF s = b THEN r.hdr ELSE buf[s]
               src == AreaOf(h, r.heap)
               cur == r.hdr.curSize
               n   == h.curSize
               len == cur + CopiedSize(Room(r.hdr, cur), n, 0)
               t   == Terminate(CopyTo(r, cur, src, CanarySize, n), len)
    <3>1. Granted(b, total, TRUE, r)
      BY <2>2, <2>6, AllocSucceeds
    <3>2. /\ cur = buf[b].curSize /\ n = buf[s].curSize /\ n \in Nat /\ cur \in Nat
          /\ cur + n <= total
      BY <2>1, <2>6, <3>1 DEF Granted, total
    <3>3. /\ Held(b, r) /\ cur \in 0 .. Room(r.hdr, 0) /\ CanarySize \in Nat
          /\ Room(r.hdr, cur) \in Nat /\ 0 <= Room(r.hdr, cur)
      <4>1. Laid(b, total, r)
        BY <3>1, GrantedLayout
      <4>2. Held(b, r) /\ cur \in 0 .. Room(r.hdr, 0) /\ CanarySize \in Nat
        BY <4>1 DEF Laid
      <4>3. Room(r.hdr, cur) \in Nat
        BY <4>1, <4>2, LaidRoom
      <4> QED
        BY <4>2, <4>3
    <3>4. Readable(src, CanarySize, n)
      <4>1. CASE s # b
        BY <2>1, <3>3, <4>1, SourceReadable
      <4>2. CASE s = b
        <5>1. Laid(b, total, r)
          BY <3>1, GrantedLayout
        <5>2. src = r.heap[r.hdr.data] /\ n = r.hdr.curSize
          BY <4>2, <5>1 DEF AreaOf, Laid
        <5>3. 0 + n <= r.hdr.curSize
          BY <3>2, <5>2
        <5> HIDE DEF src, n
        <5>4. Readable(r.heap[r.hdr.data], CanarySize + 0, n)
          BY <3>2, <5>1, <5>3, ContentReadable DEF Laid
        <5> QED
          BY <3>3, <5>2, <5>4
      <4> QED
        BY <4>1, <4>2
    <3> HIDE DEF src, n, h, cur
    <3>5. Ended(b, t)
      BY <2>2, <3>1, <3>2, <3>3, <3>4, CopyEnds
    <3>6. Commit("concat", b, total, t)
      BY <2>3, <2>6 DEF src, n, h, cur
    <3> HIDE DEF t
    <3> QED
      BY <1>3, <2>2, <2>4, <3>5, <3>6, CommitEffect
  <2> QED
    BY <2>5, <2>6
<1> QED
  BY <1>1, <1>2, <1>3

LEMMA ResizeEffect ==
    ASSUME IInv, NEW b \in Bufs, NEW n \in Sizes, Resize(b, n)
    PROVE  Effect(b)
<1>1. n \in Nat /\ Limited(n) /\ "resize" \in Calls
  BY DBufferAssumption DEF Resize, Limited, Calls
<1>2. PICK r \in AllocOutcomes(b, n, TRUE) :
         Commit("resize", b, n, IF r.status = "SSM_OK" THEN Terminate(r, n) ELSE r)
  BY DEF Resize
<1>3. CASE r.status # "SSM_OK"
  <2>1. Commit("resize", b, n, r)
    BY <1>2, <1>3
  <2> QED
    BY <1>1, <1>3, <2>1, AllocFails
<1>4. CASE r.status = "SSM_OK"
  <2>1. Granted(b, n, TRUE, r)
    BY <1>1, <1>4, AllocSucceeds
  <2>2. Laid(b, n, r)
    BY <2>1, GrantedLayout
  <2>3. Held(b, r) /\ n \in 0 .. Room(r.hdr, 0)
    BY <1>1, <2>2 DEF Laid
  <2>4. /\ Complete(b, Terminate(r, n)) /\ Terminate(r, n).status = "SSM_OK"
        /\ Terminate(r, n).hdr.curSize = n
        /\ Terminate(r, n).hdr.maxSize = r.hdr.maxSize
    BY <1>4, <2>3, TerminateComplete
  <2>5. ASSUME SmallRequests, Bounded PROVE Small(Terminate(r, n).hdr)
    <3>1. Requested(n) /\ Small(r.hdr) /\ n <= SizeMax
      BY <1>1, <2>1, <2>5 DEF Limited, Granted
    <3> QED
      BY <1>1, <2>4, <3>1, SizeAssumption DEF Requested, Small
  <2>6. Ended(b, Terminate(r, n)) /\ Check(b)
    BY <2>1, <2>4, <2>5, StatusKinds DEF Ended, Granted
  <2>7. Commit("resize", b, n, Terminate(r, n))
    BY <1>2, <1>4
  <2> QED
    BY <1>1, <2>6, <2>7, CommitEffect
<1> QED
  BY <1>3, <1>4

\* The tail of the content moves up.
LEMMA OpenGapEnds ==
    ASSUME NEW b \in Bufs, NEW want \in Nat, Limited(want), NEW r, Granted(b, want, TRUE, r),
           NEW start \in Nat, NEW n \in Nat, start <= r.hdr.curSize,
           want = r.hdr.curSize + n
    PROVE  Ended(b, OpenGap(r, start, n))
<1> DEFINE at    == start + n
           tail  == r.hdr.curSize - start
           area  == r.heap[r.hdr.data]
           moved == CopyTo(r, at, area, CanarySize + start, tail)
           room  == Room(r.hdr, at)
           len   == at + CopiedSize(room, tail, 0)
<1>1. Laid(b, want, r)
  BY GrantedLayout
<1>2. /\ Held(b, r) /\ at \in 0 .. Room(r.hdr, 0) /\ at \in Nat /\ tail \in Nat
      /\ at + tail <= want /\ CanarySize + start \in Nat /\ start + tail <= r.hdr.curSize
  <2>1. /\ Held(b, r) /\ r.hdr.curSize \in Nat /\ CanarySize \in Nat
        /\ Room(r.hdr, 0) \in Nat /\ want <= Room(r.hdr, 0)
    BY <1>1 DEF Laid
  <2> QED
    BY <2>1
<1>3. room \in Nat
  BY <1>1, <1>2, LaidRoom
<1> HIDE DEF at, tail, area
<1>4. Readable(area, CanarySize + start, tail)
  BY <1>1, <1>2, ContentReadable DEF Laid, area
<1>5. 0 \in Nat /\ 0 <= room
  BY <1>3
<1>6. Ended(b, Terminate(moved, len))
  BY <1>2, <1>4, <1>5, CopyEnds
<1>7. /\ Held(b, moved) /\ moved.status = CopyStatus(room, tail)
      /\ CopyStatus(room, tail) = "SSM_SIZETOOLARGE" /\ Complete(b, r) => Complete(b, moved)
  BY <1>2, <1>4, CopyToHeld
<1>8. OpenGap(r, start, n) =
         IF moved.status \in Successes THEN Terminate(moved, len) ELSE moved
  BY DEF OpenGap, at, tail, area
<1> HIDE DEF moved, len, room
<1>9. CASE moved.status \in Successes
  BY <1>6, <1>8, <1>9
<1>10. CASE moved.status \notin Successes
  <2>1. Terminate(moved, len).status = moved.status
    BY <1>7 DEF Terminate, Held
  <2>2. moved.status = "SSM_SIZETOOLARGE"
    BY <1>7, <1>10, StatusKinds DEF CopyStatus
  <2>3. Complete(b, moved)
    BY <1>7, <2>2 DEF Granted
  <2>4. ~ (SmallRequests /\ Bounded) /\ moved.status \in Statuses
    BY <1>6, <1>10, <2>1 DEF Ended
  <2> QED
    BY <1>8, <1>10, <2>3, <2>4 DEF Ended
<1> QED
  BY <1>9, <1>10

LEMMA InsertEffect ==
    ASSUME IInv, NEW b \in Bufs, NEW start \in Sizes, NEW n \in Sizes, Insert(b, start, n)
    PROVE  Effect(b)
<1> DEFINE want == buf[b].curSize + n
<1>1. start \in Nat /\ n \in Nat /\ buf[b].curSize \in Nat /\ "insert" \in Calls
  BY DBufferAssumption, ContentLimited DEF Calls
<1>2. CASE ~ Check(b)
  BY <1>1, <1>2, StatusKinds, ReturnEffect DEF Insert
<1>3. CASE Check(b) /\ (n > SizeMax \/ start > buf[b].curSize \/ n = 0)
  <2>1. \E st \in {"SSM_SIZETOOLARGE", "SSM_INDEXRANGE", "SSM_OK"} : Return("insert", b, st)
    BY <1>3 DEF Insert
  <2> QED
    BY <1>1, <1>3, <2>1, StatusKinds, ReturnEffect
<1>4. CASE Check(b) /\ ~ (n > SizeMax \/ start > buf[b].curSize \/ n = 0)
  <2>1. PICK r \in AllocOutcomes(b, want, TRUE) :
           Commit("insert", b, want,
                  IF r.status = "SSM_OK" THEN OpenGap(r, start, n) ELSE r)
    BY <1>4 DEF Insert
  <2>2. want \in Nat /\ Limited(want)
    BY <1>1 DEF Insert, Limited
  <2>3. CASE r.status # "SSM_OK"
    <3>1. Commit("insert", b, want, r)
      BY <2>1, <2>3
    <3> HIDE DEF want
    <3> QED
      BY <1>1, <2>1, <2>2, <2>3, <3>1, AllocFails
  <2>4. CASE r.status = "SSM_OK"
    <3> DEFINE g == OpenGap(r, start, n)
    <3>1. Granted(b, want, TRUE, r)
      <4> HIDE DEF want
      <4> QED
        BY <2>1, <2>2, <2>4, AllocSucceeds
    <3>2. r.hdr.curSize = buf[b].curSize
      BY <2>4, <3>1 DEF Granted
    <3>3. start <= r.hdr.curSize /\ want = r.hdr.curSize + n
      BY <1>1, <1>4, <3>2
    <3>4. Commit("insert", b, want, g)
      BY <2>1, <2>4
    <3> HIDE DEF want
    <3>5. Ended(b, g)
      BY <1>1, <2>2, <3>1, <3>3, OpenGapEnds
    <3> HIDE DEF g
    <3> QED
      BY <1>1, <1>4, <2>2, <3>4, <3>5, CommitEffect
  <2> QED
    BY <2>3, <2>4
<1> QED
  BY <1>2, <1>3, <1>4

LEMMA SetRangeEffect ==
    ASSUME IInv, NEW b \in Bufs, NEW start \in Nat, NEW n \in Nat, NEW v \in Values,
           SetRange(b, start, n, v)
    PROVE  Effect(b)
<1> DEFINE h      == buf[b]
           actual == IF start + n > h.curSize THEN h.curSize - start ELSE n
           new    == Fill(heap[h.data], CanarySize + start, actual, v)
           r      == [status |-> IF actual < n THEN "SSM_TRUNCATED" ELSE "SSM_OK",
                      hdr |-> h, heap |-> [heap EXCEPT ![h.data] = new]]
<1>1. "set_range" \in Calls /\ h.curSize \in Nat
  BY ContentLimited DEF Calls
<1>2. CASE start > SizeMax \/ n > SizeMax \/ ~ Check(b)
  <2>1. \E st \in {"SSM_SIZETOOLARGE", "SSM_CORRUPTED"} : Return("set_range", b, st)
    BY <1>2 DEF SetRange
  <2> QED
    BY <1>1, <2>1, StatusKinds, ReturnEffect
<1>3. CASE ~ (start > SizeMax \/ n > SizeMax \/ ~ Check(b)) /\ start >= h.curSize
  <2>1. \E st \in {"SSM_OK", "SSM_TRUNCATED"} : Return("set_range", b, st)
    BY <1>3 DEF SetRange
  <2> QED
    BY <1>1, <1>3, <2>1, StatusKinds, ReturnEffect
<1>4. CASE ~ (start > SizeMax \/ n > SizeMax \/ ~ Check(b)) /\ ~ start >= h.curSize
  <2>1. /\ h.data # NULL /\ h.data \in DOMAIN heap /\ h.data \in Areas
        /\ h.canary1 = LEAD /\ h.canary2 = TRAIL
        /\ Sound(h, heap[h.data])
    BY <1>1, <1>4, Ready
  <2>2. actual \in Nat /\ start + actual <= h.curSize
    BY <1>1, <1>4
  <2>3. v \in Cell
    BY DBufferAssumption DEF Byte, Cell
  <2>4. Sound(h, new)
    <3> HIDE DEF actual, h
    <3> QED
      BY <2>1, <2>2, <2>3, FillSound
  <2>5. Commit("set_range", b, h.curSize, r)
    BY <1>1, <1>4 DEF SetRange
  <2>6. /\ r.hdr = h /\ r.heap = [heap EXCEPT ![h.data] = new]
        /\ r.status \in {"SSM_OK", "SSM_TRUNCATED"} /\ DOMAIN r = {"status", "hdr", "heap"}
    OBVIOUS
  <2> HIDE DEF r, new, actual
  <2>7. Complete(b, r)
    <3>1. /\ DOMAIN r.heap = (DOMAIN heap \ {h.data}) \cup {h.data}
          /\ r.heap[h.data] = new
          /\ \A a \in DOMAIN r.heap \ {h.data} : r.heap[a] = heap[a]
      BY <2>1, <2>6
    <3> QED
      BY <2>1, <2>4, <2>6, <3>1 DEF Complete, Held, Sound
  <2>8. Ended(b, r)
    BY <2>6, <2>7, StatusKinds DEF Ended, Bounded
  <2> QED
    BY <1>1, <1>4, <2>5, <2>8, CommitEffect
<1> QED
  BY <1>2, <1>3, <1>4

LEMMA FreeEffect ==
    ASSUME IInv, NEW b \in Bufs, FreeBuffer(b)
    PROVE  Effect(b)
<1>1. CASE ~ Check(b)
  BY <1>1, StatusKinds, ReturnEffect DEF FreeBuffer, Calls
<1>2. CASE Check(b)
  <2> DEFINE h == [buf[b] EXCEPT !.data = NULL, !.maxSize = 0, !.curSize = 0]
  <2>1. /\ buf' = [buf EXCEPT ![b] = h]
        /\ heap' = [x \in DOMAIN heap \ {buf[b].data} |-> heap[x]]
        /\ last' = [op |-> "free", obj |-> b, want |-> 0, status |-> "SSM_OK"]
        /\ UNCHANGED damaged
    BY <1>2 DEF FreeBuffer, Commit, Report
  <2>2. /\ h \in Structure /\ h.data = NULL /\ h.maxSize = 0 /\ h.curSize = 0
        /\ h.canary1 = LEAD /\ h.canary2 = TRAIL
    BY <1>2, Ready DEF Structure
  <2>3. NULL \notin DOMAIN heap
    BY DBufferAssumption DEF IInv, TypeOK
  <2> HIDE DEF h
  <2>4. Replaces(b, h, heap')
    BY <2>1, <2>2, <2>3 DEF Replaces
  <2>5. Small(h)
    BY <2>2, DBufferAssumption, SizeAssumption DEF Small
  <2>6. last' \in Outcome /\ last'.obj = b /\ last'.status \in Successes
    BY <2>1, StatusKinds DEF Outcome, Calls
  <2> QED
    BY <1>2, <2>1, <2>4, <2>5, <2>6 DEF Effect
<1> QED
  BY <1>1, <1>2

\* Every call on a buffer has one of the two effects.
LEMMA OperationEffect ==
    ASSUME IInv, NEW b \in Bufs, Operation(b)
    PROVE  Effect(b)
<1>1. CASE \E text \in Texts, n \in Sizes : Import(b, text, n)
  BY <1>1, ImportEffect
<1>2. CASE \E text \in Texts, n \in Sizes \cup {SizeMax} : ImportString(b, text, n)
  <2>1. Sizes \cup {SizeMax} \subseteq Nat
    BY DBufferAssumption, SizeAssumption
  <2> QED
    BY <1>2, <2>1, ImportStringEffect
<1>3. CASE \E s \in Bufs \cup {NULL} : Copy(b, s)
  BY <1>3, CopyEffect
<1>4. CASE \E s \in Bufs \cup {NULL} : Concat(b, s)
  BY <1>4, ConcatEffect
<1>5. CASE \E n \in Sizes : Resize(b, n)
  BY <1>5, ResizeEffect
<1>6. CASE \E start, n \in Sizes : Insert(b, start, n)
  BY <1>6, InsertEffect
<1>7. CASE \E start, n \in Sizes, v \in Values : SetRange(b, start, n, v)
  BY <1>7, SetRangeEffect, DBufferAssumption
<1>8. CASE \E v \in Values : SetRange(b, 0, buf[b].curSize, v)
  BY <1>8, ContentLimited, SetRangeEffect
<1>9. CASE FreeBuffer(b)
  BY <1>9, FreeEffect
<1> QED
  BY <1>1, <1>2, <1>3, <1>4, <1>5, <1>6, <1>7, <1>8, <1>9 DEF Operation

-----------------------------------------------------------------------------
(* The invariant.                                                          *)

LEMMA InitInvariant == Init => IInv /\ Bounded
<1> SUFFICES ASSUME Init PROVE IInv /\ Bounded
  OBVIOUS
<1>1. EmptyBuffer \in Structure
  BY DEF EmptyBuffer, Structure, LEAD, TRAIL, Cell
<1>2. \A b \in Bufs : buf[b] = EmptyBuffer
  BY DEF Init
<1>3. last \in Outcome
  BY StatusKinds DEF Init, Outcome, Calls
<1>4. TypeOK
  BY <1>1, <1>3 DEF Init, TypeOK
<1>5. Ownership
  BY <1>2 DEF Init, Ownership, EmptyBuffer
<1>6. InBounds /\ IntactUnlessDamaged /\ DamageStaysVisible
  BY <1>2 DEF Init, InBounds, IntactUnlessDamaged, Intact, DamageStaysVisible, EmptyBuffer
<1>7. Bounded
  BY <1>2, DBufferAssumption, SizeAssumption DEF Bounded, Small, EmptyBuffer
<1> QED
  BY <1>4, <1>5, <1>6, <1>7 DEF IInv

\* A sound pair whose size is in range passes the check, and is intact.
LEMMA SoundIsWhole ==
    ASSUME NEW h, NEW mem, h.canary1 = LEAD, h.canary2 = TRAIL,
           IF h.data = NULL THEN h.maxSize = 0 /\ h.curSize = 0 ELSE Sound(h, mem)
    PROVE  Whole(h, mem)
<1>1. ASSUME Sound(h, mem) PROVE AreaIntact(h, mem)
  BY <1>1, SizeAssumption DEF Sound, Shielded, Structure, AreaIntact
<1> QED
  BY <1>1 DEF Whole

\* Replacing the structure and the area of one buffer leaves every other buffer
\* and its area as they were.
LEMMA OthersKept ==
    ASSUME IInv, NEW b \in Bufs, NEW h, Replaces(b, h, heap'), buf' = [buf EXCEPT ![b] = h],
           NEW c \in Bufs, c # b
    PROVE  /\ buf'[c] = buf[c]
           /\ buf[c].data # NULL =>
                 /\ buf[c].data # h.data /\ buf[c].data \in DOMAIN heap'
                 /\ heap'[buf[c].data] = heap[buf[c].data]
<1>1. buf'[c] = buf[c]
  BY DEF IInv, TypeOK
<1>2. ASSUME buf[c].data # NULL
      PROVE  /\ buf[c].data # h.data /\ buf[c].data \in DOMAIN heap'
             /\ heap'[buf[c].data] = heap[buf[c].data]
  <2>1. buf[c].data \in DOMAIN heap /\ buf[c].data # buf[b].data
    BY <1>2, OtherAreas
  <2> QED
    BY <1>2, <2>1 DEF Replaces
<1> QED
  BY <1>1, <1>2

\* The check of a buffer only looks at its structure and at its area.
LEMMA CheckKept ==
    ASSUME NEW c \in Bufs, buf'[c] = buf[c],
           buf[c].data # NULL => heap'[buf[c].data] = heap[buf[c].data]
    PROVE  (Check(c)' <=> Check(c)) /\ (Intact(c)' <=> Intact(c))
  BY CheckIsInOrder DEF InOrder, Whole

\* A call keeps the invariant.
LEMMA EffectKeepsInvariant ==
    ASSUME IInv, NEW b \in Bufs, Effect(b) PROVE IInv'
<1>1. CASE UNCHANGED <<buf, heap>>
  <2>1. \A c \in Bufs : (Check(c)' <=> Check(c)) /\ (Intact(c)' <=> Intact(c))
    BY <1>1, CheckKept
  <2>2. damaged' = damaged /\ last' \in Outcome /\ damaged \subseteq Bufs
    BY DEF Effect, IInv, TypeOK
  <2>3. TypeOK' /\ Ownership' /\ InBounds'
    BY <1>1, <2>2 DEF IInv, TypeOK, Ownership, InBounds
  <2>4. IntactUnlessDamaged' /\ DamageStaysVisible'
    BY <2>1, <2>2 DEF IInv, IntactUnlessDamaged, DamageStaysVisible
  <2> QED
    BY <2>3, <2>4 DEF IInv
<1>2. ASSUME Check(b), NEW h, buf' = [buf EXCEPT ![b] = h], Replaces(b, h, heap')
      PROVE  IInv'
  <2>1. b \notin damaged /\ damaged' = damaged /\ last' \in Outcome /\ damaged \subseteq Bufs
    BY <1>2 DEF IInv, TypeOK, DamageStaysVisible, Effect
  <2>2. DOMAIN buf = Bufs /\ DOMAIN buf' = Bufs /\ buf'[b] = h
    BY <1>2 DEF IInv, TypeOK
  <2>3. \A c \in Bufs \ {b} :
           /\ buf'[c] = buf[c]
           /\ buf[c].data # NULL =>
                 /\ buf[c].data # h.data /\ buf[c].data \in DOMAIN heap'
                 /\ heap'[buf[c].data] = heap[buf[c].data]
    <3> SUFFICES ASSUME NEW c \in Bufs, c # b
                 PROVE  /\ buf'[c] = buf[c]
                        /\ buf[c].data # NULL =>
                              /\ buf[c].data # h.data /\ buf[c].data \in DOMAIN heap'
                              /\ heap'[buf[c].data] = heap[buf[c].data]
      OBVIOUS
    <3> QED
      BY <1>2, OthersKept
  <2>4. h \in Structure /\ h.data \in Areas \cup {NULL} /\ NULL \notin Areas
    <3>1. h \in Structure
      BY <1>2 DEF Replaces
    <3> QED
      BY <3>1, DBufferAssumption DEF Structure
  <2>5. TypeOK'
    <3>1. buf' \in [Bufs -> Structure]
      BY <1>2, <2>4 DEF IInv, TypeOK
    <3>2. DOMAIN heap' \subseteq Areas
      BY <1>2, <2>4 DEF Replaces, IInv, TypeOK
    <3> QED
      BY <2>1, <3>1, <3>2 DEF TypeOK
  <2>6. Ownership'
    <3>1. ASSUME NEW c \in Bufs, NEW d \in Bufs, buf'[c].data = buf'[d].data,
                 buf'[c].data # NULL
          PROVE  c = d
      BY <2>2, <2>3, <3>1 DEF IInv, Ownership
    <3>2. ASSUME NEW c \in Bufs, buf'[c].data # NULL PROVE buf'[c].data \in DOMAIN heap'
      BY <1>2, <2>2, <2>3, <3>2 DEF Replaces
    <3>3. ASSUME NEW a \in DOMAIN heap' PROVE a # NULL /\ \E c \in Bufs : buf'[c].data = a
      <4>1. CASE a = h.data
        BY <1>2, <2>2, <3>3, <4>1, <2>4, <2>5 DEF TypeOK
      <4>2. CASE a # h.data
        <5>1. a \in DOMAIN heap /\ a # buf[b].data
          BY <1>2, <3>3, <4>2 DEF Replaces
        <5>2. PICK c \in Bufs : buf[c].data = a /\ a # NULL
          BY <5>1 DEF IInv, Ownership
        <5> QED
          BY <2>3, <5>1, <5>2
      <4> QED
        BY <4>1, <4>2
    <3>4. DOMAIN heap' = {buf'[c].data : c \in Bufs} \ {NULL}
      BY <3>2, <3>3
    <3> QED
      BY <3>1, <3>4 DEF Ownership
  <2>7. InBounds'
    <3>1. ASSUME NEW c \in Bufs, buf'[c].data # NULL
          PROVE  /\ heap'[buf'[c].data] \in [0 .. buf'[c].maxSize - 1 -> Cell]
                 /\ buf'[c].curSize < buf'[c].maxSize - 2 * CanarySize
      <4>1. CASE c = b
        BY <1>2, <2>2, <3>1, <4>1 DEF Replaces, Sound, Shielded
      <4>2. CASE c # b
        BY <2>3, <3>1, <4>2 DEF IInv, InBounds
      <4> QED
        BY <4>1, <4>2
    <3> QED
      BY <3>1 DEF InBounds
  <2>8. \A c \in Bufs \ {b} : (Check(c)' <=> Check(c)) /\ (Intact(c)' <=> Intact(c))
    BY <2>3, CheckKept
  <2>9. Intact(b)'
    <3>1. Whole(h, heap'[h.data])
      BY <1>2, SoundIsWhole DEF Replaces
    <3> QED
      BY <2>2, <3>1, CheckIsInOrder
  <2>10. IntactUnlessDamaged'
    BY <2>1, <2>8, <2>9 DEF IInv, IntactUnlessDamaged
  <2>11. DamageStaysVisible'
    BY <2>1, <2>8 DEF IInv, DamageStaysVisible
  <2> QED
    BY <2>5, <2>6, <2>7, <2>10, <2>11 DEF IInv
<1> QED
  BY <1>1, <1>2 DEF Effect

\* What an overrun does: it spoils what the check looks at, and nothing else.
Spoils(b) ==
    /\ b \notin damaged /\ damaged' = damaged \cup {b}
    /\ last' \in Outcome /\ last'.obj = b /\ last'.status = "SSM_OK"
    /\ buf' \in [Bufs -> Structure]
    /\ \A c \in Bufs \ {b} : buf'[c] = buf[c]
    /\ buf'[b].data = buf[b].data
    /\ buf'[b].maxSize = buf[b].maxSize /\ buf'[b].curSize = buf[b].curSize
    /\ DOMAIN heap' = DOMAIN heap
    /\ \A a \in DOMAIN heap \ {buf[b].data} : heap'[a] = heap[a]
    /\ buf[b].data # NULL =>
          heap'[buf[b].data] \in [0 .. buf[b].maxSize - 1 -> Cell]
    /\ ~ Check(b)'

LEMMA OverrunSpoils ==
    ASSUME IInv, NEW b \in Bufs, Overrun(b) PROVE Spoils(b)
<1> DEFINE h == buf[b]
<1>1. /\ h \in Structure /\ h.maxSize \in Nat /\ h.curSize \in Nat /\ CanarySize \in Nat
      /\ buf \in [Bufs -> Structure]
  BY SizeAssumption DEF IInv, TypeOK, Structure
<1>2. h.data # NULL =>
         /\ h.data \in DOMAIN heap /\ heap[h.data] \in [0 .. h.maxSize - 1 -> Cell]
         /\ h.curSize < h.maxSize - 2 * CanarySize
  BY DEF IInv, Ownership, InBounds
<1>3. /\ b \notin damaged /\ damaged' = damaged \cup {b}
      /\ last' \in Outcome /\ last'.obj = b /\ last'.status = "SSM_OK"
  BY StatusKinds DEF Overrun, OverrunArea, OverrunStructure, Report, Outcome, Calls
<1>4. /\ Spoilt \in Cell /\ Spoilt # NUL /\ Spoilt # TRAIL /\ Spoilt # LEAD
  BY DEF Spoilt, Cell, NUL, TRAIL, LEAD
<1>5. ASSUME OverrunArea(b) PROVE Spoils(b)
  <2>1. h.data # NULL /\ buf' = buf
    BY <1>5 DEF OverrunArea
  <2>2. PICK i \in GuardCells(h) :
           heap' = [heap EXCEPT ![h.data] = Fill(heap[h.data], i, 1, Spoilt)]
    BY <1>5 DEF OverrunArea
  <2> DEFINE m   == h.maxSize - 1
             new == Fill(heap[h.data], i, 1, Spoilt)
  <2>3. /\ m \in Nat /\ i \in Nat /\ i + 1 <= m + 1 /\ 1 \in Nat /\ i \in i .. i + 1 - 1
        /\ i \in 0 .. m /\ heap[h.data] \in [0 .. m -> Cell]
    BY <1>1, <1>2, <2>1 DEF GuardCells
  <2> HIDE DEF m
  <2>4. new \in [0 .. m -> Cell] /\ Filled(new, i, 1, Spoilt)
    BY <1>4, <2>3, FillInside
  <2>5. Load(new, i) = Spoilt
    BY <2>3, <2>4 DEF Filled, Load
  <2> HIDE DEF new
  <2>6. ~ AreaIntact(h, new)
    <3>1. CASE i \in 0 .. CanarySize - 1
      <4>1. i \in 0 .. 0 + CanarySize - 1
        BY <1>1, <3>1
      <4> QED
        BY <1>4, <2>5, <4>1 DEF AreaIntact, Holds
    <3>2. CASE i = CanarySize + h.curSize
      BY <1>4, <2>5, <3>2 DEF AreaIntact
    <3>3. CASE i \in h.maxSize - CanarySize .. h.maxSize - 1
      <4>1. i \in h.maxSize - CanarySize .. h.maxSize - CanarySize + CanarySize - 1
        BY <1>1, <3>3
      <4> QED
        BY <1>4, <2>5, <4>1 DEF AreaIntact, Holds
    <3> QED
      BY <2>2, <3>1, <3>2, <3>3 DEF GuardCells
  <2>7. /\ DOMAIN heap' = DOMAIN heap /\ heap'[h.data] = new
        /\ \A a \in DOMAIN heap \ {h.data} : heap'[a] = heap[a]
    BY <1>2, <2>1, <2>2 DEF new
  <2>8. ~ Check(b)'
    BY <2>1, <2>6, <2>7, CheckIsInOrder DEF InOrder
  <2> QED
    BY <1>1, <1>3, <2>1, <2>4, <2>7, <2>8 DEF Spoils, m
<1>6. ASSUME OverrunStructure(b) PROVE Spoils(b)
  <2>1. /\ heap' = heap /\ CanarySize > 0
        /\ \/ buf' = [buf EXCEPT ![b].canary1 = Spoilt]
           \/ buf' = [buf EXCEPT ![b].canary2 = Spoilt]
    BY <1>6 DEF OverrunStructure
  <2>2. /\ buf' \in [Bufs -> Structure]
        /\ \A c \in Bufs \ {b} : buf'[c] = buf[c]
        /\ buf'[b].data = h.data /\ buf'[b].maxSize = h.maxSize /\ buf'[b].curSize = h.curSize
        /\ buf'[b].canary1 = Spoilt \/ buf'[b].canary2 = Spoilt
    BY <1>1, <1>4, <2>1 DEF Structure
  <2>3. ~ Check(b)'
    BY <1>4, <2>1, <2>2, CheckIsInOrder DEF InOrder
  <2> QED
    BY <1>2, <1>3, <2>1, <2>2, <2>3 DEF Spoils
<1> QED
  BY <1>5, <1>6 DEF Overrun

\* An overrun keeps the invariant.
LEMMA SpoilsKeepsInvariant ==
    ASSUME IInv, NEW b \in Bufs, Spoils(b) PROVE IInv'
<1>1. damaged \subseteq Bufs /\ damaged' = damaged \cup {b} /\ ~ Check(b)'
  BY DEF IInv, TypeOK, Spoils
<1>2. \A c \in Bufs : /\ buf'[c].data = buf[c].data /\ buf'[c].maxSize = buf[c].maxSize
                      /\ buf'[c].curSize = buf[c].curSize
  BY DEF Spoils
<1>3. \A c \in Bufs \ {b} :
         buf'[c] = buf[c] /\ (buf[c].data # NULL => heap'[buf[c].data] = heap[buf[c].data])
  BY OtherAreas DEF Spoils
<1>4. TypeOK'
  BY <1>1 DEF IInv, TypeOK, Spoils
<1>5. Ownership'
  BY <1>2 DEF IInv, Ownership, Spoils
<1>6. InBounds'
  <2> SUFFICES ASSUME NEW c \in Bufs, buf'[c].data # NULL
               PROVE  /\ heap'[buf'[c].data] \in [0 .. buf'[c].maxSize - 1 -> Cell]
                      /\ buf'[c].curSize < buf'[c].maxSize - 2 * CanarySize
    BY DEF InBounds
  <2>1. CASE c = b
    BY <1>2, <2>1 DEF IInv, InBounds, Spoils
  <2>2. CASE c # b
    BY <1>3, <2>2 DEF IInv, InBounds
  <2> QED
    BY <2>1, <2>2
<1>7. \A c \in Bufs \ {b} : (Check(c)' <=> Check(c)) /\ (Intact(c)' <=> Intact(c))
  BY <1>3, CheckKept
<1>8. IntactUnlessDamaged' /\ DamageStaysVisible'
  BY <1>1, <1>7 DEF IInv, IntactUnlessDamaged, DamageStaysVisible
<1> QED
  BY <1>4, <1>5, <1>6, <1>8 DEF IInv

LEMMA NullObjectOutcome ==
    ASSUME NullObject
    PROVE  UNCHANGED <<buf, heap, damaged>> /\ last' \in Outcome /\ last'.obj = NULL
  BY StatusKinds DEF NullObject, Return, Report, Outcome, Calls

\* A step is a call on a buffer, an overrun, or changes no buffer.
LEMMA StepKinds ==
    ASSUME IInv, [Next]_vars
    PROVE  \/ \E b \in Bufs : Effect(b)
           \/ \E b \in Bufs : Spoils(b)
           \/ UNCHANGED <<buf, heap, damaged>> /\ last' \in Outcome /\ last'.obj = NULL
           \/ UNCHANGED vars
  BY OperationEffect, OverrunSpoils, NullObjectOutcome DEF Next, vars

LEMMA StepInvariant == IInv /\ [Next]_vars => IInv'
<1> SUFFICES ASSUME IInv, [Next]_vars PROVE IInv'
  OBVIOUS
<1>1. CASE \E b \in Bufs : Effect(b)
  BY <1>1, EffectKeepsInvariant
<1>2. CASE \E b \in Bufs : Spoils(b)
  BY <1>2, SpoilsKeepsInvariant
<1>3. CASE UNCHANGED <<buf, heap, damaged>> /\ (last' \in Outcome \/ last' = last)
  <2>1. \A c \in Bufs : (Check(c)' <=> Check(c)) /\ (Intact(c)' <=> Intact(c))
    BY <1>3, CheckKept
  <2> QED
    BY <1>3, <2>1 DEF IInv, TypeOK, Ownership, InBounds, IntactUnlessDamaged, DamageStaysVisible
<1> QED
  BY <1>1, <1>2, <1>3, StepKinds DEF vars

LEMMA Invariant == Spec => []IInv
<1>1. Init => IInv
  BY InitInvariant
<1> QED
  BY <1>1, StepInvariant, PTL DEF Spec

\* With small requests the sizes stay in range.
LEMMA StepBounded ==
    ASSUME SmallRequests, IInv, Bounded, [Next]_vars PROVE Bounded'
<1>1. buf \in [Bufs -> Structure]
  BY DEF IInv, TypeOK
<1>2. ASSUME NEW b \in Bufs, Effect(b) PROVE Bounded'
  BY <1>1, <1>2 DEF Effect, Bounded, Small
<1>3. ASSUME NEW b \in Bufs, Spoils(b) PROVE Bounded'
  <2>1. \A c \in Bufs : buf'[c].maxSize = buf[c].maxSize /\ buf'[c].curSize = buf[c].curSize
    BY <1>3 DEF Spoils
  <2> QED
    BY <2>1 DEF Bounded, Small
<1>4. CASE UNCHANGED buf
  BY <1>4 DEF Bounded, Small
<1> QED
  BY <1>2, <1>3, <1>4, StepKinds DEF vars

LEMMA BoundedInvariant == ASSUME SmallRequests PROVE Spec => [](IInv /\ Bounded)
<1>1. IInv /\ Bounded /\ [Next]_vars => (IInv /\ Bounded)'
  BY StepInvariant, StepBounded
<1> QED
  BY <1>1, InitInvariant, PTL DEF Spec

-----------------------------------------------------------------------------
(* The theorems.                                                           *)

\* No call makes a structure, the heap or the status anything but what its type
\* says: sizes and lengths never become negative, pointers are null or point to
\* what malloc() returned.
THEOREM TypeCorrect == Spec => []TypeOK
<1>1. IInv => TypeOK
  BY DEF IInv
<1> QED
  BY <1>1, Invariant, PTL

\* No area is leaked, freed twice or shared by two buffers, and no buffer points
\* to a freed one, whatever allocation fails and whatever buffer is overrun.
THEOREM NeitherLeaksNorDangles == Spec => []Ownership
<1>1. IInv => Ownership
  BY DEF IInv
<1> QED
  BY <1>1, Invariant, PTL

\* No call stores or loads outside an area.
THEOREM StaysInBounds == Spec => []InBounds
<1>1. IInv => InBounds
  BY DEF IInv
<1> QED
  BY <1>1, Invariant, PTL

\* A buffer the application has not overrun has its canaries and its terminator
\* in place after any sequence of calls, whatever their outcome.
THEOREM LeavesBuffersSound == Spec => []IntactUnlessDamaged
<1>1. IInv => IntactUnlessDamaged
  BY DEF IInv
<1> QED
  BY <1>1, Invariant, PTL

\* _ssm_dbuffer_check() rejects for ever a buffer that has been overrun.
THEOREM NeverHealsADamagedBuffer == Spec => []DamageStaysVisible
<1>1. IInv => DamageStaysVisible
  BY DEF IInv
<1> QED
  BY <1>1, Invariant, PTL

\* It accepts every other one, as long as what the application asks for stays
\* below half of SSM_SIZE_MAX: beyond, the doubling of _ssm_alloc_size() gives
\* areas larger than the check accepts.
THEOREM NeverAccusesASoundBuffer == ASSUME SmallRequests PROVE Spec => []NoFalseAlarm
<1>1. IInv /\ Bounded => NoFalseAlarm
  <2> SUFFICES ASSUME IInv, Bounded, NEW b \in Bufs \ damaged PROVE Check(b)
    BY DEF NoFalseAlarm
  <2>1. Intact(b) /\ Small(buf[b])
    BY DEF IInv, IntactUnlessDamaged, Bounded
  <2> QED
    BY <2>1 DEF Intact, Check, Small
<1> QED
  BY <1>1, BoundedInvariant, PTL

\* With the same restriction a call that reports an error has changed no buffer
\* and has allocated and freed nothing.
THEOREM ErrorsChangeNothing == ASSUME SmallRequests PROVE Spec => ErrorChangesNothing
<1> DEFINE A == last'.status \notin Successes => UNCHANGED <<buf, heap>>
<1>1. IInv /\ Bounded /\ [Next]_vars => [A]_vars
  <2> SUFFICES ASSUME IInv, Bounded, [Next]_vars, ~ UNCHANGED vars, last'.status \notin Successes
               PROVE  UNCHANGED <<buf, heap>>
    OBVIOUS
  <2>1. ASSUME NEW b \in Bufs, Effect(b) PROVE UNCHANGED <<buf, heap>>
    BY <2>1 DEF Effect
  <2>2. ASSUME NEW b \in Bufs, Spoils(b) PROVE FALSE
    BY <2>2, StatusKinds DEF Spoils
  <2> QED
    BY <2>1, <2>2, StepKinds
<1> QED
  BY <1>1, BoundedInvariant, PTL DEF Spec, ErrorChangesNothing

\* No call touches, frees or replaces an overrun buffer or its area, and one
\* that names it reports the corruption.
THEOREM LeavesDamagedAlone == Spec => DamagedIsLeftAlone
<1> DEFINE A == \A b \in damaged :
                  /\ buf'[b] = buf[b]
                  /\ buf[b].data # NULL =>
                        buf[b].data \in DOMAIN heap' /\ heap'[buf[b].data] = heap[buf[b].data]
                  /\ last'.obj = b => last'.status \in {"SSM_CORRUPTED", "SSM_SIZETOOLARGE"}
<1>1. IInv /\ [Next]_vars => [A]_vars
  <2> DEFINE Left(b) ==
                /\ buf'[b] = buf[b]
                /\ buf[b].data # NULL =>
                      buf[b].data \in DOMAIN heap' /\ heap'[buf[b].data] = heap[buf[b].data]
             Reported(b) ==
                last'.obj = b => last'.status \in {"SSM_CORRUPTED", "SSM_SIZETOOLARGE"}
  <2> SUFFICES ASSUME IInv, [Next]_vars, ~ UNCHANGED vars, NEW b \in damaged
               PROVE  Left(b) /\ Reported(b)
    OBVIOUS
  <2>1. b \in Bufs /\ b # NULL /\ ~ Check(b) /\ (buf[b].data # NULL => buf[b].data \in DOMAIN heap)
    BY DBufferAssumption DEF IInv, TypeOK, Ownership, DamageStaysVisible
  <2>2. UNCHANGED <<buf, heap>> => Left(b)
    BY <2>1
  <2>3. ASSUME NEW c \in Bufs, Effect(c), c = b PROVE Left(b) /\ Reported(b)
    BY <2>1, <2>2, <2>3 DEF Effect
  <2>4. ASSUME NEW c \in Bufs, Effect(c), c # b PROVE Left(b) /\ Reported(b)
    <3>1. Reported(b)
      BY <2>4 DEF Effect
    <3>2. ASSUME NEW h, buf' = [buf EXCEPT ![c] = h], Replaces(c, h, heap') PROVE Left(b)
      BY <2>1, <2>4, <3>2, OthersKept
    <3> QED
      BY <2>2, <2>4, <3>1, <3>2 DEF Effect
  <2>5. ASSUME NEW c \in Bufs, Spoils(c) PROVE Left(b) /\ Reported(b)
    <3>1. c # b
      BY <2>5 DEF Spoils
    <3>2. buf[b].data # NULL => buf[b].data # buf[c].data
      BY <2>1, <3>1, OtherAreas
    <3> QED
      BY <2>1, <2>5, <3>1, <3>2 DEF Spoils
  <2> QED
    BY <2>1, <2>2, <2>3, <2>4, <2>5, StepKinds
<1> QED
  BY <1>1, Invariant, PTL DEF Spec, DamagedIsLeftAlone

\* The address and the length of a buffer show a string: of an overrun one too,
\* since the build with canaries shows an empty string in its place.
THEOREM ShowsAStringAlways == Spec => []ShowsAString
<1>1. IInv => ShowsAString
  <2> SUFFICES ASSUME IInv, NEW b \in Bufs, CanarySize > 0 \/ b \notin damaged
               PROVE  /\ 0 .. ShownLength(b) \subseteq DOMAIN ShownBytes(b)
                      /\ ShownBytes(b)[ShownLength(b)] = NUL
    BY DEF ShowsAString
  <2> DEFINE h == buf[b]
  <2>1. h.curSize \in Nat /\ h.maxSize \in Nat /\ CanarySize \in Nat
    BY SizeAssumption DEF IInv, TypeOK, Structure
  <2>2. CASE Hidden(b)
    BY <2>2 DEF ShownLength, ShownBytes
  <2>3. CASE ~ Hidden(b) /\ h.data = NULL
    <3>1. Check(b) \/ b \notin damaged
      BY <2>1, <2>3 DEF Hidden
    <3>2. h.curSize = 0
      BY <2>3, <3>1 DEF Check, IInv, IntactUnlessDamaged, Intact
    <3> QED
      BY <2>3, <3>2 DEF ShownLength, ShownBytes
  <2>4. CASE ~ Hidden(b) /\ h.data # NULL
    <3> DEFINE area  == heap[h.data]
               last0 == h.maxSize - CanarySize - 1
               shown == [i \in 0 .. last0 |-> area[CanarySize + i]]
    <3>1. Check(b) \/ b \notin damaged
      BY <2>1, <2>4 DEF Hidden
    <3>2. AreaIntact(h, area)
      BY <2>4, <3>1 DEF Check, IInv, IntactUnlessDamaged, Intact
    <3>3. area \in [0 .. h.maxSize - 1 -> Cell] /\ h.curSize < h.maxSize - 2 * CanarySize
      BY <2>4 DEF IInv, InBounds
    <3>4. h.curSize \in 0 .. last0 /\ CanarySize + h.curSize \in 0 .. h.maxSize - 1
      <4>1. h.curSize < h.maxSize - 2 * CanarySize
        BY <3>3
      <4> HIDE DEF h, area
      <4> QED
        BY <2>1, <4>1
    <3>5. area[CanarySize + h.curSize] = NUL
      BY <3>2, <3>3, <3>4 DEF AreaIntact, Load
    <3>6. ShownBytes(b) = shown /\ ShownLength(b) = h.curSize
      BY <2>4 DEF ShownBytes, ShownLength
    <3>7. shown[h.curSize] = NUL /\ 0 .. h.curSize \subseteq DOMAIN shown
      BY <2>1, <3>4, <3>5
    <3> QED
      BY <3>6, <3>7
  <2> QED
    BY <2>2, <2>3, <2>4
<1> QED
  BY <1>1, Invariant, PTL

=============================================================================
