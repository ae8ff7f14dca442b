------------------------- MODULE SBufferRefinement -------------------------
(***************************************************************************)
(* Static buffers and strings implement BoundedObject, for every set of     *)
(* buffers, every capacity, every size of a canary, every text and every    *)
(* argument.                                                               *)
(*                                                                         *)
(* The argument: the area of a sound buffer from its start to its length    *)
(* is a sequence of at most Capacity bytes (ContentOf), which setting up    *)
(* the canaries keeps, and which ssm_copy(), ssm_set() and the store of the *)
(* length and terminator change as the abstract operations say.  The checks *)
(* tell exactly the damaged buffers, by the invariant of SBufferProofs.     *)
(***************************************************************************)
EXTENDS SBufferProofs, SequenceTheorems

\* The sequence of bytes a structure holds
ContentOf(h) == [i \in 1 .. h.curSize |-> Load(h.data, i - 1)]

Contents == [b \in Bufs |-> Content(b)]

\* new is old from its start to n
SameStart(new, old, n) == \A i \in 0 .. n - 1 : new[i] = old[i]

\* mem starts with the n first bytes of v
Starts(v, mem, n) == \A i \in 1 .. n : v[i] = mem[i - 1]

\* The n bytes of v after the at first ones are those of src from position from
Continues(v, at, src, from, n) == \A i \in 1 .. n : v[at + i] = src[from + (i - 1)]

\* g is the structure h of b with the n bytes of src from position from on put at
\* position at, as many as fit
Receives(g, b, h, at, src, from, n) ==
    /\ g \in Structure(b) /\ Capacity[b] \in Nat
    /\ g.curSize = IF at + n <= Capacity[b] THEN at + n ELSE Capacity[b]
    /\ SameStart(g.data, h.data, at)
    /\ HasCopy(g.data, at, src, from, g.curSize - at)

\* What a call that wants the length n reports
Reported(b, n) == IF n <= Capacity[b] THEN "SSM_OK" ELSE "SSM_TRUNCATED"

\* v is a sequence of n bytes, the ones mem starts with
Shows(v, mem, n) == v \in Seq(Cell) /\ Len(v) = n /\ Starts(v, mem, n)

-----------------------------------------------------------------------------
(* Sequences.                                                              *)

LEMMA FunctionIsSeq ==
    ASSUME NEW S, NEW n \in Nat, NEW f \in [1 .. n -> S]
    PROVE  f \in Seq(S) /\ Len(f) = n
  OBVIOUS

\* The n first bytes of an area are a sequence.
LEMMA StartShows ==
    ASSUME NEW mem, NEW n \in Nat, Readable(mem, 0, n)
    PROVE  Shows([i \in 1 .. n |-> mem[i - 1]], mem, n)
<1> DEFINE f == [i \in 1 .. n |-> mem[i - 1]]
<1>1. ASSUME NEW i \in 1 .. n PROVE mem[i - 1] \in Cell
  <2>1. i - 1 \in 0 .. 0 + n - 1
    OBVIOUS
  <2> QED
    BY <2>1 DEF Readable
<1>2. f \in [1 .. n -> Cell]
  BY <1>1
<1>3. \A i \in 1 .. n : f[i] = mem[i - 1]
  OBVIOUS
<1> HIDE DEF f
<1>4. Shows(f, mem, n)
  BY <1>2, <1>3, FunctionIsSeq DEF Shows, Starts
<1> QED
  BY <1>4 DEF f

\* The content of a structure is the part of its area before the terminator.
LEMMA ContentShows ==
    ASSUME NEW b \in Bufs, NEW h \in Structure(b)
    PROVE  Shows(ContentOf(h), h.data, h.curSize)
<1>1. /\ h.curSize \in Nat /\ h.curSize \in 0 .. Capacity[b] /\ Capacity[b] \in Nat
      /\ h.data \in [0 .. Capacity[b] + CanarySize -> Cell]
  BY SBufferAssumption DEF Structure
<1>2. Readable(h.data, 0, h.curSize)
  BY <1>1, ContentReadable
<1>3. ASSUME NEW i \in 1 .. h.curSize PROVE Load(h.data, i - 1) = h.data[i - 1]
  <2>1. i - 1 \in 0 .. Capacity[b] + CanarySize
    BY <1>1, SizeAssumption
  <2> QED
    BY <1>1, <2>1 DEF Load
<1>4. ContentOf(h) = [i \in 1 .. h.curSize |-> h.data[i - 1]]
  BY <1>3 DEF ContentOf
<1> QED
  BY <1>1, <1>2, <1>4, StartShows

\* Two sequences that show the same bytes are equal.
LEMMA ShowsTheSame ==
    ASSUME NEW n \in Nat, NEW v, NEW w, NEW mem, NEW other,
           Shows(v, mem, n), Shows(w, other, n), SameStart(mem, other, n)
    PROVE  v = w
<1>1. ASSUME NEW i \in 1 .. n PROVE v[i] = w[i]
  <2>1. i - 1 \in 0 .. n - 1
    OBVIOUS
  <2> QED
    BY <2>1 DEF Shows, Starts, SameStart
<1> QED
  BY <1>1, SeqEqual DEF Shows

-----------------------------------------------------------------------------
(* The contents before and after a call.                                   *)

LEMMA ContentsAre ==
    ASSUME NEW b \in Bufs
    PROVE  /\ Contents[b] = ContentOf(buf[b])
           /\ Contents = [c \in Bufs |-> ContentOf(buf[c])]
           /\ Contents' = [c \in Bufs |-> ContentOf(buf'[c])]
  BY DEF Contents, Content, ContentOf

\* A call on one buffer changes one content.
LEMMA OneContentChanges ==
    ASSUME TypeOK, NEW b \in Bufs, NEW h, buf' = [buf EXCEPT ![b] = h]
    PROVE  Contents' = [Contents EXCEPT ![b] = ContentOf(h)]
<1>1. buf'[b] = h /\ \A c \in Bufs \ {b} : buf'[c] = buf[c]
  BY DEF TypeOK
<1> QED
  BY <1>1, ContentsAre

\* Setting up the canaries keeps the content.
LEMMA CheckedOutContent ==
    ASSUME TypeOK, NEW b \in Bufs, Check(b)
    PROVE  ContentOf(CheckedOut(b)) = Contents[b]
<1> DEFINE h == CheckedOut(b)
           n == h.curSize
<1>1. /\ h \in Structure(b) /\ buf[b] \in Structure(b)
      /\ buf[b].curSize = n /\ n \in 0 .. Capacity[b] /\ Capacity[b] \in Nat
      /\ \A i \in 0 .. Capacity[b] : h.data[i] = buf[b].data[i]
  BY CheckedOutSound, Ready DEF Sound, Shielded, TypeOK
<1> HIDE DEF h
<1>2. SameStart(h.data, buf[b].data, n)
  BY <1>1 DEF SameStart
<1>3. Shows(ContentOf(h), h.data, n) /\ Shows(ContentOf(buf[b]), buf[b].data, n)
  BY <1>1, ContentShows
<1>4. ContentOf(h) = ContentOf(buf[b])
  BY <1>1, <1>2, <1>3, ShowsTheSame
<1> QED
  BY <1>4, ContentsAre DEF h

-----------------------------------------------------------------------------
(* How the calls end, on the contents.                                     *)

\* A call that reports an error keeps the contents.
LEMMA RefusedKeepsContents ==
    ASSUME NEW op, NEW b, NEW n, NEW st, Return(op, b, n, st)
    PROVE  Abstract!Unchanged(op, b, last'.want, st)
<1>1. Contents' = Contents
  BY ContentsAre DEF Return, Contents, Content
<1> QED
  BY <1>1 DEF Return, Abstract!Unchanged, Abstract!Outcome, Contents

LEMMA KeptKeepsContents ==
    ASSUME TypeOK, NEW op, NEW b \in Bufs, Check(b), NEW n, NEW st,
           Commit(op, b, n, CheckedOut(b), st)
    PROVE  Abstract!Unchanged(op, b, last'.want, st)
<1>1. Contents' = [Contents EXCEPT ![b] = Contents[b]]
  BY OneContentChanges, CheckedOutContent DEF Commit
<1>2. Contents' = Contents
  BY <1>1 DEF Contents
<1> QED
  BY <1>2 DEF Commit, Abstract!Unchanged, Abstract!Outcome, Contents

\* A call that gives a buffer the value v, or what fits of it.
LEMMA CommitBecomes ==
    ASSUME IInv, NEW op, NEW b \in Bufs, Check(b), NEW g \in Structure(b), NEW v \in Seq(Cell),
           Starts(v, g.data, g.curSize),
           g.curSize = IF Len(v) <= Capacity[b] THEN Len(v) ELSE Capacity[b],
           Commit(op, b, Len(v), g, Reported(b, Len(v)))
    PROVE  Abstract!Becomes(op, b, v)
<1> DEFINE c == Capacity[b]
           n == g.curSize
<1>1. c \in Nat /\ n \in Nat /\ Len(v) \in Nat /\ n <= Len(v)
  BY SBufferAssumption, LenProperties DEF Structure
<1>2. Shows(ContentOf(g), g.data, n)
  BY ContentShows
<1>3. ASSUME NEW i \in 1 .. n PROVE ContentOf(g)[i] = v[i] /\ v[i] \in Cell
  <2>1. i - 1 \in 0 .. n - 1 /\ i - 1 \in 0 .. Len(v) - 1 /\ i - 1 + 1 = i /\ i \in 1 .. Len(v)
    BY <1>1
  <2>2. g.data[i - 1] = v[i]
    BY <2>1 DEF Starts
  <2> QED
    BY <1>2, <2>1, <2>2, ElementOfSeq DEF Shows, Starts
<1>4. ContentOf(g) = Abstract!Cut(b, v)
  <2>1. CASE Len(v) <= c
    BY <1>2, <1>3, <2>1, SeqEqual DEF Abstract!Cut, Abstract!Fits, Shows
  <2>2. CASE ~ Len(v) <= c
    <3>1. n = c /\ \A i \in 1 .. c : v[i] \in Cell
      BY <1>3, <2>2
    <3>2. /\ SubSeq(v, 1, c) \in Seq(Cell) /\ Len(SubSeq(v, 1, c)) = c
          /\ \A i \in 1 .. c : SubSeq(v, 1, c)[i] = v[i]
      BY <1>1, <3>1, SubSeqProperties
    <3>3. ContentOf(g) = SubSeq(v, 1, c)
      BY <1>2, <1>3, <3>1, <3>2, SeqEqual DEF Shows
    <3> QED
      BY <2>2, <3>3 DEF Abstract!Cut, Abstract!Fits
  <2> QED
    BY <2>1, <2>2
<1>5. Contents' = [Contents EXCEPT ![b] = Abstract!Cut(b, v)]
  BY <1>4, OneContentChanges DEF IInv, Commit
<1>6. b \notin damaged
  BY DEF IInv, DamageStaysVisible
<1> QED
  BY <1>5, <1>6
     DEF Commit, Abstract!Becomes, Abstract!Outcome, Abstract!Fits, Contents, Reported

-----------------------------------------------------------------------------
(* What the operations make of a structure.                                *)

\* A structure that is given a length and a terminator.
LEMMA TerminatedStructure ==
    ASSUME NEW b \in Bufs, NEW h, Shielded(h, b), NEW n \in 0 .. Capacity[b]
    PROVE  /\ Sound(Terminate(h, n), b) /\ Terminate(h, n) \in Structure(b)
           /\ Terminate(h, n).curSize = n
           /\ SameStart(Terminate(h, n).data, h.data, n)
<1> DEFINE m == Capacity[b] + CanarySize
           new == Fill(h.data, n, 1, NUL)
<1>1. /\ h \in Structure(b) /\ h.data \in [0 .. m -> Cell] /\ m \in Nat
      /\ Capacity[b] \in Nat /\ Capacity[b] <= m
  BY SBufferAssumption, SizeAssumption DEF Shielded, Structure
<1>2. Terminate(h, n).curSize = n /\ Terminate(h, n).data = new
  BY <1>1 DEF Terminate, Structure
<1>3. SameOutside(m, new, h.data, n, 1)
  <2>1. n + 1 <= m + 1 /\ n \in Nat /\ NUL \in Cell
    BY <1>1 DEF NUL, Cell
  <2> HIDE DEF m
  <2> QED
    BY <1>1, <2>1, FillInside
<1> HIDE DEF m, new
<1>4. SameStart(new, h.data, n)
  BY <1>1, <1>3 DEF SameStart, SameOutside
<1> QED
  BY <1>2, <1>4, TerminateSound DEF Sound, Shielded

\* One that is given bytes from position at on, as many as fit.
LEMMA CopiedStructure ==
    ASSUME NEW b \in Bufs, NEW h, Shielded(h, b), NEW at \in 0 .. Capacity[b],
           NEW src, NEW from \in Nat, NEW n \in Nat, n <= SizeMax, Readable(src, from, n),
           NEW old, NEW len, len = at + CopiedSize(Room(h, at), n, old),
           NEW g, g = Terminate(CopyTo(h, at, src, from, n), len)
    PROVE  Receives(g, b, h, at, src, from, n) /\ CopyStatus(Room(h, at), n) = Reported(b, at + n)
<1> DEFINE c == Capacity[b]
           m == c + CanarySize
           k == CopiedSize(Room(h, at), n, 0)
           d == CopyTo(h, at, src, from, n)
           new == Move(h.data, at, src, from, k)
<1>1. /\ h \in Structure(b) /\ h.data \in [0 .. m -> Cell] /\ m \in Nat
      /\ c \in Nat /\ c <= m /\ c <= SizeMax /\ Room(h, at) = c - at
  <2>1. h \in Structure(b) /\ h.data \in [0 .. m -> Cell]
    BY DEF Shielded, Structure
  <2>2. c \in Nat /\ c <= SizeMax /\ Room(h, at) = c - at
    BY <2>1, Rooms
  <2>3. m \in Nat /\ c <= m
    BY <2>2, SizeAssumption
  <2> QED
    BY <2>1, <2>2, <2>3
<1>2. /\ k = IF at + n <= c THEN n ELSE c - at
      /\ k = CopiedSize(Room(h, at), n, old)
      /\ CopyStatus(Room(h, at), n) = IF at + n <= c THEN "SSM_OK" ELSE "SSM_TRUNCATED"
  <2>1. c \in Nat /\ c <= SizeMax /\ SizeMax \in Nat /\ at \in 0 .. c /\ Room(h, at) = c - at
    BY <1>1, SizeAssumption
  <2>2. ~ (Room(h, at) > SizeMax \/ n > SizeMax) /\ (n > Room(h, at) <=> ~ at + n <= c)
    <3> HIDE DEF c
    <3> QED
      BY <2>1
  <2> QED
    BY <2>1, <2>2 DEF CopiedSize, CopyStatus
<1>3. k \in Nat /\ at + k <= c /\ k <= n /\ len = at + k /\ len \in 0 .. c
  <2>1. c \in Nat /\ at \in 0 .. c /\ k = (IF at + n <= c THEN n ELSE c - at) /\ len = at + k
    BY <1>1, <1>2
  <2> HIDE DEF c, k
  <2> QED
    BY <2>1
<1>4. d.data = new /\ Shielded(d, b)
  <2>1. d.data = new
    BY <1>1 DEF CopyTo, Structure
  <2> QED
    BY <2>1, CopyToShields
<1>5. SameOutside(m, new, h.data, at, k) /\ HasCopy(new, at, src, from, k)
  <2>1. at \in Nat /\ at + k <= m + 1 /\ Readable(src, from, k)
    <3>1. c \in Nat /\ at \in 0 .. c /\ c <= m /\ m \in Nat
      BY <1>1
    <3>2. at \in Nat /\ at + k <= m + 1 /\ k \in Nat /\ k <= n
      <4> HIDE DEF c, m, k
      <4> QED
        BY <1>3, <3>1
    <3>3. ASSUME NEW i \in from .. from + k - 1 PROVE i \in DOMAIN src /\ src[i] \in Cell
      <4> HIDE DEF c, k, m
      <4>1. i \in from .. from + n - 1
        BY <3>2, <3>3
      <4> QED
        BY <4>1 DEF Readable
    <3> HIDE DEF k
    <3> QED
      BY <3>2, <3>3 DEF Readable
  <2> HIDE DEF m, k
  <2> QED
    BY <1>1, <1>3, <2>1, MoveInside
<1> HIDE DEF d, new, k, m
<1>6. g = Terminate(d, len)
  BY DEF d
<1>7. Sound(g, b) /\ g \in Structure(b) /\ g.curSize = len /\ SameStart(g.data, new, len)
  BY <1>3, <1>4, <1>6, TerminatedStructure
<1>8. SameStart(g.data, h.data, at)
  <2> SUFFICES ASSUME NEW i \in 0 .. at - 1 PROVE g.data[i] = h.data[i]
    BY DEF SameStart
  <2>1. i \in 0 .. len - 1 /\ i \in 0 .. m /\ i \notin at .. at + k - 1
    BY <1>1, <1>3
  <2> QED
    BY <1>5, <1>7, <2>1 DEF SameStart, SameOutside
<1>9. HasCopy(g.data, at, src, from, len - at)
  <2> SUFFICES ASSUME NEW i \in at .. at + (len - at) - 1 PROVE g.data[i] = src[from + (i - at)]
    BY DEF HasCopy
  <2>1. i \in 0 .. len - 1 /\ i \in at .. at + k - 1
    BY <1>3
  <2> QED
    BY <1>5, <1>7, <2>1 DEF SameStart, HasCopy
<1>10. Capacity[b] \in Nat /\ len = IF at + n <= Capacity[b] THEN at + n ELSE Capacity[b]
  BY <1>1, <1>2, <1>3
<1> QED
  BY <1>2, <1>7, <1>8, <1>9, <1>10 DEF Receives, Reported

\* The operations that add bytes to the start of the content give the buffer
\* that start and the bytes, or what fits of them.
LEMMA CopyInBecomes ==
    ASSUME IInv, NEW op, NEW b \in Bufs, Check(b), NEW h, Shielded(h, b),
           NEW at \in 0 .. Capacity[b],
           NEW src, NEW n \in Nat, n <= SizeMax, Readable(src, 0, n),
           NEW old, NEW len, len = at + CopiedSize(Room(h, at), n, old),
           NEW v \in Seq(Cell), Len(v) = at + n,
           Starts(v, h.data, at), Continues(v, at, src, 0, n),
           Commit(op, b, at + n, Terminate(CopyTo(h, at, src, 0, n), len),
                  CopyStatus(Room(h, at), n))
    PROVE  Abstract!Becomes(op, b, v)
<1> DEFINE g == Terminate(CopyTo(h, at, src, 0, n), len)
<1>1. Receives(g, b, h, at, src, 0, n) /\ CopyStatus(Room(h, at), n) = Reported(b, at + n)
  BY CopiedStructure
<1>2. Commit(op, b, Len(v), g, Reported(b, Len(v)))
  BY <1>1
<1> HIDE DEF g
<1>3. Starts(v, g.data, g.curSize)
  <2> DEFINE m == g.curSize
  <2> SUFFICES ASSUME NEW i \in 1 .. m PROVE v[i] = g.data[i - 1]
    BY DEF Starts
  <2>0. /\ m \in Nat /\ m <= at + n /\ at \in Nat
        /\ SameStart(g.data, h.data, at) /\ HasCopy(g.data, at, src, 0, m - at)
    BY <1>1 DEF Receives
  <2>1. CASE i <= at
    <3>1. i \in 1 .. at /\ i - 1 \in 0 .. at - 1
      BY <2>0, <2>1
    <3> QED
      BY <2>0, <3>1 DEF Starts, SameStart
  <2>2. CASE i > at
    <3>1. /\ i - at \in 1 .. n /\ at + (i - at) = i
          /\ i - 1 \in at .. at + (m - at) - 1
          /\ 0 + ((i - at) - 1) = 0 + ((i - 1) - at)
      BY <2>0, <2>2
    <3>2. v[i] = src[0 + ((i - at) - 1)]
      BY <3>1 DEF Continues
    <3> QED
      BY <2>0, <3>1, <3>2 DEF HasCopy
  <2> QED
    BY <2>0, <2>1, <2>2
<1> QED
  BY <1>1, <1>2, <1>3, CommitBecomes DEF Receives

-----------------------------------------------------------------------------
(* The operations.                                                         *)

\* The errors.  The abstract buffer leaves the arguments of a call that fails
\* open.
LEMMA RefusedImplements ==
    ASSUME IInv, NEW op, NEW b \in Bufs, NEW n, NEW st, Return(op, b, n, st),
           \/ st = "SSM_SIZETOOLARGE" /\ op \in Abstract!Operations \ {"copy", "concat"}
           \/ st = "SSM_CORRUPTED" /\ op \in Abstract!Operations /\ ~ Check(b)
    PROVE  Abstract!Next
<1>1. Abstract!Unchanged(op, b, last'.want, st)
  BY RefusedKeepsContents
<1>2. CASE st = "SSM_SIZETOOLARGE" /\ op \in Abstract!Operations \ {"copy", "concat"}
  BY <1>1, <1>2 DEF Abstract!Fail, Abstract!Next
<1>3. CASE st = "SSM_CORRUPTED" /\ op \in Abstract!Operations /\ ~ Check(b)
  <2>1. b \in damaged
    BY <1>3 DEF IInv, NoFalseAlarm
  <2> QED
    BY <1>1, <1>3, <2>1 DEF Abstract!Corrupted, Abstract!Next
<1> QED
  BY <1>2, <1>3

LEMMA KeptImplements ==
    ASSUME IInv, NEW op, NEW b \in Bufs, NEW n, NEW st, Check(b),
           Commit(op, b, n, CheckedOut(b), st),
           \/ st = "SSM_SIZETOOLARGE" /\ op = "insert"
           \/ st = "SSM_INDEXRANGE" /\ op = "insert"
           \/ st = "SSM_CORRUPTED" /\ op \in {"copy", "concat"} /\ damaged # {}
    PROVE  Abstract!Next
<1>1. Abstract!Unchanged(op, b, last'.want, st) /\ b \notin damaged
  BY KeptKeepsContents DEF IInv, DamageStaysVisible
<1>2. CASE st = "SSM_SIZETOOLARGE" /\ op = "insert"
  BY <1>1, <1>2 DEF Abstract!Operations, Abstract!Fail, Abstract!Next
<1>3. CASE st = "SSM_INDEXRANGE" /\ op = "insert"
  BY <1>1, <1>3 DEF Abstract!Fail, Abstract!Next
<1>4. CASE st = "SSM_CORRUPTED" /\ op \in {"copy", "concat"} /\ damaged # {}
  BY <1>1, <1>4 DEF Abstract!Operations, Abstract!Corrupted, Abstract!Next
<1> QED
  BY <1>2, <1>3, <1>4

\* A source that fails its check is damaged.
LEMMA BadSource ==
    ASSUME IInv, NEW s \in Bufs \cup {NULL}
    PROVE  (~ CheckIn(s) => damaged # {}) /\ (CheckIn(s) => s \notin damaged)
  BY SBufferAssumption DEF IInv, TypeOK, CheckIn, NoFalseAlarm, DamageStaysVisible

\* A prefix of a text that is imported.
LEMMA ImportBytesBecomes ==
    ASSUME IInv, NEW op, NEW b \in Bufs, NEW src, NEW n \in Nat, n <= SizeMax, Check(b),
           Readable(src, 0, n), ImportBytes(op, b, src, n)
    PROVE  Abstract!Becomes(op, b, Abstract!Prefix(src, n))
<1> DEFINE h   == CheckedOut(b)
           v   == Abstract!Prefix(src, n)
           len == CopiedSize(Room(h, 0), n, h.curSize)
<1>1. Shows(v, src, n)
  BY StartShows DEF Abstract!Prefix
<1>2. /\ Shielded(h, b) /\ 0 \in 0 .. Capacity[b]
      /\ Room(h, 0) \in Nat /\ Room(h, 0) <= SizeMax
  BY Ready DEF IInv
<1>3. len = 0 + len
  BY <1>2, CopiesWithinRoom
<1>4. Commit(op, b, 0 + n, Terminate(CopyTo(h, 0, src, 0, n), len), CopyStatus(Room(h, 0), n))
  BY SizeAssumption DEF ImportBytes
<1>5. /\ v \in Seq(Cell) /\ Len(v) = 0 + n
      /\ Starts(v, h.data, 0) /\ Continues(v, 0, src, 0, n)
  BY <1>1 DEF Shows, Starts, Continues
<1> HIDE DEF h, v, len
<1>6. len = 0 + CopiedSize(Room(h, 0), n, h.curSize)
  BY <1>3 DEF len
<1>7. Abstract!Becomes(op, b, v)
  BY <1>2, <1>4, <1>5, <1>6, CopyInBecomes
<1> QED
  BY <1>7 DEF v

LEMMA ImportImplements ==
    ASSUME IInv, NEW b \in Bufs, NEW text \in Texts, NEW n \in Sizes,
           Import(b, text, n), Called(<<text, n>>)
    PROVE  Abstract!Next
<1>1. n \in Nat /\ ImportBytes("import", b, text, n)
  BY SBufferAssumption DEF Import
<1>2. CASE n > SizeMax \/ ~ Check(b)
  <2>1. \/ Return("import", b, n, "SSM_SIZETOOLARGE")
        \/ Return("import", b, n, "SSM_CORRUPTED") /\ ~ Check(b)
    BY <1>1, <1>2 DEF ImportBytes
  <2> QED
    BY <2>1, RefusedImplements DEF Abstract!Operations
<1>3. CASE ~ n > SizeMax /\ Check(b)
  <2>1. n <= SizeMax
    BY <1>1, <1>3, SizeAssumption
  <2>2. 0 .. n - 1 \subseteq DOMAIN text /\ Readable(text, 0, n)
    BY <1>1, <2>1, TextReadable DEF Import
  <2>3. Abstract!Becomes("import", b, Abstract!Prefix(text, n))
    BY <1>1, <1>3, <2>1, <2>2, ImportBytesBecomes
  <2>4. Abstract!Called("import", <<text, n>>)
    BY <2>3 DEF Called, Abstract!Called, Abstract!Becomes, Abstract!Outcome
  <2> QED
    BY <2>2, <2>3, <2>4 DEF Abstract!Import, Abstract!Succeed, Abstract!Next
<1> QED
  BY <1>2, <1>3

LEMMA ImportStringImplements ==
    ASSUME IInv, NEW b \in Bufs, NEW text \in Texts, NEW n \in Nat,
           NEW bound \in Sizes \cup {NULL},
           bound = n \/ (bound = NULL /\ n <= SizeMax /\ n > Capacity[b]),
           ImportString(b, text, n), Called(<<text, bound>>)
    PROVE  Abstract!Next
<1>1. CASE n > SizeMax
  <2>1. Return("import_size", b, n, "SSM_SIZETOOLARGE")
    BY <1>1 DEF ImportString
  <2> QED
    BY <2>1, RefusedImplements DEF Abstract!Operations
<1>2. CASE ~ n > SizeMax
  <2>1. PICK len \in 0 .. n : /\ IsStringLength(text, n, len)
                              /\ ImportBytes("import_size", b, text, len)
    BY <1>2 DEF ImportString
  <2>2. len \in Nat /\ len <= SizeMax /\ len <= n /\ Readable(text, 0, len)
    BY <1>2, <2>1, TextReadable, SizeAssumption DEF IsStringLength
  <2>3. CASE ~ Check(b)
    <3>1. Return("import_size", b, len, "SSM_CORRUPTED")
      BY <2>1, <2>2, <2>3, SizeAssumption DEF ImportBytes
    <3> QED
      BY <2>3, <3>1, RefusedImplements DEF Abstract!Operations
  <2>4. CASE Check(b)
    <3>1. Abstract!Becomes("import_size", b, Abstract!Prefix(text, len))
      BY <2>1, <2>2, <2>4, ImportBytesBecomes
    <3>2. Abstract!Called("import_size", <<text, bound>>)
      BY <3>1 DEF Called, Abstract!Called, Abstract!Becomes, Abstract!Outcome
    <3>3. len \in {0} \cup {i + 1 : i \in DOMAIN text}
      <4>1. CASE len = 0
        BY <4>1
      <4>2. CASE len # 0
        <5>1. len - 1 \in 0 .. len - 1 /\ len = (len - 1) + 1
          BY <2>2, <4>2
        <5>2. len - 1 \in DOMAIN text
          BY <2>1, <5>1 DEF IsStringLength
        <5> QED
          BY <5>1, <5>2
      <4> QED
        BY <4>1, <4>2
    <3>4. \/ len \in DOMAIN text /\ text[len] = 0
          \/ len = bound
          \/ bound = NULL /\ ~ Abstract!Fits(b, len)
      <4>1. Capacity[b] \in Nat
        BY SBufferAssumption
      <4> QED
        BY <2>1, <2>2, <4>1 DEF IsStringLength, Abstract!Fits, NUL
    <3>5. \A i \in 0 .. len - 1 : text[i] # 0
      BY <2>1 DEF IsStringLength, NUL
    <3>6. Abstract!ImportString(b, text, bound)
      BY <3>1, <3>3, <3>4, <3>5 DEF Abstract!ImportString
    <3> QED
      BY <3>2, <3>6 DEF Abstract!Succeed, Abstract!Next
  <2> QED
    BY <2>3, <2>4
<1> QED
  BY <1>1, <1>2

\* The content of a sound source, as a sequence and as bytes to read.
LEMMA SourceShows ==
    ASSUME IInv, NEW s \in Bufs
    PROVE  LET n == buf[s].curSize
           IN  /\ n \in Nat /\ n <= SizeMax /\ Readable(buf[s].data, 0, n)
               /\ Shows(Contents[s], buf[s].data, n)
<1> DEFINE n == buf[s].curSize
<1>1. buf[s] \in Structure(s)
  BY DEF IInv, TypeOK
<1>2. n \in 0 .. Capacity[s] /\ Capacity[s] \in Nat /\ Capacity[s] <= SizeMax
  BY <1>1, Rooms, SBufferAssumption DEF Structure
<1>3. Readable(buf[s].data, 0, n)
  BY <1>1, <1>2, ContentReadable
<1>4. Shows(ContentOf(buf[s]), buf[s].data, n)
  BY <1>1, ContentShows
<1> QED
  BY <1>2, <1>3, <1>4, ContentsAre, SizeAssumption

\* The content of a buffer that is ready for output.
LEMMA TargetShows ==
    ASSUME IInv, NEW b \in Bufs, Check(b)
    PROVE  LET h == CheckedOut(b)
           IN  /\ h \in Structure(b) /\ Shielded(h, b)
               /\ h.curSize \in 0 .. Capacity[b] /\ Capacity[b] \in Nat /\ Capacity[b] <= SizeMax
               /\ h.maxSize = Capacity[b] + CanarySize + 1 /\ Room(h, 0) = Capacity[b]
               /\ Shows(Contents[b], h.data, h.curSize)
               /\ b \notin damaged
<1> DEFINE h == CheckedOut(b)
<1>1. /\ h \in Structure(b) /\ Shielded(h, b) /\ h.curSize \in 0 .. Capacity[b]
      /\ Capacity[b] \in Nat /\ Capacity[b] <= SizeMax
      /\ h.maxSize = Capacity[b] + CanarySize + 1 /\ Room(h, 0) = Capacity[b]
  BY Ready DEF IInv, Shielded
<1>2. Shows(ContentOf(h), h.data, h.curSize)
  <2> HIDE DEF h
  <2> QED
    BY <1>1, ContentShows
<1> QED
  BY <1>1, <1>2, CheckedOutContent DEF IInv, DamageStaysVisible

\* The bytes a structure starts with become the content.
LEMMA SameBecomes ==
    ASSUME IInv, NEW op, NEW b \in Bufs, Check(b), NEW g \in Structure(b),
           NEW v, NEW n \in Nat, Shows(v, g.data, n), g.curSize = n, n <= Capacity[b],
           Commit(op, b, n, g, "SSM_OK")
    PROVE  Abstract!Becomes(op, b, v)
<1>1. v \in Seq(Cell) /\ Len(v) = n /\ Starts(v, g.data, g.curSize)
  BY DEF Shows
<1>2. Commit(op, b, Len(v), g, Reported(b, Len(v)))
  BY <1>1 DEF Reported
<1> QED
  BY <1>1, <1>2, CommitBecomes

LEMMA CopyImplements ==
    ASSUME IInv, NEW b \in Bufs, NEW s \in Bufs \cup {NULL}, Copy(b, s), Called(<<s>>)
    PROVE  Abstract!Next
<1> DEFINE h == CheckedOut(b)
           v == IF s = NULL THEN <<>> ELSE Contents[s]
<1>1. CASE ~ Check(b)
  <2>1. Return("copy", b, 0, "SSM_CORRUPTED")
    BY <1>1 DEF Copy
  <2> QED
    BY <1>1, <2>1, RefusedImplements DEF Abstract!Operations
<1>2. CASE Check(b) /\ ~ CheckIn(s)
  <2>1. Commit("copy", b, 0, h, "SSM_CORRUPTED")
    BY <1>2 DEF Copy
  <2> QED
    BY <1>2, <2>1, BadSource, KeptImplements
<1>3. CASE Check(b) /\ CheckIn(s)
  <2>1. Abstract!Becomes("copy", b, v)
    <3>1. CASE s = NULL
      <4>1. Commit("copy", b, 0, Terminate(h, 0), "SSM_OK")
        BY <1>3, <3>1 DEF Copy
      <4>2. Shielded(h, b) /\ 0 \in 0 .. Capacity[b] /\ 0 <= Capacity[b]
        BY <1>3, TargetShows
      <4>3. Terminate(h, 0) \in Structure(b) /\ Terminate(h, 0).curSize = 0
        BY <4>2, TerminatedStructure
      <4>4. Shows(<<>>, Terminate(h, 0).data, 0)
        BY EmptySeq DEF Shows, Starts
      <4> HIDE DEF h
      <4>5. Abstract!Becomes("copy", b, <<>>)
        BY <1>3, <4>1, <4>2, <4>3, <4>4, SameBecomes
      <4> QED
        BY <3>1, <4>5
    <3>2. CASE s # NULL /\ s = b
      <4>1. Commit("copy", b, h.curSize, h, "SSM_OK")
        BY <1>3, <3>2 DEF Copy
      <4>2. /\ h \in Structure(b) /\ h.curSize \in Nat /\ h.curSize <= Capacity[b]
            /\ Shows(Contents[b], h.data, h.curSize)
        BY <1>3, TargetShows
      <4> HIDE DEF h
      <4>3. Abstract!Becomes("copy", b, Contents[b])
        BY <1>3, <4>1, <4>2, SameBecomes
      <4> QED
        BY <3>2, <4>3
    <3>3. CASE s # NULL /\ s # b
      <4> DEFINE n   == buf[s].curSize
                 w   == Contents[s]
                 len == CopiedSize(Room(h, 0), n, h.curSize)
      <4>1. n \in Nat /\ n <= SizeMax /\ Readable(buf[s].data, 0, n) /\ Shows(w, buf[s].data, n)
        BY <3>3, SourceShows
      <4>2. /\ Shielded(h, b) /\ 0 \in 0 .. Capacity[b]
            /\ Room(h, 0) \in Nat /\ Room(h, 0) <= SizeMax
        BY <1>3, TargetShows
      <4>3. len = 0 + len
        BY <4>1, <4>2, CopiesWithinRoom
      <4>4. Commit("copy", b, 0 + n, Terminate(CopyTo(h, 0, buf[s].data, 0, n), len),
                   CopyStatus(Room(h, 0), n))
        BY <1>3, <3>3, <4>1 DEF Copy
      <4>5. /\ w \in Seq(Cell) /\ Len(w) = 0 + n
            /\ Starts(w, h.data, 0) /\ Continues(w, 0, buf[s].data, 0, n)
        BY <4>1 DEF Shows, Starts, Continues
      <4> HIDE DEF h, n, w, len
      <4>6. len = 0 + CopiedSize(Room(h, 0), n, h.curSize)
        BY <4>3 DEF len
      <4>7. Abstract!Becomes("copy", b, w)
        BY <1>3, <4>1, <4>2, <4>4, <4>5, <4>6, CopyInBecomes
      <4> QED
        BY <3>3, <4>7 DEF w
    <3> QED
      BY <3>1, <3>2, <3>3
  <2>2. Abstract!Called("copy", <<s>>)
    BY <2>1 DEF Called, Abstract!Called, Abstract!Becomes, Abstract!Outcome
  <2>3. s \notin damaged
    BY <1>3, BadSource
  <2>4. Abstract!Copy(b, s)
    BY <2>1, <2>3 DEF Abstract!Copy, Contents
  <2> QED
    BY <2>2, <2>4 DEF Abstract!Succeed, Abstract!Next
<1> QED
  BY <1>1, <1>2, <1>3

LEMMA ConcatImplements ==
    ASSUME IInv, NEW b \in Bufs, NEW s \in Bufs \cup {NULL}, Concat(b, s), Called(<<s>>)
    PROVE  Abstract!Next
<1> DEFINE h   == CheckedOut(b)
           cur == h.curSize
           w   == IF s = NULL THEN <<>> ELSE Contents[s]
           v   == Contents[b] \o w
<1>1. CASE ~ Check(b)
  <2>1. Return("concat", b, 0, "SSM_CORRUPTED")
    BY <1>1 DEF Concat
  <2> QED
    BY <1>1, <2>1, RefusedImplements DEF Abstract!Operations
<1>2. CASE Check(b) /\ ~ CheckIn(s)
  <2>1. Commit("concat", b, 0, h, "SSM_CORRUPTED")
    BY <1>2 DEF Concat
  <2> QED
    BY <1>2, <2>1, BadSource, KeptImplements
<1>3. CASE Check(b) /\ CheckIn(s)
  <2>1. /\ h \in Structure(b) /\ Shielded(h, b)
        /\ cur \in 0 .. Capacity[b] /\ Capacity[b] \in Nat
        /\ Shows(Contents[b], h.data, cur)
    BY <1>3, TargetShows
  <2>2. Abstract!Becomes("concat", b, v)
    <3>1. CASE s = NULL
      <4>1. Commit("concat", b, cur, h, "SSM_OK")
        BY <1>3, <3>1 DEF Concat
      <4>2. v = Contents[b]
        BY <2>1, <3>1, ConcatEmptySeq DEF Shows
      <4> HIDE DEF h, v
      <4>3. cur \in Nat /\ cur <= Capacity[b]
        BY <2>1
      <4> HIDE DEF cur
      <4>4. Abstract!Becomes("concat", b, Contents[b])
        BY <1>3, <2>1, <4>1, <4>3, SameBecomes DEF cur
      <4> QED
        BY <4>2, <4>4
    <3>2. CASE s # NULL
      <4> DEFINE g   == IF s = b THEN h ELSE buf[s]
                 n   == g.curSize
                 len == cur + CopiedSize(Room(h, cur), n, 0)
      <4>1. n \in Nat /\ n <= SizeMax /\ Readable(g.data, 0, n) /\ Shows(w, g.data, n)
        <5>1. CASE s = b
          <6>1. cur \in Nat /\ cur <= SizeMax
            BY <1>3, <2>1, TargetShows, SizeAssumption
          <6>2. Readable(h.data, 0, cur)
            <7> HIDE DEF h
            <7> QED
              BY <2>1, <6>1, ContentReadable
          <6> QED
            BY <2>1, <3>2, <5>1, <6>1, <6>2
        <5>2. CASE s # b
          BY <3>2, <5>2, SourceShows
        <5> QED
          BY <5>1, <5>2
      <4>2. Commit("concat", b, cur + n, Terminate(CopyTo(h, cur, g.data, 0, n), len),
                   CopyStatus(Room(h, cur), n))
        BY <1>3, <3>2 DEF Concat
      <4> HIDE DEF g, n, h, w
      <4>3. /\ v \in Seq(Cell) /\ Len(v) = cur + n
            /\ \A i \in 1 .. cur + n : v[i] = IF i <= cur THEN Contents[b][i] ELSE w[i - cur]
        <5>1. /\ Contents[b] \in Seq(Cell) /\ w \in Seq(Cell)
              /\ Len(Contents[b]) = cur /\ Len(w) = n
          BY <2>1, <4>1 DEF Shows
        <5> HIDE DEF cur
        <5> QED
          BY <5>1, ConcatProperties
      <4> HIDE DEF v
      <4>4. Starts(v, h.data, cur)
        <5> SUFFICES ASSUME NEW i \in 1 .. cur PROVE v[i] = h.data[i - 1]
          BY DEF Starts
        <5>1. i \in 1 .. cur + n /\ i <= cur
          BY <2>1, <4>1
        <5>2. v[i] = Contents[b][i] /\ Contents[b][i] = h.data[i - 1]
          BY <2>1, <4>3, <5>1 DEF Shows, Starts
        <5> QED
          BY <5>2
      <4>5. Continues(v, cur, g.data, 0, n)
        <5> SUFFICES ASSUME NEW i \in 1 .. n PROVE v[cur + i] = g.data[0 + (i - 1)]
          BY DEF Continues
        <5> DEFINE j == cur + i
        <5>1. j \in 1 .. cur + n /\ ~ j <= cur /\ j - cur = i
          BY <2>1, <4>1
        <5>2. w[i] = g.data[i - 1] /\ 0 + (i - 1) = i - 1
          BY <4>1 DEF Shows, Starts
        <5> HIDE DEF j
        <5>3. v[j] = w[j - cur]
          BY <4>3, <5>1
        <5>4. v[j] = g.data[0 + (i - 1)]
          BY <5>1, <5>2, <5>3
        <5> QED
          BY <5>4 DEF j
      <4> HIDE DEF cur
      <4> QED
        BY <1>3, <2>1, <4>1, <4>2, <4>3, <4>4, <4>5, CopyInBecomes DEF len
    <3> QED
      BY <3>1, <3>2
  <2>3. Abstract!Called("concat", <<s>>)
    BY <2>2 DEF Called, Abstract!Called, Abstract!Becomes, Abstract!Outcome
  <2>4. s \notin damaged
    BY <1>3, BadSource
  <2>5. Abstract!Concat(b, s)
    BY <2>2, <2>4 DEF Abstract!Concat, Contents
  <2> QED
    BY <2>3, <2>5 DEF Abstract!Succeed, Abstract!Next
<1> QED
  BY <1>1, <1>2, <1>3

\* The new content of a buffer, in the operations whose result is partly open.
LEMMA NewContent ==
    ASSUME IInv, NEW op, NEW b \in Bufs, NEW g \in Structure(b), NEW n, NEW st,
           Commit(op, b, n, g, st)
    PROVE  /\ Contents' = [Contents EXCEPT ![b] = Contents'[b]]
           /\ Shows(Contents'[b], g.data, g.curSize)
           /\ Abstract!Outcome(op, b, n, st) /\ damaged' = damaged
<1>1. Contents' = [Contents EXCEPT ![b] = ContentOf(g)]
  BY OneContentChanges DEF IInv, Commit
<1>2. Contents'[b] = ContentOf(g)
  BY <1>1 DEF Contents
<1>3. Shows(ContentOf(g), g.data, g.curSize)
  BY ContentShows
<1> QED
  BY <1>1, <1>2, <1>3 DEF Commit, Abstract!Outcome

LEMMA ResizeImplements ==
    ASSUME IInv, NEW b \in Bufs, NEW n \in Sizes, Resize(b, n), Called(<<n>>)
    PROVE  Abstract!Next
<1> DEFINE h == CheckedOut(b)
           m == IF n <= Capacity[b] THEN n ELSE Capacity[b]
           g == Terminate(h, m)
<1>1. n \in Nat
  BY SBufferAssumption
<1>2. CASE n > SizeMax \/ ~ Check(b)
  <2>1. \/ Return("resize", b, n, "SSM_SIZETOOLARGE")
        \/ Return("resize", b, n, "SSM_CORRUPTED") /\ ~ Check(b)
    BY <1>2 DEF Resize
  <2> QED
    BY <2>1, RefusedImplements DEF Abstract!Operations
<1>3. CASE ~ n > SizeMax /\ Check(b)
  <2>1. /\ Shielded(h, b) /\ Capacity[b] \in Nat /\ Room(h, 0) = Capacity[b]
        /\ h.maxSize = Capacity[b] + CanarySize + 1 /\ h.curSize \in Nat
        /\ Shows(Contents[b], h.data, h.curSize) /\ b \notin damaged
    BY <1>3, TargetShows
  <2>2. m \in 0 .. Capacity[b] /\ (n >= h.maxSize - CanarySize <=> ~ n <= Capacity[b])
    BY <1>1, <2>1, SizeAssumption
  <2>3. Commit("resize", b, n, g, Reported(b, n))
    BY <1>3, <2>1, <2>2 DEF Resize, Reported
  <2>4. g \in Structure(b) /\ g.curSize = m /\ SameStart(g.data, h.data, m)
    BY <2>1, <2>2, TerminatedStructure
  <2> HIDE DEF g, h
  <2>5. /\ Contents' = [Contents EXCEPT ![b] = Contents'[b]] /\ Shows(Contents'[b], g.data, m)
        /\ Abstract!Outcome("resize", b, n, Reported(b, n)) /\ damaged' = damaged
    BY <2>3, <2>4, NewContent
  <2>6. ASSUME NEW i \in 1 .. m, i <= Len(Contents[b])
        PROVE  Contents'[b][i] = Contents[b][i]
    <3>1. i - 1 \in 0 .. m - 1 /\ i \in 1 .. h.curSize
      BY <2>1, <2>2, <2>6 DEF Shows
    <3>2. Contents'[b][i] = g.data[i - 1] /\ Contents[b][i] = h.data[i - 1]
      BY <2>1, <2>5, <3>1 DEF Shows, Starts
    <3> QED
      BY <2>4, <3>1, <3>2 DEF SameStart
  <2>7. Len(Contents'[b]) = m
    BY <2>5 DEF Shows
  <2>8. Abstract!Resize(b, n)
    BY <2>1, <2>5, <2>6, <2>7 DEF Abstract!Resize, Abstract!Fits, Reported, Contents
  <2>9. Abstract!Called("resize", <<n>>)
    BY <2>5 DEF Called, Abstract!Called, Abstract!Outcome
  <2> QED
    BY <2>8, <2>9 DEF Abstract!Succeed, Abstract!Next
<1> QED
  BY <1>2, <1>3

\* g is h with the bytes from start on moved n up
Opened(g, h, b, start, n) ==
    /\ g.curSize = IF h.curSize + n <= Capacity[b] THEN h.curSize + n ELSE Capacity[b]
    /\ \A i \in 1 .. g.curSize :
          LET from == IF i <= start + n THEN i ELSE i - n
          IN  from <= h.curSize => g.data[i - 1] = h.data[from - 1]

\* An insertion that leaves such a structure.
LEMMA OpenedImplements ==
    ASSUME IInv, NEW b \in Bufs, Check(b), NEW start \in Sizes, NEW n \in Sizes,
           NEW h, h = CheckedOut(b), start <= h.curSize,
           NEW g \in Structure(b), Opened(g, h, b, start, n),
           NEW st, \/ st = Reported(b, h.curSize + n)
                   \/ n > 0 /\ start + n = Capacity[b] /\ st = "SSM_TRUNCATED",
           Commit("insert", b, h.curSize + n, g, st), Called(<<start, n>>)
    PROVE  Abstract!Next
<1> DEFINE cur == h.curSize
           m   == g.curSize
           old == Contents[b]
           new == Contents'[b]
<1>1. /\ n \in Nat /\ start \in Nat /\ cur \in Nat /\ Capacity[b] \in Nat
      /\ Shows(old, h.data, cur) /\ b \notin damaged
  BY TargetShows, SBufferAssumption
<1>2. /\ Contents' = [Contents EXCEPT ![b] = new] /\ Shows(new, g.data, m)
      /\ Abstract!Outcome("insert", b, cur + n, st) /\ damaged' = damaged
  BY NewContent
<1>3. Len(old) = cur /\ Len(new) = m
  BY <1>1, <1>2 DEF Shows
<1>4. m = IF cur + n <= Capacity[b] THEN cur + n ELSE Capacity[b]
  BY DEF Opened
<1>5. ASSUME NEW i \in 1 .. m,
             NEW from, from = IF i <= start + n THEN i ELSE i - n, from <= cur
      PROVE  new[i] = old[from]
  <2>1. from \in 1 .. cur
    BY <1>1, <1>4, <1>5
  <2>2. g.data[i - 1] = h.data[from - 1]
    BY <1>5 DEF Opened
  <2>3. new[i] = g.data[i - 1] /\ old[from] = h.data[from - 1]
    BY <1>1, <1>2, <2>1 DEF Shows, Starts
  <2> QED
    BY <2>2, <2>3
<1>6. \/ Abstract!Outcome("insert", b, cur + n,
             IF Abstract!Fits(b, cur + n) THEN "SSM_OK" ELSE "SSM_TRUNCATED")
      \/ n > 0 /\ start + n = Capacity[b] /\ Abstract!Outcome("insert", b, cur + n, "SSM_TRUNCATED")
  BY <1>2 DEF Reported, Abstract!Fits
<1> HIDE DEF cur, m
<1>7. Abstract!Insert(b, start, n)
  BY <1>1, <1>2, <1>3, <1>4, <1>5, <1>6 DEF Abstract!Insert, Abstract!Fits, Contents, cur
<1>8. Abstract!Called("insert", <<start, n>>)
  BY <1>2 DEF Called, Abstract!Called, Abstract!Outcome
<1> QED
  BY <1>7, <1>8 DEF Abstract!Succeed, Abstract!Next

LEMMA InsertImplements ==
    ASSUME IInv, NEW b \in Bufs, NEW start \in Sizes, NEW n \in Sizes,
           Insert(b, start, n), Called(<<start, n>>)
    PROVE  Abstract!Next
<1> DEFINE h    == CheckedOut(b)
           cur  == h.curSize
           c    == Capacity[b]
           tail == cur - start
           at   == start + n
           room == Room(h, at)
<1>1. n \in Nat /\ start \in Nat
  BY SBufferAssumption
<1>2. CASE ~ Check(b)
  <2>1. Return("insert", b, n, "SSM_CORRUPTED")
    BY <1>2 DEF Insert
  <2> QED
    BY <1>2, <2>1, RefusedImplements DEF Abstract!Operations
<1>3. CASE Check(b)
  <2>1. /\ h \in Structure(b) /\ Shielded(h, b) /\ cur \in 0 .. c
        /\ c \in Nat /\ c <= SizeMax /\ h.maxSize = c + CanarySize + 1 /\ Room(h, 0) = c
    BY <1>3, TargetShows
  <2>2. CASE n > SizeMax \/ start > cur
    <3>1. \/ Commit("insert", b, n, h, "SSM_SIZETOOLARGE")
          \/ Commit("insert", b, n, h, "SSM_INDEXRANGE")
      BY <1>3, <2>2 DEF Insert
    <3> QED
      BY <1>3, <3>1, KeptImplements
  <2>3. CASE ~ n > SizeMax /\ ~ start > cur /\ n = 0
    <3>1. Commit("insert", b, cur + n, h, "SSM_OK")
      BY <1>3, <2>1, <2>3 DEF Insert
    <3>2. Opened(h, h, b, start, n) /\ Reported(b, cur + n) = "SSM_OK" /\ start <= cur
      BY <1>1, <2>1, <2>3 DEF Opened, Reported
    <3> QED
      BY <1>3, <2>1, <3>1, <3>2, OpenedImplements
  <2>4. CASE ~ n > SizeMax /\ ~ start > cur /\ n # 0
    <3>1. tail \in Nat /\ tail <= SizeMax /\ start <= cur /\ n > 0
      BY <1>1, <2>1, <2>4, SizeAssumption
    <3>2. CASE start + n + CanarySize + 1 >= h.maxSize
      <4> DEFINE g == Terminate(h, c)
      <4>1. Commit("insert", b, cur + n, g, "SSM_TRUNCATED")
        BY <1>3, <2>1, <2>4, <3>2 DEF Insert
      <4>2. start + n >= c
        BY <1>1, <2>1, <3>2, SizeAssumption
      <4>3. g \in Structure(b) /\ g.curSize = c /\ SameStart(g.data, h.data, c)
        BY <2>1, TerminatedStructure
      <4> HIDE DEF g, h
      <4>4. Opened(g, h, b, start, n)
        <5>1. g.curSize = IF cur + n <= c THEN cur + n ELSE c
          BY <1>1, <2>1, <3>1, <4>2, <4>3
        <5>2. ASSUME NEW i \in 1 .. c PROVE i <= start + n /\ g.data[i - 1] = h.data[i - 1]
          <6>1. i - 1 \in 0 .. c - 1 /\ i <= start + n
            BY <1>1, <2>1, <4>2
          <6> QED
            BY <4>3, <6>1 DEF SameStart
        <5> QED
          BY <4>3, <5>1, <5>2 DEF Opened
      <4>5. \/ Reported(b, cur + n) = "SSM_TRUNCATED"
            \/ n > 0 /\ start + n = c
        <5>1. start + n = c \/ ~ cur + n <= c
          <6>1. cur \in Nat /\ c \in Nat /\ start <= cur /\ start + n >= c
            BY <2>1, <3>1, <4>2
          <6> HIDE DEF cur, c
          <6> QED
            BY <1>1, <6>1
        <5> QED
          BY <3>1, <5>1 DEF Reported
      <4> QED
        BY <1>3, <3>1, <4>1, <4>3, <4>4, <4>5, OpenedImplements DEF h
    <3>3. CASE ~ start + n + CanarySize + 1 >= h.maxSize
      <4> DEFINE len == at + CopiedSize(room, tail, 0)
                 g   == Terminate(CopyTo(h, at, h.data, start, tail), len)
      <4>1. Commit("insert", b, cur + n, g, CopyStatus(room, tail))
        BY <1>3, <2>4, <3>3 DEF Insert
      <4>2. at \in 0 .. c
        BY <1>1, <2>1, <3>3, SizeAssumption
      <4>3. Readable(h.data, start, tail)
        <5>1. start \in 0 .. cur /\ start + tail <= cur
          <6>1. cur \in Nat /\ start <= cur
            <7> HIDE DEF h, c
            <7> QED
              BY <1>1, <2>1, <2>4
          <6>2. \A x \in Nat : start <= x => start \in 0 .. x /\ start + (x - start) <= x
            BY <1>1
          <6> QED
            BY <6>1, <6>2
        <5> HIDE DEF h, tail
        <5> QED
          BY <2>1, <3>1, <5>1, ContentReadable
      <4>4. Receives(g, b, h, at, h.data, start, tail) /\ CopyStatus(room, tail) = Reported(b, at + tail)
        <5>1. /\ Shielded(h, b) /\ at \in 0 .. Capacity[b] /\ start \in Nat
              /\ tail \in Nat /\ tail <= SizeMax /\ Readable(h.data, start, tail)
          BY <1>1, <2>1, <3>1, <4>2, <4>3
        <5> HIDE DEF h, at, tail
        <5> QED
          BY <5>1, CopiedStructure
      <4>5. at + tail = cur + n
        BY <1>1, <2>1
      <4> HIDE DEF g, h
      <4>6. Opened(g, h, b, start, n)
        <5> DEFINE m == g.curSize
        <5>1. /\ m = IF cur + n <= c THEN cur + n ELSE c
              /\ SameStart(g.data, h.data, at) /\ HasCopy(g.data, at, h.data, start, m - at)
          BY <4>4, <4>5 DEF Receives
        <5>2. ASSUME NEW i \in 1 .. m, i <= start + n PROVE g.data[i - 1] = h.data[i - 1]
          <6>1. i - 1 \in 0 .. at - 1
            BY <1>1, <2>1, <5>1, <5>2
          <6> HIDE DEF at
          <6> QED
            BY <5>1, <6>1 DEF SameStart
        <5>3. ASSUME NEW i \in 1 .. m, ~ i <= start + n PROVE g.data[i - 1] = h.data[i - n - 1]
          <6>1. /\ i - 1 \in at .. at + (m - at) - 1
                /\ start + ((i - 1) - at) = i - n - 1
            BY <1>1, <2>1, <5>1, <5>3
          <6> HIDE DEF at
          <6> QED
            BY <5>1, <6>1 DEF HasCopy
        <5> HIDE DEF m
        <5> QED
          BY <5>1, <5>2, <5>3 DEF Opened, m
      <4>7. g \in Structure(b)
        BY <4>4 DEF Receives
      <4>8. Commit("insert", b, cur + n, g, Reported(b, cur + n))
        BY <4>1, <4>4, <4>5
      <4> QED
        BY <1>3, <3>1, <4>6, <4>7, <4>8, OpenedImplements DEF h
    <3> QED
      BY <3>2, <3>3
  <2> QED
    BY <2>2, <2>3, <2>4
<1> QED
  BY <1>2, <1>3

\* old with v in the part of start .. start+n-1 that it has, counted from 0
Painted(old, start, n, v) ==
    [i \in 1 .. Len(old) |-> IF i - 1 \in start .. start + n - 1 THEN v ELSE old[i]]

LEMMA SetRangeImplements ==
    ASSUME IInv, NEW b \in Bufs, NEW start \in Nat, NEW n \in Nat, NEW v \in Values,
           start \in Sizes \cup {0}, n \in Sizes \cup {buf[b].curSize},
           SetRange(b, start, n, v), Called(<<start, n, v>>)
    PROVE  Abstract!Next
<1> DEFINE h      == CheckedOut(b)
           cur    == h.curSize
           m      == Capacity[b] + CanarySize
           old    == Contents[b]
           actual == IF start + n > cur THEN cur - start ELSE n
           st     == IF start + n > cur THEN "SSM_TRUNCATED" ELSE "SSM_OK"
           new    == Fill(h.data, start, actual, v)
           g      == [h EXCEPT !.data = new]
<1>1. CASE start > SizeMax \/ n > SizeMax \/ ~ Check(b)
  <2>1. \/ Return("set_range", b, n, "SSM_SIZETOOLARGE")
        \/ Return("set_range", b, n, "SSM_CORRUPTED") /\ ~ Check(b)
    BY <1>1 DEF SetRange
  <2> QED
    BY <2>1, RefusedImplements DEF Abstract!Operations
<1>2. CASE ~ (start > SizeMax \/ n > SizeMax) /\ Check(b)
  <2>1. /\ h \in Structure(b) /\ Shielded(h, b) /\ cur \in Nat /\ b \notin damaged
        /\ Shows(old, h.data, cur) /\ cur <= Capacity[b] /\ Capacity[b] \in Nat
    BY <1>2, TargetShows
  <2>2. Len(old) = cur /\ old \in [1 .. cur -> Cell]
    BY <2>1, LenProperties DEF Shows
  <2>3. \E k \in Structure(b) : /\ Commit("set_range", b, n, k, st)
                                /\ Shows(Painted(old, start, n, v), k.data, k.curSize)
    <3>1. CASE start >= cur
      <4>1. Commit("set_range", b, n, h, st)
        BY <1>2, <2>1, <3>1 DEF SetRange
      <4>2. Painted(old, start, n, v) = old
        <5>1. \A i \in 1 .. cur : i - 1 \notin start .. start + n - 1
          BY <2>1, <3>1
        <5> QED
          BY <2>2, <5>1 DEF Painted
      <4> QED
        BY <2>1, <4>1, <4>2
    <3>2. CASE ~ start >= cur
      <4>1. actual \in Nat /\ start + actual <= cur /\ (actual < n <=> start + n > cur)
        BY <2>1, <3>2
      <4>2. Commit("set_range", b, n, [h EXCEPT !.data = Fill(@, start, actual, v)], st)
        BY <1>2, <2>1, <3>2, <4>1 DEF SetRange
      <4>3. v \in Cell
        BY SBufferAssumption DEF Byte, Cell
      <4>4. Sound(h, b)
        BY <1>2, Ready DEF IInv
      <4>5. Sound([h EXCEPT !.data = Fill(@, start, actual, v)], b)
        <5> HIDE DEF h, actual
        <5> QED
          BY <4>1, <4>3, <4>4, FillSound
      <4>6. SameOutside(m, new, h.data, start, actual) /\ Filled(new, start, actual, v)
        <5>1. h.data \in [0 .. m -> Cell] /\ m \in Nat /\ start + actual <= m + 1
          <6>1. h.data \in [0 .. m -> Cell] /\ cur <= m + 1 /\ m \in Nat
            BY <2>1, SizeAssumption DEF Structure
          <6>2. start + actual \in Nat /\ start + actual <= cur /\ cur \in Nat
            BY <2>1, <4>1
          <6> HIDE DEF m, cur, actual
          <6> QED
            BY <6>1, <6>2
        <5> HIDE DEF h, actual, m
        <5> QED
          BY <4>1, <4>3, <5>1, FillInside
      <4>7. g.data = new /\ g.curSize = cur /\ [h EXCEPT !.data = Fill(@, start, actual, v)] = g
        BY <2>1 DEF Structure
      <4>8. Painted(old, start, n, v) \in [1 .. cur -> Cell]
        BY <2>2, <4>3 DEF Painted
      <4> HIDE DEF h, new, g
      <4>9. ASSUME NEW i \in 1 .. cur PROVE Painted(old, start, n, v)[i] = g.data[i - 1]
        <5>1. /\ i - 1 \in 0 .. m
              /\ i - 1 \in start .. start + n - 1 <=> i - 1 \in start .. start + actual - 1
          BY <2>1, <3>2, <4>1, SizeAssumption
        <5>2. Painted(old, start, n, v)[i] = IF i - 1 \in start .. start + n - 1 THEN v ELSE old[i]
          BY <2>2 DEF Painted
        <5>3. old[i] = h.data[i - 1]
          BY <2>1 DEF Shows, Starts
        <5> HIDE DEF m, actual, cur
        <5>4. CASE i - 1 \in start .. start + n - 1
          BY <4>6, <4>7, <5>1, <5>2, <5>4 DEF Filled
        <5>5. CASE i - 1 \notin start .. start + n - 1
          BY <4>6, <4>7, <5>1, <5>2, <5>3, <5>5 DEF SameOutside
        <5> QED
          BY <5>4, <5>5
      <4>10. Shows(Painted(old, start, n, v), g.data, g.curSize)
        <5>1. Painted(old, start, n, v) \in Seq(Cell) /\ Len(Painted(old, start, n, v)) = cur
          BY <2>1, <4>8, FunctionIsSeq
        <5> QED
          BY <4>7, <4>9, <5>1 DEF Shows, Starts
      <4> QED
        BY <4>2, <4>5, <4>7, <4>10 DEF Sound, Shielded
    <3> QED
      BY <3>1, <3>2
  <2>4. PICK k \in Structure(b) : /\ Commit("set_range", b, n, k, st)
                                  /\ Shows(Painted(old, start, n, v), k.data, k.curSize)
    BY <2>3
  <2>5. /\ Contents' = [Contents EXCEPT ![b] = Contents'[b]] /\ Shows(Contents'[b], k.data, k.curSize)
        /\ Abstract!Outcome("set_range", b, n, st) /\ damaged' = damaged
    <3> HIDE DEF st
    <3> QED
      BY <2>4, NewContent
  <2>6. Contents'[b] = Painted(old, start, n, v)
    <3>1. k.curSize \in Nat
      BY SBufferAssumption DEF Structure
    <3>2. SameStart(k.data, k.data, k.curSize)
      BY DEF SameStart
    <3> QED
      BY <2>4, <2>5, <3>1, <3>2, ShowsTheSame
  <2>7. Abstract!SetRange(b, start, n, v)
    BY <2>1, <2>2, <2>5, <2>6 DEF Abstract!SetRange, Painted, Contents
  <2>8. Abstract!Called("set_range", <<start, n, v>>)
    BY <2>5 DEF Called, Abstract!Called, Abstract!Outcome
  <2>9. n \in Sizes \cup {Len(Contents[b])}
    <3>1. cur = buf[b].curSize
      BY <1>2, CheckedOutSound DEF IInv
    <3> QED
      BY <2>2, <3>1
  <2> QED
    BY <2>7, <2>8, <2>9 DEF Abstract!Succeed, Abstract!Next, Contents
<1> QED
  BY <1>1, <1>2

LEMMA OperationImplements ==
    ASSUME IInv, NEW b \in Bufs, Operation(b)
    PROVE  Abstract!Next
<1>1. CASE \E text \in Texts, n \in Sizes : Import(b, text, n) /\ Called(<<text, n>>)
  BY <1>1, ImportImplements
<1>2. CASE \E text \in Texts, n \in Sizes : ImportString(b, text, n) /\ Called(<<text, n>>)
  BY <1>2, ImportStringImplements, SBufferAssumption
<1>3. CASE \E text \in Texts : ImportString(b, text, buf[b].maxSize) /\ Called(<<text, NULL>>)
  <2>1. /\ buf[b].maxSize \in Nat /\ buf[b].maxSize <= SizeMax
        /\ buf[b].maxSize > Capacity[b]
    BY SBufferAssumption, SizeAssumption DEF IInv, TypeOK, Structure
  <2> QED
    BY <1>3, <2>1, ImportStringImplements
<1>4. CASE \E s \in Bufs \cup {NULL} : Copy(b, s) /\ Called(<<s>>)
  BY <1>4, CopyImplements
<1>5. CASE \E s \in Bufs \cup {NULL} : Concat(b, s) /\ Called(<<s>>)
  BY <1>5, ConcatImplements
<1>6. CASE \E n \in Sizes : Resize(b, n) /\ Called(<<n>>)
  BY <1>6, ResizeImplements
<1>7. CASE \E start, n \in Sizes : Insert(b, start, n) /\ Called(<<start, n>>)
  BY <1>7, InsertImplements
<1>8. CASE \E start, n \in Sizes, v \in Values :
              SetRange(b, start, n, v) /\ Called(<<start, n, v>>)
  BY <1>8, SetRangeImplements, SBufferAssumption
<1>9. CASE \E v \in Values :
              SetRange(b, 0, buf[b].curSize, v) /\ Called(<<0, buf[b].curSize, v>>)
  <2>1. buf[b].curSize \in Nat
    BY SBufferAssumption DEF IInv, TypeOK, Structure
  <2> QED
    BY <1>9, <2>1, SetRangeImplements
<1> QED
  BY <1>1, <1>2, <1>3, <1>4, <1>5, <1>6, <1>7, <1>8, <1>9 DEF Operation

\* An overrun spoils no byte of the content.
LEMMA OverrunImplements ==
    ASSUME IInv, NEW b \in Bufs, Overrun(b)
    PROVE  Abstract!Next
<1> DEFINE h == buf[b]
           m == Capacity[b] + CanarySize
<1>1. /\ h \in Structure(b) /\ h.curSize \in 0 .. Capacity[b] /\ Capacity[b] \in Nat
      /\ h.maxSize = Capacity[b] + CanarySize + 1 /\ h.data \in [0 .. m -> Cell] /\ m \in Nat
  BY SBufferAssumption, SizeAssumption DEF IInv, TypeOK, Structure
<1>2. \E g : buf' = [buf EXCEPT ![b] = g] /\ ContentOf(g) = ContentOf(h)
  <2>1. ASSUME NEW i \in GuardCells(h), buf' = [buf EXCEPT ![b].data = Fill(@, i, 1, Spoilt)]
        PROVE  \E g : buf' = [buf EXCEPT ![b] = g] /\ ContentOf(g) = ContentOf(h)
    <3> DEFINE new == Fill(h.data, i, 1, Spoilt)
               g   == [h EXCEPT !.data = new]
    <3>1. i \in 0 .. m /\ i >= h.curSize
      BY <1>1, SizeAssumption DEF GuardCells
    <3>2. SameOutside(m, new, h.data, i, 1) /\ new \in [0 .. m -> Cell]
      <4>1. Spoilt \in Cell /\ i + 1 <= m + 1 /\ i \in Nat
        BY <1>1, <3>1 DEF Spoilt, Cell
      <4> HIDE DEF m, h
      <4> QED
        BY <1>1, <4>1, FillInside
    <3>3. g.curSize = h.curSize /\ g.data = new /\ buf' = [buf EXCEPT ![b] = g]
      BY <1>1, <2>1 DEF Structure
    <3> HIDE DEF new, g, h
    <3>4. ASSUME NEW j \in 1 .. h.curSize PROVE Load(new, j - 1) = Load(h.data, j - 1)
      <4>1. j - 1 \in 0 .. m /\ j - 1 \notin i .. i + 1 - 1
        BY <1>1, <3>1, SizeAssumption
      <4> HIDE DEF m
      <4> QED
        BY <1>1, <3>2, <4>1 DEF SameOutside, Load
    <3>5. ContentOf(g) = ContentOf(h)
      BY <3>3, <3>4 DEF ContentOf
    <3> QED
      BY <3>3, <3>5
  <2>2. ASSUME buf' = [buf EXCEPT ![b].canary = Spoilt]
        PROVE  \E g : buf' = [buf EXCEPT ![b] = g] /\ ContentOf(g) = ContentOf(h)
    <3> DEFINE g == [h EXCEPT !.canary = Spoilt]
    <3>1. g.curSize = h.curSize /\ g.data = h.data /\ buf' = [buf EXCEPT ![b] = g]
      BY <1>1, <2>2 DEF Structure
    <3> HIDE DEF g, h
    <3>2. ContentOf(g) = ContentOf(h)
      BY <3>1 DEF ContentOf
    <3> QED
      BY <3>1, <3>2
  <2> QED
    BY <2>1, <2>2 DEF Overrun
<1>3. Contents' = Contents
  <2>1. PICK g : buf' = [buf EXCEPT ![b] = g] /\ ContentOf(g) = ContentOf(h)
    BY <1>2
  <2>2. Contents' = [Contents EXCEPT ![b] = Contents[b]]
    BY <2>1, OneContentChanges, ContentsAre DEF IInv
  <2> QED
    BY <2>2 DEF Contents
<1>4. Abstract!Overrun(b)
  BY <1>3 DEF Overrun, Abstract!Overrun, Abstract!Outcome, Contents
<1> QED
  BY <1>4 DEF Abstract!Next

LEMMA NullObjectImplements ==
    ASSUME NullObject PROVE Abstract!Next
<1>1. PICK op \in Abstract!Operations : Return(op, NULL, 0, "SSM_NULLOUT")
  BY DEF NullObject, Abstract!Operations
<1>2. Abstract!Unchanged(op, NULL, last'.want, "SSM_NULLOUT") /\ last'.want = 0
  BY <1>1, RefusedKeepsContents DEF Return
<1> QED
  BY <1>2 DEF Abstract!NullObject, Abstract!Next

LEMMA InitImplements == Init => Abstract!Init
<1> SUFFICES ASSUME Init PROVE Abstract!Init
  OBVIOUS
<1>1. ASSUME NEW b \in Bufs PROVE Content(b) = <<>>
  <2>1. buf[b].curSize = 0
    BY DEF Init, Declared
  <2>2. Content(b) \in [1 .. 0 -> Cell]
    BY <2>1 DEF Content
  <2>3. Content(b) \in Seq(Cell) /\ Len(Content(b)) = 0
    BY <2>2, FunctionIsSeq
  <2> QED
    BY <2>3, EmptySeq, SeqEqual
<1> QED
  BY <1>1 DEF Init, Abstract!Init

\* Every call does to the content of the static buffers what BoundedObject says:
\* ssm_sbuffer_*() and ssm_sstring_*() cut what does not fit and report it, leave
\* the object alone on errors, and give the right content when an object is its
\* own source.
THEOREM ImplementsBoundedObject == Spec => Implements
<1>1. Init => Abstract!Init
  BY InitImplements
<1>2. IInv /\ [Next]_vars => [Abstract!Next]_(Abstract!vars)
  <2> SUFFICES ASSUME IInv, [Next]_vars PROVE Abstract!Next \/ UNCHANGED Abstract!vars
    OBVIOUS
  <2>1. CASE UNCHANGED vars
    <3>1. Contents' = Contents
      BY <2>1, ContentsAre DEF vars, Contents, Content
    <3> QED
      BY <2>1, <3>1 DEF vars, Abstract!vars, Contents
  <2>2. CASE Next
    BY <2>2, NullObjectImplements, OperationImplements, OverrunImplements DEF Next
  <2> QED
    BY <2>1, <2>2
<1> QED
  BY <1>1, <1>2, Invariant, PTL DEF Spec, Implements, Abstract!Spec

=============================================================================
