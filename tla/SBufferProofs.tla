--------------------------- MODULE SBufferProofs ---------------------------
(***************************************************************************)
(* What SBuffer promises of static buffers and strings, for every set of   *)
(* buffers, every capacity, every size of a canary, every text and every    *)
(* argument.                                                               *)
(*                                                                         *)
(* The argument: the inductive invariant says that a buffer passes the      *)
(* checks exactly when the application has not overrun it.  A call that     *)
(* finds a buffer in order sets its canaries up once and leaves a sound     *)
(* structure (Sound), every intermediate one being guarded (Shielded); any  *)
(* other call leaves the structures alone.                                 *)
(***************************************************************************)
EXTENDS SBuffer, MemoryProofs

\* A structure of b whose trailing canary, once set up, is in place
Shielded(h, b) == h \in Structure(b) /\ (CanarySize > 0 => Guarded(h))

\* One with a terminator as well: it passes the checks
Sound(h, b) == Shielded(h, b) /\ Load(h.data, h.curSize) = NUL

\* new has the trailing canary of old
SameTrail(b, new, old) ==
    \A i \in Capacity[b] + 1 .. Capacity[b] + CanarySize : new[i] = old[i]

\* What a call on b may do to the structures
Effect(b) ==
    /\ UNCHANGED damaged
    /\ last' \in Outcome /\ last'.obj = b
    /\ \/ buf' = buf /\ last'.status \notin Successes
       \/ /\ Check(b)
          /\ \E h : /\ Sound(h, b)
                    /\ buf' = [buf EXCEPT ![b] = h]
                    /\ last'.status \notin Successes => h = CheckedOut(b)

IInv == TypeOK /\ NoFalseAlarm /\ DamageStaysVisible

\* The check of a buffer, of its structure
InOrder(h) == Consistent(h) /\ (CanarySize > 0 => Pristine(h) \/ Guarded(h))

-----------------------------------------------------------------------------
(* Structures.                                                             *)

\* The room of a structure is what its capacity leaves.
LEMMA Rooms ==
    ASSUME NEW b \in Bufs, NEW h \in Structure(b), NEW at \in 0 .. Capacity[b]
    PROVE  /\ Capacity[b] \in Nat /\ Capacity[b] <= SizeMax
           /\ Room(h, at) = Capacity[b] - at
           /\ h.maxSize = Capacity[b] + CanarySize + 1
           /\ h.maxSize <= SizeMax
  BY SBufferAssumption, SizeAssumption DEF Structure, Room

\* Shields only depend on what follows the terminator of the largest content.
LEMMA NewDataShields ==
    ASSUME NEW b \in Bufs, NEW h, Shielded(h, b),
           NEW new \in [0 .. Capacity[b] + CanarySize -> Cell], SameTrail(b, new, h.data)
    PROVE  /\ Shielded([h EXCEPT !.data = new], b)
           /\ [h EXCEPT !.data = new].curSize = h.curSize
           /\ [h EXCEPT !.data = new].data = new
<1> DEFINE c == Capacity[b]
           g == [h EXCEPT !.data = new]
<1>1. /\ h \in Structure(b) /\ c \in Nat /\ h.maxSize = c + CanarySize + 1
      /\ h.data \in [0 .. c + CanarySize -> Cell]
  BY SBufferAssumption DEF Shielded, Structure
<1>2. /\ g \in Structure(b) /\ g.curSize = h.curSize /\ g.data = new
      /\ g.canary = h.canary /\ g.maxSize = c + CanarySize + 1
  BY <1>1 DEF Structure
<1>3. CanarySize > 0 => Guarded(g)
  <2> SUFFICES ASSUME CanarySize > 0 PROVE Guarded(g)
    OBVIOUS
  <2>1. Guarded(h)
    BY DEF Shielded
  <2>2. \A i \in c + 1 .. c + CanarySize :
           new[i] = h.data[i] /\ i \in DOMAIN new /\ i \in DOMAIN h.data
    BY <1>1, SizeAssumption DEF SameTrail
  <2>3. \A i \in c + 1 .. c + CanarySize : Load(h.data, i) = TRAIL
    BY <1>1, <2>1, SizeAssumption DEF Guarded, Holds
  <2>4. \A i \in c + 1 .. c + CanarySize : Load(new, i) = TRAIL
    BY <2>2, <2>3 DEF Load
  <2> HIDE DEF g
  <2> QED
    BY <1>1, <1>2, <2>1, <2>4, SizeAssumption DEF Guarded, Holds
<1> QED
  BY <1>2, <1>3 DEF Shielded

\* ssm_copy() into the content of a buffer spoils neither of its canaries.
LEMMA CopyToShields ==
    ASSUME NEW b \in Bufs, NEW h, Shielded(h, b), NEW at \in 0 .. Capacity[b],
           NEW src, NEW from \in Nat, NEW n \in Nat, n <= SizeMax, Readable(src, from, n)
    PROVE  /\ Shielded(CopyTo(h, at, src, from, n), b)
           /\ CopyTo(h, at, src, from, n).curSize = h.curSize
<1> DEFINE room == Room(h, at)
           k    == CopiedSize(room, n, 0)
           c    == Capacity[b]
           m    == c + CanarySize
           new  == Move(h.data, at, src, from, k)
<1>1. h \in Structure(b) /\ c \in Nat /\ at \in 0 .. c /\ room = c - at /\ c <= SizeMax
  BY Rooms DEF Shielded
<1>2. k \in Nat /\ k <= c - at /\ k <= n
  BY <1>1, CopiesWithinRoom, SizeAssumption
<1>3. Readable(src, from, k)
  BY <1>2 DEF Readable
<1>4. h.data \in [0 .. c + CanarySize -> Cell]
  BY <1>1 DEF Structure
<1>5. new \in [0 .. c + CanarySize -> Cell] /\ SameOutside(c + CanarySize, new, h.data, at, k)
  <2>1. m \in Nat /\ at \in Nat /\ at + k <= m + 1
    BY <1>1, <1>2, SizeAssumption
  <2>2. h.data \in [0 .. m -> Cell]
    BY <1>4
  <2> HIDE DEF k, m
  <2>3. new \in [0 .. m -> Cell] /\ SameOutside(m, new, h.data, at, k)
    BY <1>2, <1>3, <2>1, <2>2, MoveInside
  <2> QED
    BY <2>3 DEF m
<1>6. CopyTo(h, at, src, from, n) = [h EXCEPT !.data = new]
  BY DEF CopyTo
<1> HIDE DEF new, k
<1>7. SameTrail(b, new, h.data)
  <2> SUFFICES ASSUME NEW i \in c + 1 .. c + CanarySize PROVE new[i] = h.data[i]
    BY DEF SameTrail
  <2>1. i \in 0 .. c + CanarySize /\ i \notin at .. at + k - 1
    BY <1>1, <1>2, SizeAssumption
  <2> QED
    BY <1>5, <2>1 DEF SameOutside
<1> QED
  BY <1>5, <1>6, <1>7, NewDataShields

\* Storing a length within the capacity with its terminator makes a shielded
\* structure sound.
LEMMA TerminateSound ==
    ASSUME NEW b \in Bufs, NEW h, Shielded(h, b), NEW n \in 0 .. Capacity[b]
    PROVE  Sound(Terminate(h, n), b)
<1> DEFINE c   == Capacity[b]
           new == Fill(h.data, n, 1, NUL)
<1>1. h \in Structure(b) /\ c \in Nat /\ n \in 0 .. c
  BY Rooms DEF Shielded
<1>2. h.data \in [0 .. c + CanarySize -> Cell]
  BY <1>1 DEF Structure
<1>3. /\ new \in [0 .. c + CanarySize -> Cell]
      /\ new[n] = NUL
      /\ \A i \in 0 .. c + CanarySize : i # n => new[i] = h.data[i]
  <2> DEFINE m == c + CanarySize
  <2>1. n \in 0 .. m /\ h.data \in [0 .. m -> Cell] /\ NUL \in Cell
    BY <1>1, <1>2, SizeAssumption DEF NUL, Cell
  <2>2. DOMAIN h.data \cup (n .. n + 1 - 1) = 0 .. m /\ n .. n + 1 - 1 = {n}
    BY <1>1, <1>2, SizeAssumption
  <2>3. new = [i \in 0 .. m |-> IF i \in {n} THEN NUL ELSE h.data[i]]
    BY <2>2 DEF Fill
  <2> HIDE DEF m, new
  <2>4. /\ new \in [0 .. m -> Cell] /\ new[n] = NUL
        /\ \A i \in 0 .. m : i # n => new[i] = h.data[i]
    BY <2>1, <2>3
  <2> QED
    BY <2>4 DEF m
<1> HIDE DEF new
<1>4. Terminate(h, n) = [h EXCEPT !.curSize = n, !.data = new]
  BY DEF Terminate, new
<1>5. Terminate(h, n) \in Structure(b)
  BY <1>1, <1>3, <1>4 DEF Structure
<1>6. /\ Terminate(h, n).curSize = n /\ Terminate(h, n).data = new
      /\ Terminate(h, n).maxSize = c + CanarySize + 1
      /\ Terminate(h, n).canary = h.canary
  BY <1>1, <1>4 DEF Structure
<1>7. Load(new, n) = NUL
  BY <1>1, <1>3, SizeAssumption DEF Load
<1>8. CanarySize > 0 => Guarded(Terminate(h, n))
  <2> SUFFICES ASSUME CanarySize > 0 PROVE Guarded(Terminate(h, n))
    OBVIOUS
  <2>1. Guarded(h) /\ h.maxSize = c + CanarySize + 1
    BY <1>1 DEF Shielded, Structure
  <2>2. \A i \in c + 1 .. c + CanarySize : new[i] = h.data[i] /\ i \in DOMAIN new /\ i \in DOMAIN h.data
    BY <1>1, <1>2, <1>3, SizeAssumption
  <2>3. \A i \in c + 1 .. c + CanarySize : Load(h.data, i) = TRAIL
    BY <1>1, <2>1, SizeAssumption DEF Guarded, Holds
  <2>4. \A i \in c + 1 .. c + CanarySize : Load(new, i) = TRAIL
    BY <2>2, <2>3 DEF Load
  <2> QED
    BY <1>1, <1>6, <2>1, <2>4, SizeAssumption DEF Guarded, Holds
<1> QED
  BY <1>5, <1>6, <1>7, <1>8 DEF Shielded, Sound

\* Setting a buffer up for output gives a sound structure with the same content.
LEMMA CheckedOutSound ==
    ASSUME TypeOK, NEW b \in Bufs, Check(b)
    PROVE  /\ Sound(CheckedOut(b), b)
           /\ CheckedOut(b).curSize = buf[b].curSize
           /\ \A i \in 0 .. Capacity[b] : CheckedOut(b).data[i] = buf[b].data[i]
<1> DEFINE c == Capacity[b]
           h == buf[b]
<1>1. h \in Structure(b) /\ Consistent(h)
  BY DEF TypeOK, Check
<1>2. /\ c \in Nat /\ h.maxSize = c + CanarySize + 1 /\ h.curSize \in 0 .. c
      /\ h.data \in [0 .. c + CanarySize -> Cell] /\ Load(h.data, h.curSize) = NUL
  BY <1>1, SBufferAssumption DEF Structure, Consistent
<1>3. CASE ~ (CanarySize > 0 /\ Pristine(h))
  <2>1. CheckedOut(b) = h
    BY <1>3 DEF CheckedOut
  <2>2. CanarySize > 0 => Guarded(h)
    BY <1>3 DEF Check
  <2> QED
    BY <1>1, <1>2, <2>1, <2>2 DEF Sound, Shielded
<1>4. CASE CanarySize > 0 /\ Pristine(h)
  <2> DEFINE m   == c + CanarySize
             new == Fill(h.data, c + 1, CanarySize, TRAIL)
             g   == [h EXCEPT !.canary = UPDATE, !.data = new]
  <2>1. CheckedOut(b) = g
    <3>1. h.maxSize - CanarySize = c + 1
      BY <1>2, SizeAssumption
    <3> QED
      BY <1>4, <3>1 DEF CheckedOut
  <2>2. /\ DOMAIN h.data \cup (c + 1 .. c + 1 + CanarySize - 1) = 0 .. m
        /\ c + 1 .. c + 1 + CanarySize - 1 = c + 1 .. m
    BY <1>2, SizeAssumption
  <2>3. new = [i \in 0 .. m |-> IF i \in c + 1 .. m THEN TRAIL ELSE h.data[i]]
    BY <2>2 DEF Fill
  <2>4. TRAIL \in Cell /\ UPDATE \in Cell
    BY DEF TRAIL, UPDATE, Cell
  <2>5. m \in Nat /\ c <= m /\ h.data \in [0 .. m -> Cell]
    BY <1>2, SizeAssumption
  <2> HIDE DEF new
  <2>6. /\ new \in [0 .. m -> Cell]
        /\ \A i \in 0 .. c : new[i] = h.data[i] /\ i \in DOMAIN new /\ i \in DOMAIN h.data
        /\ \A i \in c + 1 .. m : new[i] = TRAIL /\ i \in DOMAIN new
    <3> HIDE DEF m
    <3>1. new \in [0 .. m -> Cell]
      BY <2>3, <2>4, <2>5
    <3>2. ASSUME NEW i \in 0 .. c
          PROVE  i \in 0 .. m /\ i \notin c + 1 .. m
      BY <1>2, <2>5
    <3>3. ASSUME NEW i \in c + 1 .. m PROVE i \in 0 .. m
      BY <1>2, <2>5
    <3> QED
      BY <2>3, <2>5, <3>1, <3>2, <3>3
  <2>7. /\ g \in Structure(b) /\ g.curSize = h.curSize /\ g.data = new
        /\ g.canary = UPDATE /\ g.maxSize = c + CanarySize + 1
    BY <1>1, <2>4, <2>6 DEF Structure
  <2>8. Guarded(g)
    <3>1. \A i \in c + 1 .. m : Load(new, i) = TRAIL
      BY <2>6 DEF Load
    <3> QED
      BY <1>2, <2>7, <3>1, SizeAssumption DEF Guarded, Holds
  <2>9. Load(g.data, g.curSize) = NUL
    BY <1>2, <2>6, <2>7 DEF Load
  <2> HIDE DEF g
  <2> QED
    BY <2>1, <2>6, <2>7, <2>8, <2>9 DEF Sound, Shielded
<1> QED
  BY <1>3, <1>4

-----------------------------------------------------------------------------
(* How the calls end.                                                      *)

LEMMA ReturnEffect ==
    ASSUME NEW op \in Calls, NEW b \in Bufs, NEW n \in Nat,
           NEW st \in Statuses, st \notin Successes, Return(op, b, n, st)
    PROVE  Effect(b)
  BY DEF Return, Effect, Outcome

LEMMA CommitEffect ==
    ASSUME NEW op \in Calls, NEW b \in Bufs, Check(b), NEW n \in Nat, NEW st \in Statuses,
           NEW h, Sound(h, b), st \in Successes \/ h = CheckedOut(b),
           Commit(op, b, n, h, st)
    PROVE  Effect(b)
  BY DEF Commit, Effect, Outcome

\* The common end of the operations that copy bytes into the content.
LEMMA CopyInEffect ==
    ASSUME TypeOK, NEW op \in Calls, NEW b \in Bufs, Check(b), NEW want \in Nat,
           NEW h, Sound(h, b), NEW at \in 0 .. Capacity[b],
           NEW src, NEW from \in Nat, NEW n \in Nat, n <= SizeMax, Readable(src, from, n),
           NEW old, NEW len, len = at + CopiedSize(Room(h, at), n, old),
           Commit(op, b, want, Terminate(CopyTo(h, at, src, from, n), len),
                  CopyStatus(Room(h, at), n))
    PROVE  Effect(b)
<1> DEFINE g == CopyTo(h, at, src, from, n)
           k == CopiedSize(Room(h, at), n, old)
<1>1. Shielded(h, b) /\ h \in Structure(b)
  BY DEF Sound, Shielded
<1>2. Shielded(g, b)
  BY <1>1, CopyToShields
<1>3. /\ Room(h, at) \in Nat /\ Room(h, at) <= SizeMax /\ Capacity[b] \in Nat
      /\ Room(h, at) = Capacity[b] - at
  BY <1>1, Rooms, SizeAssumption
<1>4. k \in 0 .. Room(h, at) /\ CopyStatus(Room(h, at), n) \in Successes
  BY <1>3, CopiesWithinRoom
<1> HIDE DEF g, k
<1>5. len \in 0 .. Capacity[b]
  BY <1>3, <1>4 DEF k
<1>6. Sound(Terminate(g, len), b)
  BY <1>2, <1>5, TerminateSound
<1>7. Commit(op, b, want, Terminate(g, len), CopyStatus(Room(h, at), n))
  BY DEF g
<1> QED
  BY <1>4, <1>6, <1>7, CommitEffect DEF Statuses

-----------------------------------------------------------------------------
(* The operations.                                                         *)

\* What the operations know of a buffer that passed the checks.
LEMMA Ready ==
    ASSUME TypeOK, NEW b \in Bufs, Check(b)
    PROVE  /\ Sound(CheckedOut(b), b) /\ Shielded(CheckedOut(b), b)
           /\ Capacity[b] \in Nat /\ Capacity[b] <= SizeMax
           /\ CheckedOut(b).curSize \in 0 .. Capacity[b]
           /\ CheckedOut(b).maxSize = Capacity[b] + CanarySize + 1
           /\ \A at \in 0 .. Capacity[b] : Room(CheckedOut(b), at) = Capacity[b] - at
           /\ CheckedOut(b).data \in [0 .. Capacity[b] + CanarySize -> Cell]
<1>1. Sound(CheckedOut(b), b) /\ CheckedOut(b) \in Structure(b)
  BY CheckedOutSound DEF Sound, Shielded
<1> QED
  BY <1>1, Rooms DEF Sound, Structure

\* The content of a buffer can be read.
LEMMA ContentReadable ==
    ASSUME NEW b \in Bufs, NEW h \in Structure(b), NEW from \in 0 .. h.curSize,
           NEW n \in Nat, from + n <= h.curSize
    PROVE  Readable(h.data, from, n)
<1>1. /\ h.data \in [0 .. Capacity[b] + CanarySize -> Cell] /\ Capacity[b] \in Nat
      /\ h.curSize \in 0 .. Capacity[b]
  BY SBufferAssumption DEF Structure
<1>2. \A i \in from .. from + n - 1 : i \in 0 .. Capacity[b] + CanarySize
  BY <1>1, SizeAssumption
<1> QED
  BY <1>1, <1>2 DEF Readable

\* The two ends of a call that found a buffer it may not use.
LEMMA RefusedEffect ==
    ASSUME NEW op \in Calls, NEW b \in Bufs, NEW n \in Nat,
           NEW st \in {"SSM_CORRUPTED", "SSM_SIZETOOLARGE"}, Return(op, b, n, st)
    PROVE  Effect(b)
  BY StatusKinds, ReturnEffect

LEMMA KeptEffect ==
    ASSUME TypeOK, NEW op \in Calls, NEW b \in Bufs, Check(b), NEW n \in Nat,
           NEW st \in Statuses, Commit(op, b, n, CheckedOut(b), st)
    PROVE  Effect(b)
<1>1. Sound(CheckedOut(b), b)
  BY Ready
<1> QED
  BY <1>1, CommitEffect

LEMMA ImportBytesEffect ==
    ASSUME TypeOK, NEW op \in Calls, NEW b \in Bufs, NEW src, NEW n \in Nat,
           n <= SizeMax => Readable(src, 0, n), ImportBytes(op, b, src, n)
    PROVE  Effect(b)
<1> DEFINE h == CheckedOut(b)
<1>1. CASE n > SizeMax
  BY <1>1, RefusedEffect DEF ImportBytes
<1>2. CASE n <= SizeMax /\ ~ Check(b)
  BY <1>2, RefusedEffect, SizeAssumption DEF ImportBytes
<1>3. CASE n <= SizeMax /\ Check(b)
  <2> DEFINE len == CopiedSize(Room(h, 0), n, h.curSize)
  <2>1. /\ Sound(h, b) /\ 0 \in 0 .. Capacity[b]
        /\ Room(h, 0) \in Nat /\ Room(h, 0) <= SizeMax
    BY <1>3, Ready
  <2>2. len = 0 + len
    BY <1>3, <2>1, CopiesWithinRoom
  <2>3. Commit(op, b, n, Terminate(CopyTo(h, 0, src, 0, n), len), CopyStatus(Room(h, 0), n))
    BY <1>3, SizeAssumption DEF ImportBytes
  <2> HIDE DEF h
  <2> QED
    BY <1>3, <2>1, <2>2, <2>3, CopyInEffect
<1> QED
  BY <1>1, <1>2, <1>3, SizeAssumption

LEMMA TextReadable ==
    ASSUME NEW text \in Texts, NEW n \in Nat, 0 .. n - 1 \subseteq DOMAIN text
    PROVE  Readable(text, 0, n)
  BY SBufferAssumption DEF Readable, Byte, Cell

LEMMA ImportEffect ==
    ASSUME TypeOK, NEW b \in Bufs, NEW text \in Texts, NEW n \in Sizes, Import(b, text, n)
    PROVE  Effect(b)
<1>1. n \in Nat /\ ImportBytes("import", b, text, n)
  BY SBufferAssumption DEF Import
<1>2. n <= SizeMax => Readable(text, 0, n)
  BY <1>1, TextReadable DEF Import
<1> QED
  BY <1>1, <1>2, ImportBytesEffect DEF Calls

LEMMA ImportStringEffect ==
    ASSUME TypeOK, NEW b \in Bufs, NEW text \in Texts, NEW n \in Nat,
           ImportString(b, text, n)
    PROVE  Effect(b)
<1>1. CASE n > SizeMax
  <2>1. Return("import_size", b, n, "SSM_SIZETOOLARGE")
    BY <1>1 DEF ImportString
  <2> QED
    BY <2>1, RefusedEffect DEF Calls
<1>2. CASE ~ n > SizeMax
  <2>1. PICK len \in 0 .. n : /\ IsStringLength(text, n, len)
                              /\ ImportBytes("import_size", b, text, len)
    BY <1>2 DEF ImportString
  <2>2. len \in Nat /\ Readable(text, 0, len)
    BY <2>1, TextReadable DEF IsStringLength
  <2> QED
    BY <2>1, <2>2, ImportBytesEffect DEF Calls
<1> QED
  BY <1>1, <1>2

LEMMA CopyEffect ==
    ASSUME TypeOK, NEW b \in Bufs, NEW s \in Bufs \cup {NULL}, Copy(b, s)
    PROVE  Effect(b)
<1> DEFINE h == CheckedOut(b)
           n == buf[s].curSize
<1>1. CASE ~ Check(b)
  <2>1. Return("copy", b, 0, "SSM_CORRUPTED")
    BY <1>1 DEF Copy
  <2> QED
    BY <2>1, RefusedEffect DEF Calls
<1>2. CASE Check(b) /\ ~ CheckIn(s)
  <2>1. Commit("copy", b, 0, h, "SSM_CORRUPTED")
    BY <1>2 DEF Copy
  <2> QED
    BY <1>2, <2>1, StatusKinds, KeptEffect DEF Calls
<1>3. CASE Check(b) /\ CheckIn(s) /\ s = NULL
  <2>1. Shielded(h, b) /\ 0 \in 0 .. Capacity[b]
    BY <1>3, Ready
  <2>2. Sound(Terminate(h, 0), b)
    BY <2>1, TerminateSound
  <2>3. Commit("copy", b, 0, Terminate(h, 0), "SSM_OK")
    BY <1>3 DEF Copy
  <2> QED
    BY <1>3, <2>2, <2>3, StatusKinds, CommitEffect DEF Calls
<1>4. CASE Check(b) /\ CheckIn(s) /\ s # NULL /\ s = b
  <2>1. h.curSize \in Nat
    BY <1>4, Ready
  <2>2. Commit("copy", b, h.curSize, h, "SSM_OK")
    BY <1>4 DEF Copy
  <2> QED
    BY <1>4, <2>1, <2>2, StatusKinds, KeptEffect DEF Calls
<1>5. CASE Check(b) /\ CheckIn(s) /\ s # NULL /\ s # b
  <2> DEFINE len == CopiedSize(Room(h, 0), n, h.curSize)
  <2>1. s \in Bufs /\ buf[s] \in Structure(s)
    BY <1>5 DEF TypeOK
  <2>2. n \in Nat /\ n <= SizeMax /\ Readable(buf[s].data, 0, n)
    <3>1. n \in 0 .. Capacity[s] /\ Capacity[s] \in Nat /\ Capacity[s] <= SizeMax
      BY <2>1, Rooms, SBufferAssumption DEF Structure
    <3> QED
      BY <2>1, <3>1, ContentReadable, SizeAssumption
  <2>3. /\ Sound(h, b) /\ 0 \in 0 .. Capacity[b]
        /\ Room(h, 0) \in Nat /\ Room(h, 0) <= SizeMax
    BY <1>5, Ready
  <2>4. len = 0 + len
    BY <2>2, <2>3, CopiesWithinRoom
  <2>5. Commit("copy", b, n, Terminate(CopyTo(h, 0, buf[s].data, 0, n), len),
               CopyStatus(Room(h, 0), n))
    BY <1>5 DEF Copy
  <2> HIDE DEF h, n
  <2> QED
    BY <1>5, <2>2, <2>3, <2>4, <2>5, CopyInEffect DEF Calls
<1> QED
  BY <1>1, <1>2, <1>3, <1>4, <1>5

LEMMA ConcatEffect ==
    ASSUME TypeOK, NEW b \in Bufs, NEW s \in Bufs \cup {NULL}, Concat(b, s)
    PROVE  Effect(b)
<1> DEFINE h   == CheckedOut(b)
           cur == h.curSize
           g   == IF s = b THEN h ELSE buf[s]
           n   == g.curSize
<1>1. CASE ~ Check(b)
  <2>1. Return("concat", b, 0, "SSM_CORRUPTED")
    BY <1>1 DEF Concat
  <2> QED
    BY <2>1, RefusedEffect DEF Calls
<1>2. CASE Check(b) /\ ~ CheckIn(s)
  <2>1. Commit("concat", b, 0, h, "SSM_CORRUPTED")
    BY <1>2 DEF Concat
  <2> QED
    BY <1>2, <2>1, StatusKinds, KeptEffect DEF Calls
<1>3. CASE Check(b) /\ CheckIn(s) /\ s = NULL
  <2>1. cur \in Nat
    BY <1>3, Ready
  <2>2. Commit("concat", b, cur, h, "SSM_OK")
    BY <1>3 DEF Concat
  <2> QED
    BY <1>3, <2>1, <2>2, StatusKinds, KeptEffect DEF Calls
<1>4. CASE Check(b) /\ CheckIn(s) /\ s # NULL
  <2> DEFINE len == cur + CopiedSize(Room(h, cur), n, 0)
  <2>1. /\ Sound(h, b) /\ h \in Structure(b) /\ cur \in 0 .. Capacity[b]
        /\ Capacity[b] \in Nat
    BY <1>4, Ready DEF Shielded
  <2>2. s \in Bufs /\ g \in Structure(s)
    BY <1>4, <2>1 DEF TypeOK
  <2>3. n \in Nat /\ n <= SizeMax /\ Readable(g.data, 0, n)
    <3>1. n \in 0 .. Capacity[s] /\ Capacity[s] \in Nat /\ Capacity[s] <= SizeMax
      BY <2>2, Rooms, SBufferAssumption DEF Structure
    <3> HIDE DEF g
    <3> QED
      BY <2>2, <3>1, ContentReadable, SizeAssumption
  <2>4. Commit("concat", b, cur + n, Terminate(CopyTo(h, cur, g.data, 0, n), len),
               CopyStatus(Room(h, cur), n))
    BY <1>4 DEF Concat
  <2>5. cur + n \in Nat
    BY <2>1, <2>3
  <2> HIDE DEF h, g, n, cur
  <2> QED
    BY <1>4, <2>1, <2>3, <2>4, <2>5, CopyInEffect DEF Calls
<1> QED
  BY <1>1, <1>2, <1>3, <1>4

LEMMA ResizeEffect ==
    ASSUME TypeOK, NEW b \in Bufs, NEW n \in Sizes, Resize(b, n)
    PROVE  Effect(b)
<1> DEFINE h == CheckedOut(b)
<1>1. n \in Nat
  BY SBufferAssumption
<1>2. CASE n > SizeMax \/ ~ Check(b)
  <2>1. \/ Return("resize", b, n, "SSM_SIZETOOLARGE")
        \/ Return("resize", b, n, "SSM_CORRUPTED")
    BY <1>2 DEF Resize
  <2> QED
    BY <1>1, <2>1, RefusedEffect DEF Calls
<1>3. CASE ~ n > SizeMax /\ Check(b)
  <2>1. /\ Shielded(h, b) /\ h.maxSize = Capacity[b] + CanarySize + 1
        /\ Capacity[b] \in Nat /\ Room(h, 0) = Capacity[b]
    BY <1>3, Ready
  <2>2. CASE n >= h.maxSize - CanarySize
    <3>1. Commit("resize", b, n, Terminate(h, Room(h, 0)), "SSM_TRUNCATED")
      BY <1>3, <2>2 DEF Resize
    <3>2. Sound(Terminate(h, Room(h, 0)), b)
      BY <2>1, TerminateSound
    <3> QED
      BY <1>1, <1>3, <3>1, <3>2, StatusKinds, CommitEffect DEF Calls
  <2>3. CASE ~ n >= h.maxSize - CanarySize
    <3>1. Commit("resize", b, n, Terminate(h, n), "SSM_OK")
      BY <1>3, <2>3 DEF Resize
    <3>2. n \in 0 .. Capacity[b]
      BY <1>1, <2>1, <2>3, SizeAssumption
    <3>3. Sound(Terminate(h, n), b)
      BY <2>1, <3>2, TerminateSound
    <3> QED
      BY <1>1, <1>3, <3>1, <3>3, StatusKinds, CommitEffect DEF Calls
  <2> QED
    BY <2>2, <2>3
<1> QED
  BY <1>2, <1>3

LEMMA InsertEffect ==
    ASSUME TypeOK, NEW b \in Bufs, NEW start \in Sizes, NEW n \in Sizes, Insert(b, start, n)
    PROVE  Effect(b)
<1> DEFINE h    == CheckedOut(b)
           cur  == h.curSize
           tail == cur - start
           at   == start + n
           room == Room(h, at)
<1>1. n \in Nat /\ start \in Nat
  BY SBufferAssumption
<1>2. CASE ~ Check(b)
  <2>1. Return("insert", b, n, "SSM_CORRUPTED")
    BY <1>2 DEF Insert
  <2> QED
    BY <1>1, <2>1, RefusedEffect DEF Calls
<1>3. CASE Check(b)
  <2>1. /\ Sound(h, b) /\ Shielded(h, b) /\ h \in Structure(b)
        /\ h.maxSize = Capacity[b] + CanarySize + 1
        /\ Capacity[b] \in Nat /\ Capacity[b] <= SizeMax
        /\ cur \in 0 .. Capacity[b] /\ Room(h, 0) = Capacity[b]
    BY <1>3, Ready DEF Shielded
  <2>2. CASE n > SizeMax \/ start > cur
    <3>1. \/ Commit("insert", b, n, h, "SSM_SIZETOOLARGE")
          \/ Commit("insert", b, n, h, "SSM_INDEXRANGE")
      BY <1>3, <2>2 DEF Insert
    <3> QED
      BY <1>1, <1>3, <3>1, StatusKinds, KeptEffect DEF Calls
  <2>3. CASE ~ n > SizeMax /\ ~ start > cur /\ n = 0
    <3>1. Commit("insert", b, cur, h, "SSM_OK")
      BY <1>3, <2>3 DEF Insert
    <3> QED
      BY <1>3, <2>1, <3>1, StatusKinds, KeptEffect DEF Calls
  <2>4. CASE ~ n > SizeMax /\ ~ start > cur /\ n # 0
    <3>1. cur + n \in Nat /\ tail \in Nat /\ tail <= SizeMax
      BY <1>1, <2>1, <2>4, SizeAssumption
    <3>2. CASE start + n + CanarySize + 1 >= h.maxSize
      <4>1. Commit("insert", b, cur + n, Terminate(h, Room(h, 0)), "SSM_TRUNCATED")
        BY <1>3, <2>4, <3>2 DEF Insert
      <4>2. Sound(Terminate(h, Room(h, 0)), b)
        BY <2>1, TerminateSound
      <4> QED
        BY <1>3, <3>1, <4>1, <4>2, StatusKinds, CommitEffect DEF Calls
    <3>3. CASE ~ start + n + CanarySize + 1 >= h.maxSize
      <4> DEFINE len == at + CopiedSize(room, tail, 0)
      <4>1. Commit("insert", b, cur + n, Terminate(CopyTo(h, at, h.data, start, tail), len),
                   CopyStatus(room, tail))
        BY <1>3, <2>4, <3>3 DEF Insert
      <4>2. at \in 0 .. Capacity[b]
        BY <1>1, <2>1, <3>3, SizeAssumption
      <4>3. Readable(h.data, start, tail)
        <5>1. start \in 0 .. cur /\ start + tail <= cur
          BY <1>1, <2>1, <2>4
        <5> HIDE DEF h, tail
        <5> QED
          BY <2>1, <3>1, <5>1, ContentReadable
      <4> HIDE DEF h, cur, at, tail
      <4> QED
        BY <1>1, <1>3, <2>1, <3>1, <4>1, <4>2, <4>3, CopyInEffect DEF Calls
    <3> QED
      BY <3>2, <3>3
  <2> QED
    BY <2>2, <2>3, <2>4
<1> QED
  BY <1>2, <1>3

\* Filling a part of the content leaves the terminator and the canaries alone.
LEMMA FillSound ==
    ASSUME NEW b \in Bufs, NEW h, Sound(h, b), NEW at \in Nat, NEW n \in Nat,
           at + n <= h.curSize, NEW v \in Cell
    PROVE  Sound([h EXCEPT !.data = Fill(@, at, n, v)], b)
<1> DEFINE c   == Capacity[b]
           m   == c + CanarySize
           new == Fill(h.data, at, n, v)
<1>1. /\ Shielded(h, b) /\ h \in Structure(b) /\ c \in Nat /\ h.curSize \in 0 .. c
      /\ h.data \in [0 .. m -> Cell] /\ m \in Nat /\ Load(h.data, h.curSize) = NUL
  BY SBufferAssumption, SizeAssumption DEF Sound, Shielded, Structure
<1>2. new \in [0 .. m -> Cell] /\ SameOutside(m, new, h.data, at, n)
  <2>1. at + n <= m + 1
    BY <1>1, SizeAssumption
  <2>2. h.data \in [0 .. m -> Cell] /\ m \in Nat
    BY <1>1
  <2> HIDE DEF m
  <2> QED
    BY <2>1, <2>2, FillInside
<1> HIDE DEF new
<1>3. SameTrail(b, new, h.data)
  <2> SUFFICES ASSUME NEW i \in c + 1 .. c + CanarySize PROVE new[i] = h.data[i]
    BY DEF SameTrail
  <2>1. i \in 0 .. m /\ i \notin at .. at + n - 1
    BY <1>1, SizeAssumption
  <2> QED
    BY <1>2, <2>1 DEF SameOutside
<1>4. Load(new, h.curSize) = NUL
  <2>1. h.curSize \in 0 .. m /\ h.curSize \notin at .. at + n - 1
    BY <1>1, SizeAssumption
  <2> QED
    BY <1>1, <1>2, <2>1 DEF SameOutside, Load
<1>5. /\ Shielded([h EXCEPT !.data = new], b)
      /\ [h EXCEPT !.data = new].curSize = h.curSize
      /\ [h EXCEPT !.data = new].data = new
  BY <1>1, <1>2, <1>3, NewDataShields
<1>6. [h EXCEPT !.data = new] = [h EXCEPT !.data = Fill(@, at, n, v)]
  BY DEF new
<1> QED
  BY <1>4, <1>5, <1>6 DEF Sound

LEMMA SetRangeEffect ==
    ASSUME TypeOK, NEW b \in Bufs, NEW start \in Nat, NEW n \in Nat, NEW v \in Values,
           SetRange(b, start, n, v)
    PROVE  Effect(b)
<1> DEFINE h      == CheckedOut(b)
           actual == IF start + n > h.curSize THEN h.curSize - start ELSE n
           st     == IF actual < n THEN "SSM_TRUNCATED" ELSE "SSM_OK"
           new    == [h EXCEPT !.data = Fill(@, start, actual, v)]
<1>1. CASE start > SizeMax \/ n > SizeMax \/ ~ Check(b)
  <2>1. \/ Return("set_range", b, n, "SSM_SIZETOOLARGE")
        \/ Return("set_range", b, n, "SSM_CORRUPTED")
    BY <1>1 DEF SetRange
  <2> QED
    BY <2>1, RefusedEffect DEF Calls
<1>2. CASE ~ (start > SizeMax \/ n > SizeMax) /\ Check(b)
  <2>1. CASE (start = h.curSize /\ n = 0) \/ start >= h.curSize
    <3>1. \/ Commit("set_range", b, n, h, "SSM_OK")
          \/ Commit("set_range", b, n, h, "SSM_TRUNCATED")
      BY <1>2, <2>1 DEF SetRange
    <3> QED
      BY <1>2, <3>1, StatusKinds, KeptEffect DEF Calls
  <2>2. CASE ~ (start = h.curSize /\ n = 0) /\ ~ start >= h.curSize
    <3>1. Commit("set_range", b, n, new, st)
      BY <1>2, <2>2 DEF SetRange
    <3>2. Sound(h, b) /\ h.curSize \in Nat
      BY <1>2, Ready
    <3>3. actual \in Nat /\ start + actual <= h.curSize
      BY <2>2, <3>2
    <3>4. v \in Cell
      BY SBufferAssumption DEF Byte, Cell
    <3>5. Sound(new, b)
      <4> HIDE DEF h, actual
      <4> QED
        BY <3>2, <3>3, <3>4, FillSound
    <3>6. st \in Successes /\ st \in Statuses
      BY StatusKinds
    <3> HIDE DEF new, st
    <3> QED
      BY <1>2, <3>1, <3>5, <3>6, CommitEffect DEF Calls
  <2> QED
    BY <2>1, <2>2
<1> QED
  BY <1>1, <1>2

\* Every call on a buffer has one of the two effects.
LEMMA OperationEffect ==
    ASSUME TypeOK, NEW b \in Bufs, Operation(b)
    PROVE  Effect(b)
<1>1. CASE \E text \in Texts, n \in Sizes : Import(b, text, n)
  BY <1>1, ImportEffect
<1>2. CASE \E text \in Texts, n \in Sizes : ImportString(b, text, n)
  BY <1>2, ImportStringEffect, SBufferAssumption
<1>3. CASE \E text \in Texts : ImportString(b, text, buf[b].maxSize)
  <2>1. buf[b].maxSize \in Nat
    BY SBufferAssumption, SizeAssumption DEF TypeOK, Structure
  <2> QED
    BY <1>3, <2>1, ImportStringEffect
<1>4. CASE \E s \in Bufs \cup {NULL} : Copy(b, s)
  BY <1>4, CopyEffect
<1>5. CASE \E s \in Bufs \cup {NULL} : Concat(b, s)
  BY <1>5, ConcatEffect
<1>6. CASE \E n \in Sizes : Resize(b, n)
  BY <1>6, ResizeEffect
<1>7. CASE \E start, n \in Sizes : Insert(b, start, n)
  BY <1>7, InsertEffect
<1>8. CASE \E start, n \in Sizes, v \in Values : SetRange(b, start, n, v)
  BY <1>8, SetRangeEffect, SBufferAssumption
<1>9. CASE \E v \in Values : SetRange(b, 0, buf[b].curSize, v)
  <2>1. buf[b].curSize \in Nat
    BY SBufferAssumption DEF TypeOK, Structure
  <2> QED
    BY <1>9, <2>1, SetRangeEffect
<1> QED
  BY <1>1, <1>2, <1>3, <1>4, <1>5, <1>6, <1>7, <1>8, <1>9 DEF Operation

-----------------------------------------------------------------------------
(* The invariant.                                                          *)

LEMMA CheckIsInOrder ==
    ASSUME NEW b
    PROVE  (Check(b) <=> InOrder(buf[b])) /\ (Check(b)' <=> InOrder(buf'[b]))
  BY DEF Check, InOrder, Consistent, Pristine, Guarded, Load, Holds

LEMMA SoundInOrder ==
    ASSUME NEW b \in Bufs, NEW h, Sound(h, b) PROVE InOrder(h)
<1>1. /\ h.maxSize = Capacity[b] + CanarySize + 1 /\ h.curSize \in 0 .. Capacity[b]
      /\ Capacity[b] \in Nat /\ Capacity[b] + CanarySize + 1 <= SizeMax
  BY SBufferAssumption DEF Sound, Shielded, Structure
<1>2. Consistent(h)
  BY <1>1, SizeAssumption DEF Sound, Consistent
<1> QED
  BY <1>2 DEF Sound, Shielded, InOrder

LEMMA InitInvariant == Init => IInv
<1> SUFFICES ASSUME Init PROVE IInv
  OBVIOUS
<1>1. ASSUME NEW b \in Bufs
      PROVE  buf[b] \in Structure(b) /\ InOrder(buf[b])
  <2> DEFINE c == Capacity[b]
  <2>1. buf[b] = Declared(c) /\ c \in Nat /\ c + CanarySize + 1 <= SizeMax
    BY SBufferAssumption DEF Init
  <2>2. Declared(c) \in Structure(b)
    BY <2>1, SizeAssumption DEF Declared, Structure, Cell, LEAD, NUL
  <2>3. Consistent(Declared(c)) /\ Pristine(Declared(c))
    BY <2>1, SizeAssumption DEF Declared, Consistent, Pristine, Load
  <2> QED
    BY <2>1, <2>2, <2>3 DEF InOrder
<1>2. last \in Outcome
  BY StatusKinds DEF Init, Outcome, Calls
<1>3. TypeOK
  BY <1>1, <1>2 DEF TypeOK, Init
<1> QED
  BY <1>1, <1>3, CheckIsInOrder DEF IInv, NoFalseAlarm, DamageStaysVisible, Init

\* A structure an application has overrun fails the checks.
LEMMA OverrunShows ==
    ASSUME IInv, NEW b \in Bufs, Overrun(b)
    PROVE  \E h \in Structure(b) : ~ InOrder(h) /\ buf' = [buf EXCEPT ![b] = h]
<1> DEFINE h == buf[b]
           c == Capacity[b]
           m == c + CanarySize
<1>1. /\ h \in Structure(b) /\ c \in Nat /\ h.maxSize = c + CanarySize + 1
      /\ h.curSize \in 0 .. c /\ h.data \in [0 .. m -> Cell] /\ m \in Nat
  BY SBufferAssumption, SizeAssumption DEF IInv, TypeOK, Structure
<1>2. Spoilt \in Cell /\ Spoilt # NUL /\ Spoilt # TRAIL /\ Spoilt # LEAD /\ Spoilt # UPDATE
  BY DEF Spoilt, Cell, NUL, TRAIL, LEAD, UPDATE
<1>3. ASSUME NEW i \in GuardCells(h), buf' = [buf EXCEPT ![b].data = Fill(@, i, 1, Spoilt)]
      PROVE  \E g \in Structure(b) : ~ InOrder(g) /\ buf' = [buf EXCEPT ![b] = g]
  <2> DEFINE new == Fill(h.data, i, 1, Spoilt)
             g   == [h EXCEPT !.data = new]
  <2>1. i \in 0 .. m /\ (i = h.curSize \/ (i \in c + 1 .. m /\ ~ Pristine(h)))
    BY <1>1, SizeAssumption DEF GuardCells
  <2>2. new = [j \in 0 .. m |-> IF j \in {i} THEN Spoilt ELSE h.data[j]]
    <3>1. DOMAIN h.data \cup (i .. i + 1 - 1) = 0 .. m /\ i .. i + 1 - 1 = {i}
      BY <1>1, <2>1
    <3> QED
      BY <3>1 DEF Fill
  <2>3. new \in [0 .. m -> Cell] /\ Load(new, i) = Spoilt
    <3> HIDE DEF m, new
    <3> QED
      BY <1>1, <1>2, <2>1, <2>2 DEF Load
  <2> HIDE DEF new
  <2>4. /\ g \in Structure(b) /\ g.data = new /\ g.curSize = h.curSize
        /\ g.canary = h.canary /\ g.maxSize = h.maxSize
    BY <1>1, <2>3 DEF Structure
  <2>5. buf' = [buf EXCEPT ![b] = g]
    BY <1>3 DEF new
  <2> HIDE DEF g
  <2>6. ~ InOrder(g)
    <3>1. CASE i = h.curSize
      BY <1>2, <2>3, <2>4, <3>1 DEF InOrder, Consistent
    <3>2. CASE i \in c + 1 .. m /\ ~ Pristine(h)
      <4>1. ~ Pristine(g) /\ CanarySize > 0
        BY <1>1, <2>4, <3>2, SizeAssumption DEF Pristine
      <4>2. i \in g.maxSize - CanarySize .. g.maxSize - CanarySize + CanarySize - 1
        BY <1>1, <2>4, <3>2, SizeAssumption
      <4>3. ~ Guarded(g)
        BY <1>2, <2>3, <2>4, <4>2 DEF Guarded, Holds
      <4> QED
        BY <4>1, <4>3 DEF InOrder
    <3> QED
      BY <2>1, <3>1, <3>2
  <2> QED
    BY <2>4, <2>5, <2>6
<1>4. ASSUME CanarySize > 0, buf' = [buf EXCEPT ![b].canary = Spoilt]
      PROVE  \E g \in Structure(b) : ~ InOrder(g) /\ buf' = [buf EXCEPT ![b] = g]
  <2> DEFINE g == [h EXCEPT !.canary = Spoilt]
  <2>1. g \in Structure(b) /\ g.canary = Spoilt
    BY <1>1, <1>2 DEF Structure
  <2>2. ~ InOrder(g)
    BY <1>2, <1>4, <2>1 DEF InOrder, Pristine, Guarded
  <2> QED
    BY <1>4, <2>1, <2>2
<1> QED
  BY <1>3, <1>4 DEF Overrun

\* A call keeps the invariant.
LEMMA EffectKeepsInvariant ==
    ASSUME IInv, NEW b \in Bufs, Effect(b) PROVE IInv'
<1>1. CASE buf' = buf
  BY <1>1, CheckIsInOrder
     DEF Effect, IInv, TypeOK, NoFalseAlarm, DamageStaysVisible
<1>2. ASSUME Check(b), NEW h, Sound(h, b), buf' = [buf EXCEPT ![b] = h]
      PROVE  IInv'
  <2>1. b \notin damaged /\ damaged' = damaged
    BY <1>2 DEF IInv, DamageStaysVisible, Effect
  <2>2. h \in Structure(b) /\ InOrder(h)
    BY <1>2, SoundInOrder DEF Sound, Shielded
  <2>3. /\ DOMAIN buf' = Bufs /\ buf'[b] = h
        /\ \A c \in Bufs \ {b} : buf'[c] = buf[c]
    BY <1>2 DEF IInv, TypeOK
  <2>4. TypeOK'
    BY <2>1, <2>2, <2>3 DEF IInv, TypeOK, Effect
  <2>5. NoFalseAlarm'
    BY <2>1, <2>2, <2>3, CheckIsInOrder DEF IInv, NoFalseAlarm
  <2>6. DamageStaysVisible'
    <3>1. \A c \in damaged : c \in Bufs /\ c # b
      BY <2>1 DEF IInv, TypeOK
    <3> QED
      BY <2>1, <2>3, <3>1, CheckIsInOrder DEF IInv, DamageStaysVisible
  <2> QED
    BY <2>4, <2>5, <2>6 DEF IInv
<1> QED
  BY <1>1, <1>2 DEF Effect

\* So does an overrun.
LEMMA OverrunKeepsInvariant ==
    ASSUME IInv, NEW b \in Bufs, Overrun(b) PROVE IInv'
<1>1. PICK h \in Structure(b) : ~ InOrder(h) /\ buf' = [buf EXCEPT ![b] = h]
  BY OverrunShows
<1>2. damaged' = damaged \cup {b} /\ last' \in Outcome
  BY StatusKinds DEF Overrun, Outcome, Calls
<1>3. /\ DOMAIN buf' = Bufs /\ buf'[b] = h
      /\ \A c \in Bufs \ {b} : buf'[c] = buf[c]
  BY <1>1 DEF IInv, TypeOK
<1>4. TypeOK'
  BY <1>1, <1>2, <1>3 DEF IInv, TypeOK
<1>5. NoFalseAlarm'
  BY <1>2, <1>3, CheckIsInOrder DEF IInv, NoFalseAlarm
<1>6. DamageStaysVisible'
  <2>1. damaged \subseteq Bufs
    BY DEF IInv, TypeOK
  <2> QED
    BY <1>1, <1>2, <1>3, <2>1, CheckIsInOrder DEF IInv, DamageStaysVisible
<1> QED
  BY <1>4, <1>5, <1>6 DEF IInv

LEMMA NullObjectOutcome ==
    ASSUME NullObject
    PROVE  UNCHANGED <<buf, damaged>> /\ last' \in Outcome /\ last'.obj = NULL
  BY StatusKinds DEF NullObject, Return, Outcome, Calls

\* A step is a call on a buffer, an overrun, or changes no structure.
LEMMA StepKinds ==
    ASSUME IInv, [Next]_vars
    PROVE  \/ \E b \in Bufs : Effect(b)
           \/ \E b \in Bufs : Overrun(b)
           \/ UNCHANGED <<buf, damaged>> /\ last' \in Outcome /\ last'.obj = NULL
           \/ UNCHANGED vars
  BY OperationEffect, NullObjectOutcome DEF Next, vars, IInv

LEMMA StepInvariant == IInv /\ [Next]_vars => IInv'
<1> SUFFICES ASSUME IInv, [Next]_vars PROVE IInv'
  OBVIOUS
<1>1. CASE \E b \in Bufs : Effect(b)
  BY <1>1, EffectKeepsInvariant
<1>2. CASE \E b \in Bufs : Overrun(b)
  BY <1>2, OverrunKeepsInvariant
<1>3. CASE UNCHANGED <<buf, damaged>> /\ (last' \in Outcome \/ last' = last)
  BY <1>3, CheckIsInOrder DEF IInv, TypeOK, NoFalseAlarm, DamageStaysVisible
<1> QED
  BY <1>1, <1>2, <1>3, StepKinds DEF vars

LEMMA Invariant == Spec => []IInv
  BY InitInvariant, StepInvariant, PTL DEF Spec

-----------------------------------------------------------------------------
(* The theorems.                                                           *)

\* No call stores or loads outside the area of its buffer, and no call makes
\* the size of a buffer anything but the declared one.
THEOREM TypeCorrect == Spec => []TypeOK
<1>1. IInv => TypeOK
  BY DEF IInv
<1> QED
  BY <1>1, Invariant, PTL

\* _ssm_sbuffer_check_in() and _ssm_sbuffer_check_out() accept every buffer the
\* application has not overrun, after any sequence of calls.
THEOREM NeverAccusesASoundBuffer == Spec => []NoFalseAlarm
<1>1. IInv => NoFalseAlarm
  BY DEF IInv
<1> QED
  BY <1>1, Invariant, PTL

\* They reject for ever one that it has overrun.
THEOREM NeverHealsADamagedBuffer == Spec => []DamageStaysVisible
<1>1. IInv => DamageStaysVisible
  BY DEF IInv
<1> QED
  BY <1>1, Invariant, PTL

\* No call touches a buffer the application has overrun.
THEOREM LeavesDamagedAlone == Spec => DamagedIsLeftAlone
<1>1. IInv /\ [Next]_vars => [\A b \in damaged : buf'[b] = buf[b]]_vars
  <2> SUFFICES ASSUME IInv, [Next]_vars, NEW b \in damaged PROVE buf'[b] = buf[b]
    OBVIOUS
  <2>1. b \in Bufs /\ ~ Check(b) /\ DOMAIN buf = Bufs
    BY DEF IInv, TypeOK, DamageStaysVisible
  <2>2. ASSUME NEW c \in Bufs, Effect(c) PROVE buf'[b] = buf[b]
    BY <2>1, <2>2 DEF Effect
  <2>3. ASSUME NEW c \in Bufs, Overrun(c) PROVE buf'[b] = buf[b]
    <3>1. b # c
      BY <2>3 DEF Overrun
    <3>2. PICK h : buf' = [buf EXCEPT ![c] = h]
      BY <2>3, OverrunShows
    <3> QED
      BY <2>1, <3>1, <3>2
  <2> QED
    BY <2>2, <2>3, StepKinds DEF vars
<1> QED
  BY <1>1, Invariant, PTL DEF Spec, DamagedIsLeftAlone

\* The first call that succeeds on a buffer sets its canaries up, and they stay
\* in place until the application overruns it.
THEOREM GuardsForEver == Spec => StaysGuarded
<1> DEFINE A == CanarySize > 0 =>
                  \A b \in Bufs \ damaged' :
                      Guarded(buf[b]) \/ (last'.obj = b /\ last'.status \in Successes)
                          => Guarded(buf'[b])
<1>1. IInv /\ [Next]_vars => [A]_vars
  <2> SUFFICES ASSUME IInv, [Next]_vars, ~ UNCHANGED vars, CanarySize > 0,
                      NEW b \in Bufs \ damaged',
                      Guarded(buf[b]) \/ (last'.obj = b /\ last'.status \in Successes)
               PROVE  Guarded(buf'[b])
    OBVIOUS
  <2>1. DOMAIN buf = Bufs /\ NULL \notin Bufs
    BY SBufferAssumption DEF IInv, TypeOK
  <2>2. ASSUME NEW c \in Bufs, Effect(c) PROVE Guarded(buf'[b])
    <3>1. last'.obj = c
      BY <2>2 DEF Effect
    <3>2. CASE buf' = buf /\ last'.status \notin Successes
      BY <3>1, <3>2
    <3>3. ASSUME NEW h, Sound(h, c), buf' = [buf EXCEPT ![c] = h]
          PROVE  Guarded(buf'[b])
      <4>1. CASE b = c
        BY <2>1, <3>3, <4>1 DEF Sound, Shielded
      <4>2. CASE b # c
        BY <2>1, <3>1, <3>3, <4>2
      <4> QED
        BY <4>1, <4>2
    <3> QED
      BY <2>2, <3>2, <3>3 DEF Effect
  <2>3. ASSUME NEW c \in Bufs, Overrun(c) PROVE Guarded(buf'[b])
    <3>1. b # c /\ last'.obj = c
      BY <2>3 DEF Overrun
    <3>2. PICK h : buf' = [buf EXCEPT ![c] = h]
      BY <2>3, OverrunShows
    <3> QED
      BY <2>1, <3>1, <3>2
  <2>4. CASE UNCHANGED <<buf, damaged>> /\ last'.obj = NULL
    BY <2>1, <2>4
  <2> QED
    BY <2>2, <2>3, <2>4, StepKinds
<1> QED
  BY <1>1, Invariant, PTL DEF Spec, StaysGuarded

\* A call that reports an error may have set canaries up, but the content and
\* the length of every buffer are what they were.
THEOREM ErrorsKeepContent == Spec => ErrorKeepsContent
<1> DEFINE A == last'.status \notin Successes => \A b \in Bufs : Content(b)' = Content(b)
<1>1. IInv /\ [Next]_vars => [A]_vars
  <2> SUFFICES ASSUME IInv, [Next]_vars, ~ UNCHANGED vars, last'.status \notin Successes,
                      NEW b \in Bufs
               PROVE  Content(b)' = Content(b)
    OBVIOUS
  <2>1. DOMAIN buf = Bufs
    BY DEF IInv, TypeOK
  <2>2. buf'[b] = buf[b] => Content(b)' = Content(b)
    BY DEF Content
  <2>3. ASSUME NEW c \in Bufs, Effect(c) PROVE Content(b)' = Content(b)
    <3>1. CASE buf' = buf
      BY <2>2, <3>1
    <3>2. CASE b # c /\ \E h : buf' = [buf EXCEPT ![c] = h]
      BY <2>1, <2>2, <3>2
    <3>3. CASE b = c /\ Check(b) /\ buf' = [buf EXCEPT ![b] = CheckedOut(b)]
      <4>1. /\ buf'[b] = CheckedOut(b) /\ CheckedOut(b).curSize = buf[b].curSize
            /\ \A i \in 0 .. Capacity[b] : CheckedOut(b).data[i] = buf[b].data[i]
        BY <2>1, <3>3, CheckedOutSound DEF IInv
      <4>2. CheckedOut(b) \in Structure(b) /\ buf[b] \in Structure(b)
        BY <3>3, CheckedOutSound DEF IInv, TypeOK, Sound, Shielded
      <4>3. ASSUME NEW i \in 1 .. buf[b].curSize
            PROVE  Load(CheckedOut(b).data, i - 1) = Load(buf[b].data, i - 1)
        <5>1. /\ i - 1 \in 0 .. Capacity[b] /\ i - 1 \in 0 .. Capacity[b] + CanarySize
          BY <4>2, SBufferAssumption, SizeAssumption DEF Structure
        <5> QED
          BY <4>1, <4>2, <5>1 DEF Structure, Load
      <4> QED
        BY <4>1, <4>3 DEF Content
    <3> QED
      BY <2>3, <3>1, <3>2, <3>3 DEF Effect
  <2>4. ASSUME NEW c \in Bufs, Overrun(c) PROVE FALSE
    BY <2>4, StatusKinds DEF Overrun
  <2>5. CASE UNCHANGED <<buf, damaged>>
    BY <2>2, <2>5
  <2> QED
    BY <2>3, <2>4, <2>5, StepKinds
<1> QED
  BY <1>1, Invariant, PTL DEF Spec, ErrorKeepsContent

\* The address, the length and the maximum length of a buffer show a string of
\* its area: of an overrun one too, since the build with canaries shows an empty
\* string in its place.
THEOREM ShowsAStringAlways == Spec => []ShowsAString
<1>1. IInv => ShowsAString
  <2> SUFFICES ASSUME IInv, NEW b \in Bufs, CanarySize > 0 \/ b \notin damaged
               PROVE  /\ 0 .. ShownLength(b) \subseteq DOMAIN ShownBytes(b)
                      /\ ShownBytes(b)[ShownLength(b)] = NUL
                      /\ ShownLength(b) <= ShownMaxLength(b)
                      /\ ShownMaxLength(b) \in {0, Capacity[b]}
    BY DEF ShowsAString
  <2> DEFINE h == buf[b]
  <2>1. CASE Hidden(b)
    BY <2>1 DEF ShownLength, ShownBytes, ShownMaxLength
  <2>2. CASE ~ Hidden(b)
    <3>1. Check(b)
      BY <2>2, SizeAssumption DEF Hidden, IInv, NoFalseAlarm
    <3>2. /\ h.data \in [0 .. Capacity[b] + CanarySize -> Cell] /\ h.curSize \in 0 .. Capacity[b]
          /\ Capacity[b] \in Nat /\ Room(h, 0) = Capacity[b] /\ Load(h.data, h.curSize) = NUL
      BY <3>1, Rooms, SBufferAssumption, SizeAssumption
         DEF IInv, TypeOK, Structure, Room, Check, Consistent
    <3>3. h.curSize \in DOMAIN h.data /\ 0 .. h.curSize \subseteq DOMAIN h.data
      BY <3>2, SizeAssumption
    <3>4. h.data[h.curSize] = NUL
      BY <3>2, <3>3 DEF Load
    <3> QED
      BY <2>2, <3>2, <3>3, <3>4 DEF ShownLength, ShownBytes, ShownMaxLength
  <2> QED
    BY <2>1, <2>2
<1> QED
  BY <1>1, Invariant, PTL

=============================================================================
