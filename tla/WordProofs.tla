----------------------------- MODULE WordProofs -----------------------------
(***************************************************************************)
(* What ssm_set(), ssm_cstring_length(), ssm_copy() and ssm_compare() do    *)
(* with words, for every size of a word, every alignment and every size.   *)
(*                                                                         *)
(* The argument for ssm_set(): the bytes from the start of the area to the  *)
(* pointer of the current loop are set and no other is (SetUpTo); the word  *)
(* loop stops exactly at its bound because both are multiples of a word.    *)
(* For ssm_cstring_length(): no byte from the start of the string to the    *)
(* current position is null (NoNull), a word being skipped only if the test *)
(* of its bits says so; the test has no false negative since a null byte    *)
(* sets its own high bit, whether or not it receives a borrow.              *)
(* For ssm_copy(): the bytes on one side of the pointer are moved and no    *)
(* other (MovedUpTo), those to be read are as they were at first            *)
(* (UnreadIsInitial), and the registers hold the words of the source that   *)
(* the next word to store straddles, as far as they were to be moved when   *)
(* the loop was entered (Holding); the words to store are counted by Rest.  *)
(* For ssm_compare(): the bytes before the pointer are the same or the      *)
(* first that differs has been found (Verdict), the registers hold the next *)
(* words to compare (Pairs), counted by RestPairs.                          *)
(***************************************************************************)
EXTENDS WordLoops, WellFoundedInduction, TLAPS

-----------------------------------------------------------------------------
(* Words.                                                                  *)

Multiple(addr) == \E q \in Nat : addr = WordSize * q

\* Rounding down loses less than a word.
LEMMA RoundDownIs ==
    ASSUME NEW addr \in Nat
    PROVE  /\ RoundDown(addr) \in Nat /\ Multiple(RoundDown(addr))
           /\ RoundDown(addr) <= addr /\ addr < RoundDown(addr) + WordSize
<1> DEFINE q == addr \div WordSize
           r == addr % WordSize
<1>1. WordSize \in Nat /\ WordSize > 0
  BY WordAccessAssumption
<1>2. q \in Nat /\ r \in 0 .. WordSize - 1 /\ addr = WordSize * q + r
  BY <1>1
<1>3. RoundDown(addr) = addr - r
  BY DEF RoundDown
<1> HIDE DEF q, r
<1>4. addr - r = WordSize * q
  BY <1>1, <1>2
<1>5. Multiple(addr - r)
  BY <1>2, <1>4 DEF Multiple
<1>6. addr - r \in Nat /\ addr - r <= addr /\ addr < addr - r + WordSize
  <2>1. WordSize * q \in Nat
    BY <1>1, <1>2
  <2> QED
    BY <1>1, <1>2, <1>4, <2>1
<1> QED
  BY <1>3, <1>5, <1>6

LEMMA AlignedIsMultiple ==
    ASSUME NEW addr \in Nat, Aligned(addr) PROVE Multiple(addr)
  BY RoundDownIs DEF Aligned, RoundDown

\* The next multiple of a word is a word away.
LEMMA NextMultiple ==
    ASSUME NEW a \in Nat, NEW b \in Nat, Multiple(a), Multiple(b), a < b
    PROVE  a + WordSize <= b /\ Multiple(a + WordSize)
<1>1. WordSize \in Nat /\ WordSize > 0
  BY WordAccessAssumption
<1>2. PICK p \in Nat : a = WordSize * p
  BY DEF Multiple
<1>3. PICK q \in Nat : b = WordSize * q
  BY DEF Multiple
<1>4. p < q
  <2> SUFFICES ASSUME q <= p PROVE FALSE
    BY <1>2, <1>3
  <2>1. PICK d \in Nat : p = q + d
    <3>1. p - q \in Nat /\ p = q + (p - q)
      OBVIOUS
    <3> QED
      BY <3>1
  <2>2. WordSize * p = WordSize * q + WordSize * d /\ WordSize * d \in Nat
    BY <1>1, <2>1
  <2> QED
    BY <1>2, <1>3, <2>2
<1>5. PICK d \in Nat : q = p + 1 + d
  <2>1. q - p - 1 \in Nat /\ q = p + 1 + (q - p - 1)
    BY <1>4
  <2> QED
    BY <2>1
<1>6. WordSize * q = WordSize * p + WordSize + WordSize * d /\ WordSize * d \in Nat
  BY <1>1, <1>5
<1>7. a + WordSize <= b
  BY <1>1, <1>2, <1>3, <1>6
<1>8. a + WordSize = WordSize * (p + 1) /\ p + 1 \in Nat
  BY <1>1, <1>2
<1> QED
  BY <1>7, <1>8 DEF Multiple

\* A non-empty set of natural numbers has a smallest one.
LEMMA SmallestOf ==
    ASSUME NEW T \in SUBSET Nat, T # {}
    PROVE  \E x \in T : \A y \in T : x <= y
<1> DEFINE R == OpToRel(<, Nat)
<1>1. \E x \in T : \A y \in T : ~ (<<y, x>> \in R)
  <2>1. IsWellFoundedOn(R, Nat)
    BY NatLessThanWellFounded
  <2> HIDE DEF R
  <2> QED
    BY <2>1, WFMin
<1>2. \A x, y \in Nat : <<y, x>> \in R <=> y < x
  BY DEF OpToRel
<1> HIDE DEF R
<1>3. PICK x \in T : \A y \in T : ~ (<<y, x>> \in R)
  BY <1>1
<1>4. ASSUME NEW y \in T PROVE x <= y
  <2>1. x \in Nat /\ y \in Nat /\ ~ y < x
    BY <1>2, <1>3
  <2> QED
    BY <2>1
<1> QED
  BY <1>4

\* The test of the bits of a word sees every null byte.
LEMMA NullIsSeen ==
    ASSUME NEW word, NEW k \in 0 .. WordSize - 1, word[k] = NUL
    PROVE  MayHoldNull(word)
<1> DEFINE borrow(i) ==
        IF \E j \in 0 .. i - 1 : word[j] = 0 /\ \A m \in j + 1 .. i - 1 : word[m] <= 1
        THEN 1 ELSE 0
<1>1. borrow(k) \in {0, 1}
  OBVIOUS
<1> HIDE DEF borrow
<1>2. (0 - 1 - borrow(k)) % 256 >= 128
  BY <1>1
<1>3. (word[k] - 1 - borrow(k)) % 256 >= 128 /\ word[k] < 128
  BY <1>2 DEF NUL
<1> QED
  BY <1>3 DEF MayHoldNull, borrow

-----------------------------------------------------------------------------
(* The primitives do not interfere.                                        *)

SetLabels == {"set", "set_align", "set_words", "set_tail", "done"}
LengthLabels == {"length", "length_bytes", "length_words", "length_end", "done"}
CopyLabels == {"start", "align", "loop", "last", "tail", "return", "done"}
CompareLabels == {"compare", "compare_align", "compare_after", "compare_loop",
                  "compare_last", "compare_tail", "done"}

\* A step of a call is one of its function and leaves its arguments alone.
LEMMA StepOfCall ==
    ASSUME Next
    PROVE  /\ call' = call
           /\ pc \in SetLabels => SetNext
           /\ pc \in LengthLabels => LengthNext
           /\ pc \in CopyLabels => CopyNext
           /\ pc \in CompareLabels => CompareNext
<1>1. ASSUME CopyNext
      PROVE  call' = call /\ pc \in CopyLabels \ {"done"}
  BY <1>1 DEF CopyNext, Start, AlignByte, EnterLoop, SkipLoop, CopyWord, LastWord, LeaveWords, TailByte,
              Return, MoveByte, CopyLabels
<1>2. ASSUME SetNext
      PROVE  call' = call /\ pc \in SetLabels \ {"done"}
  BY <1>2 DEF SetNext, SetStart, SetAlignByte, SetEnterWords, SetWord, SetLeaveWords,
              SetTailByte, SetReturn, SetByte, SetLabels
<1>3. ASSUME LengthNext
      PROVE  call' = call /\ pc \in LengthLabels \ {"done"}
  BY <1>3 DEF LengthNext, LengthStart, LengthByte, LengthEnterWords, LengthWord,
              LengthLeaveWords, LengthEnd, LengthLabels
<1>4. ASSUME CompareNext
      PROVE  call' = call /\ pc \in CompareLabels \ {"done"}
  BY <1>4 DEF CompareNext, CompareStart, CompareAlignByte, CompareEnterLoop, CompareSkipWords,
              CompareWord, CompareLastWord, CompareAfterWords, CompareTailByte, CompareEnd,
              CompareByte, CompareLabels
<1> QED
  BY <1>1, <1>2, <1>3, <1>4 DEF Next, SetLabels, LengthLabels, CopyLabels, CompareLabels

-----------------------------------------------------------------------------
(* ssm_set().                                                              *)

\* In the memory m, the bytes of the area before p are set, and no other
SetsUpTo(p, m) ==
    /\ p \in call.dest .. EndDest
    /\ m = Fill(Initial, call.dest, p - call.dest, call.value)

SetUpTo(p) == SetsUpTo(p, mem)

\* What is set at each label, for an area of a legal size
SetProgress ==
    /\ EndDest <= MemSize
    /\ pc = "set" => SetUpTo(call.dest)
    /\ pc \in {"set_align", "set_tail"} => SetUpTo(to)
    /\ pc = "set_words" =>
          /\ SetUpTo(dstp) /\ Multiple(dstp)
          /\ to \in dstp .. EndDest /\ Multiple(to)
    /\ pc = "done" => SetUpTo(EndDest)

SetInv ==
    /\ call.dest \in Nat /\ call.destSize \in Nat
    /\ pc \in SetLabels
    /\ IF call.destSize > SizeMax THEN pc \in {"set", "done"} /\ mem = Initial
       ELSE SetProgress

\* One more byte, or word, is set.
LEMMA SetMore ==
    ASSUME NEW p, NEW n \in Nat, NEW new,
           call.dest \in Nat, call.destSize \in Nat,
           SetUpTo(p), p + n <= EndDest, EndDest <= MemSize,
           call' = call, mem' = Fill(mem, p, n, call.value)
    PROVE  SetsUpTo(p + n, mem')
<1> DEFINE d == call.dest
           e == EndDest
           v == call.value
<1>1. /\ d \in Nat /\ e \in Nat /\ p \in d .. e /\ e <= MemSize /\ MemSize \in Nat
      /\ mem = Fill(Initial, d, p - d, v) /\ EndDest' = e
  BY WordAccessAssumption DEF SetUpTo, SetsUpTo, EndDest
<1>2. /\ DOMAIN Initial = 0 .. MemSize - 1
      /\ (0 .. MemSize - 1) \cup (d .. d + (p - d) - 1) = 0 .. MemSize - 1
      /\ (0 .. MemSize - 1) \cup (d .. d + (p + n - d) - 1) = 0 .. MemSize - 1
      /\ (0 .. MemSize - 1) \cup (p .. p + n - 1) = 0 .. MemSize - 1
  BY <1>1 DEF Initial
<1>3. mem = [i \in 0 .. MemSize - 1 |-> IF i \in d .. d + (p - d) - 1 THEN v ELSE Initial[i]]
  BY <1>1, <1>2 DEF Fill
<1>4. mem' = [i \in 0 .. MemSize - 1 |-> IF i \in p .. p + n - 1 THEN v ELSE mem[i]]
  BY <1>2, <1>3 DEF Fill
<1>5. Fill(Initial, d, p + n - d, v) =
        [i \in 0 .. MemSize - 1 |-> IF i \in d .. d + (p + n - d) - 1 THEN v ELSE Initial[i]]
  BY <1>2 DEF Fill
<1>6. mem' = Fill(Initial, d, p + n - d, v)
  <2> SUFFICES ASSUME NEW i \in 0 .. MemSize - 1
               PROVE  (IF i \in p .. p + n - 1 THEN v ELSE mem[i]) =
                      (IF i \in d .. d + (p + n - d) - 1 THEN v ELSE Initial[i])
    BY <1>4, <1>5
  <2>1. mem[i] = IF i \in d .. d + (p - d) - 1 THEN v ELSE Initial[i]
    BY <1>3
  <2> HIDE DEF d, e, v
  <2>2. i \in d .. d + (p + n - d) - 1 <=> (i \in d .. d + (p - d) - 1 \/ i \in p .. p + n - 1)
    BY <1>1
  <2> QED
    BY <2>1, <2>2
<1>7. p + n \in d .. e
  BY <1>1
<1> QED
  BY <1>1, <1>6, <1>7 DEF SetUpTo, SetsUpTo

\* Nothing is set at first.
LEMMA SetNothing ==
    ASSUME call.dest \in Nat, call.destSize \in Nat, EndDest <= MemSize, mem = Initial
    PROVE  SetUpTo(call.dest)
<1>1. /\ call.dest .. call.dest + (call.dest - call.dest) - 1 = {}
      /\ call.dest \in call.dest .. EndDest
  BY DEF EndDest
<1>2. DOMAIN Initial \cup {} = 0 .. MemSize - 1
  BY DEF Initial
<1>3. Fill(Initial, call.dest, call.dest - call.dest, call.value) =
        [i \in 0 .. MemSize - 1 |-> IF i \in {} THEN call.value ELSE Initial[i]]
  BY <1>1, <1>2 DEF Fill
<1>4. Fill(Initial, call.dest, call.dest - call.dest, call.value) = Initial
  BY <1>3 DEF Initial
<1> QED
  BY <1>1, <1>4 DEF SetUpTo, SetsUpTo

\* A word of which every byte is the value is stored as by memset().
LEMMA StoreIsFill ==
    ASSUME NEW p \in Nat, NEW v, StoreWord(p, [k \in 0 .. WordSize - 1 |-> v])
    PROVE  mem' = Fill(mem, p, WordSize, v)
<1> DEFINE word == [k \in 0 .. WordSize - 1 |-> v]
<1>1. ASSUME NEW i \in p .. p + WordSize - 1 PROVE Load(word, 0 + (i - p)) = v
  <2>1. 0 + (i - p) \in 0 .. WordSize - 1
    BY WordAccessAssumption
  <2> QED
    BY <2>1 DEF Load
<1> HIDE DEF word
<1>2. mem' = Move(mem, p, word, 0, WordSize)
  BY DEF StoreWord, word
<1> QED
  BY <1>1, <1>2 DEF Move, Fill

LEMMA SetStepInvariant ==
    ASSUME SetInv, SetNext, call' = call
    PROVE  SetInv'
<1> DEFINE d == call.dest
           e == EndDest
<1>1. /\ d \in Nat /\ call.destSize \in Nat /\ e \in Nat /\ d <= e /\ EndDest' = e
      /\ WordSize \in Nat /\ WordSize > 0 /\ MemSize \in Nat /\ SizeMax \in Nat
      /\ call'.dest = d /\ call'.destSize = call.destSize
  BY WordAccessAssumption, SizeAssumption DEF SetInv, EndDest
<1>2. ASSUME mem' = mem
      PROVE  \A p : SetUpTo(p) => SetUpTo(p)'
  BY <1>1, <1>2 DEF SetUpTo, SetsUpTo
<1>3. CASE call.destSize > SizeMax
  <2>1. pc \in {"set", "done"} /\ mem = Initial
    BY <1>3 DEF SetInv
  <2>2. SetStart /\ pc' = "done" /\ mem' = mem
    BY <1>3, <2>1 DEF SetNext, SetStart, SetAlignByte, SetEnterWords, SetWord, SetLeaveWords,
                      SetTailByte, SetReturn
  <2> QED
    BY <1>1, <1>3, <2>1, <2>2 DEF SetInv, SetLabels
<1>4. CASE ~ call.destSize > SizeMax
  <2>1. SetProgress /\ e <= MemSize
    BY <1>4 DEF SetInv, SetProgress
  <2>2. SUFFICES SetProgress' /\ pc' \in SetLabels
    BY <1>1, <1>4 DEF SetInv
  <2>3. CASE SetStart
    <3>1. /\ pc = "set" /\ mem' = mem /\ to' = d /\ pc' \in {"set_align", "set_tail"}
      BY <1>4, <2>3 DEF SetStart
    <3>2. SetUpTo(d)'
      BY <1>2, <2>1, <3>1 DEF SetProgress
    <3>3. SetUpTo(to)'
      BY <1>1, <3>1, <3>2 DEF SetUpTo, SetsUpTo
    <3> QED
      BY <1>1, <2>1, <3>1, <3>3 DEF SetProgress, SetLabels
  <2>4. CASE SetAlignByte \/ SetTailByte
    <3>1. /\ pc \in {"set_align", "set_tail"} /\ pc' = pc /\ to < e /\ to' = to + 1
          /\ mem' = Fill(mem, to, 1, call.value)
      BY <2>4 DEF SetAlignByte, SetTailByte, SetByte
    <3>2. SetUpTo(to) /\ to \in d .. e
      BY <2>1, <3>1 DEF SetProgress, SetUpTo, SetsUpTo
    <3>3. to + 1 <= e
      BY <1>1, <3>1, <3>2
    <3>4. SetsUpTo(to + 1, mem')
      BY <1>1, <2>1, <3>1, <3>2, <3>3, SetMore
    <3>5. SetUpTo(to)'
      BY <1>1, <3>1, <3>4 DEF SetUpTo, SetsUpTo
    <3> QED
      BY <1>1, <2>1, <3>1, <3>5 DEF SetProgress, SetLabels
  <2>5. CASE SetEnterWords
    <3>1. pc = "set_align" /\ mem' = mem /\ (to >= e \/ Aligned(to))
      BY <2>5 DEF SetEnterWords
    <3>2. SetUpTo(to) /\ to \in d .. e
      BY <2>1, <3>1 DEF SetProgress, SetUpTo, SetsUpTo
    <3>3. CASE e - to > WordSize
      <4>1. pc' = "set_words" /\ dstp' = to /\ to' = RoundDown(e)
        BY <2>5, <3>3 DEF SetEnterWords
      <4>2. to \in Nat /\ Multiple(to)
        BY <1>1, <3>1, <3>2, <3>3, AlignedIsMultiple
      <4>3. RoundDown(e) \in to .. e /\ Multiple(RoundDown(e))
        BY <1>1, <3>3, <4>2, RoundDownIs
      <4>4. SetUpTo(dstp)'
        <5>1. SetUpTo(to) => mem = Fill(Initial, d, to - d, call.value)
          BY DEF SetUpTo, SetsUpTo
        <5> QED
          BY <1>1, <3>1, <3>2, <4>1, <5>1 DEF SetUpTo, SetsUpTo
      <4>5. (Multiple(dstp) /\ to \in dstp .. EndDest /\ Multiple(to))'
        BY <1>1, <4>1, <4>2, <4>3 DEF Multiple
      <4> QED
        BY <1>1, <2>1, <4>1, <4>4, <4>5 DEF SetProgress, SetLabels
    <3>4. CASE ~ e - to > WordSize
      <4>1. pc' = "set_tail" /\ to' = to
        BY <2>5, <3>4 DEF SetEnterWords
      <4>2. SetUpTo(to)'
        BY <1>1, <3>1, <3>2, <4>1 DEF SetUpTo, SetsUpTo
      <4> QED
        BY <1>1, <2>1, <4>1, <4>2 DEF SetProgress, SetLabels
    <3> QED
      BY <3>3, <3>4
  <2>6. CASE SetWord
    <3>1. /\ pc = "set_words" /\ pc' = pc /\ to' = to /\ dstp < to /\ dstp' = dstp + WordSize
          /\ StoreWord(dstp, [k \in 0 .. WordSize - 1 |-> call.value])
      BY <2>6 DEF SetWord
    <3>2. SetUpTo(dstp) /\ Multiple(dstp) /\ to \in dstp .. e /\ Multiple(to)
      BY <2>1, <3>1 DEF SetProgress
    <3>3. dstp \in Nat /\ to \in Nat
      BY <1>1, <3>2 DEF SetUpTo, SetsUpTo
    <3>4. dstp + WordSize <= to /\ Multiple(dstp + WordSize)
      BY <3>1, <3>2, <3>3, NextMultiple
    <3>5. mem' = Fill(mem, dstp, WordSize, call.value)
      BY <3>1, <3>3, StoreIsFill
    <3>6. dstp + WordSize <= e /\ to \in dstp + WordSize .. e
      BY <1>1, <3>2, <3>3, <3>4
    <3>7. SetsUpTo(dstp + WordSize, mem')
      BY <1>1, <2>1, <3>2, <3>5, <3>6, SetMore
    <3>8. SetUpTo(dstp)'
      BY <1>1, <3>1, <3>7 DEF SetUpTo, SetsUpTo
    <3>9. (Multiple(dstp) /\ to \in dstp .. EndDest /\ Multiple(to))'
      BY <1>1, <3>1, <3>2, <3>4, <3>6 DEF Multiple
    <3> QED
      BY <1>1, <2>1, <3>1, <3>8, <3>9 DEF SetProgress, SetLabels
  <2>7. CASE SetLeaveWords
    <3>1. pc = "set_words" /\ dstp >= to /\ pc' = "set_tail" /\ mem' = mem /\ to' = to
      BY <2>7 DEF SetLeaveWords
    <3>2. SetUpTo(dstp) /\ to \in dstp .. e
      BY <2>1, <3>1 DEF SetProgress
    <3>3. dstp = to
      BY <1>1, <3>1, <3>2 DEF SetUpTo, SetsUpTo
    <3>4. SetUpTo(to)'
      BY <1>1, <3>1, <3>2, <3>3 DEF SetUpTo, SetsUpTo
    <3> QED
      BY <1>1, <2>1, <3>1, <3>4 DEF SetProgress, SetLabels
  <2>8. CASE SetReturn
    <3>1. pc = "set_tail" /\ to >= e /\ pc' = "done" /\ mem' = mem
      BY <2>8 DEF SetReturn
    <3>2. SetUpTo(to)
      BY <2>1, <3>1 DEF SetProgress
    <3>3. to = e
      BY <1>1, <3>1, <3>2 DEF SetUpTo, SetsUpTo
    <3>4. SetUpTo(EndDest)'
      BY <1>1, <3>1, <3>2, <3>3 DEF SetUpTo, SetsUpTo
    <3> QED
      BY <1>1, <2>1, <3>1, <3>4 DEF SetProgress, SetLabels
  <2> QED
    BY <2>3, <2>4, <2>5, <2>6, <2>7, <2>8 DEF SetNext
<1> QED
  BY <1>3, <1>4

-----------------------------------------------------------------------------
(* ssm_cstring_length().                                                   *)

\* No byte of the string before p is null
NoNull(p) ==
    /\ p \in Nat /\ call.str <= p
    /\ \A i \in call.str .. p - 1 : Load(mem, i) # NUL

\* The bound of the string is in the memory, or a null byte is
StringEnds ==
    EndStr <= MemSize \/ \E i \in call.str .. MemSize - 1 : mem[i] = NUL

\* What is known at each label, for a bound of a legal size
LengthProgress ==
    /\ StringEnds
    /\ pc = "length_bytes" => NoNull(from) /\ from <= EndStr
    /\ pc = "length_words" => NoNull(srcp) /\ found = 0
    /\ pc = "length_end" =>
          /\ NoNull(srcp + found) /\ srcp \in Nat /\ found \in Nat
          /\ srcp + found >= EndStr \/ Load(mem, srcp + found) = NUL
    /\ pc = "done" =>
          /\ NoNull(call.str + found) /\ found \in 0 .. call.maxSize
          /\ found = call.maxSize \/ Load(mem, call.str + found) = NUL

LengthInv ==
    /\ call.str \in Nat /\ call.maxSize \in Nat /\ mem \in [0 .. MemSize - 1 -> Byte]
    /\ pc \in LengthLabels
    /\ IF call.maxSize > SizeMax THEN pc = "length" \/ (pc = "done" /\ found = 0)
       ELSE LengthProgress

\* A word without a null byte is skipped.
LEMMA SkipsNoNull ==
    ASSUME call.str \in Nat, NoNull(srcp), NEW n \in Nat,
           \A k \in 0 .. n - 1 : Word(srcp)[k] # NUL, n <= WordSize
    PROVE  NoNull(srcp + n)
<1> SUFFICES ASSUME NEW i \in call.str .. srcp + n - 1 PROVE Load(mem, i) # NUL
  BY DEF NoNull
<1>1. srcp \in Nat /\ WordSize \in Nat
  BY WordAccessAssumption DEF NoNull
<1>2. CASE i < srcp
  <2>1. i \in call.str .. srcp - 1
    BY <1>1, <1>2
  <2> QED
    BY <2>1 DEF NoNull
<1>3. CASE i >= srcp
  <2> DEFINE k == i - srcp
  <2>1. k \in 0 .. n - 1 /\ k \in 0 .. WordSize - 1 /\ srcp + k = i
    BY <1>1, <1>3
  <2>2. Word(srcp)[k] = Load(mem, srcp + k)
    <3> HIDE DEF k
    <3> QED
      BY <2>1 DEF Word
  <2> HIDE DEF k
  <2> QED
    BY <2>1, <2>2
<1> QED
  BY <1>1, <1>2, <1>3

LEMMA LengthStepInvariant ==
    ASSUME LengthInv, LengthNext, call' = call
    PROVE  LengthInv'
<1> DEFINE d == call.str
           e == EndStr
<1>1. /\ d \in Nat /\ call.maxSize \in Nat /\ e = d + call.maxSize /\ e \in Nat /\ EndStr' = e
      /\ WordSize \in Nat /\ WordSize > 0 /\ SizeMax \in Nat
  BY WordAccessAssumption, SizeAssumption DEF LengthInv, EndStr
<1>2. mem' = mem
  BY DEF LengthNext, LengthStart, LengthByte, LengthEnterWords, LengthWord, LengthLeaveWords,
         LengthEnd
<1>3. ASSUME NEW p, NoNull(p)
      PROVE  \A i \in d .. p - 1 : Load(mem', i) # NUL
  BY <1>2, <1>3 DEF NoNull
<1>4. CASE call.maxSize > SizeMax
  <2>1. pc = "length" \/ (pc = "done" /\ found = 0)
    BY <1>4 DEF LengthInv
  <2>2. LengthStart /\ pc' = "done" /\ found' = 0
    BY <1>4, <2>1 DEF LengthNext, LengthStart, LengthByte, LengthEnterWords, LengthWord,
                      LengthLeaveWords, LengthEnd, LengthReturns
  <2> QED
    BY <1>2, <1>4, <2>2 DEF LengthInv, LengthLabels
<1>5. CASE ~ call.maxSize > SizeMax
  <2>1. LengthProgress
    BY <1>5 DEF LengthInv
  <2>2. SUFFICES LengthProgress' /\ pc' \in LengthLabels
    BY <1>2, <1>5 DEF LengthInv
  <2>3. StringEnds'
    BY <1>1, <1>2, <2>1 DEF LengthProgress, StringEnds
  <2>4. CASE LengthStart
    <3>1. from' = d /\ pc' = "length_bytes"
      BY <1>5, <2>4 DEF LengthStart
    <3>2. NoNull(from)' /\ (from <= EndStr)'
      BY <1>1, <3>1 DEF NoNull
    <3> QED
      BY <2>3, <3>1, <3>2 DEF LengthProgress, LengthLabels
  <2>5. CASE LengthByte
    <3>1. pc = "length_bytes"
      BY <2>5 DEF LengthByte
    <3>2. NoNull(from) /\ from <= e /\ from \in Nat /\ d <= from
      BY <2>1, <3>1 DEF LengthProgress, NoNull
    <3>3. CASE from >= e \/ Load(mem, from) = NUL
      <4>1. found' = from - d /\ pc' = "done"
        BY <2>5, <3>3 DEF LengthByte, LengthReturns
      <4>2. d + found' = from /\ found' \in 0 .. call.maxSize
        BY <1>1, <3>2, <4>1
      <4>3. NoNull(call.str + found)'
        BY <1>2, <3>2, <4>2 DEF NoNull
      <4>4. found' = call.maxSize \/ Load(mem', d + found') = NUL
        BY <1>1, <1>2, <3>2, <3>3, <4>1, <4>2
      <4> QED
        BY <2>3, <4>1, <4>2, <4>3, <4>4 DEF LengthProgress, LengthLabels
    <3>4. CASE ~ (from >= e \/ Load(mem, from) = NUL)
      <4>1. from' = from + 1 /\ pc' = "length_bytes"
        BY <2>5, <3>1, <3>4 DEF LengthByte
      <4>2. NoNull(from)'
        <5>1. \A i \in d .. from + 1 - 1 : i = from \/ i \in d .. from - 1
          BY <1>1, <3>2
        <5> QED
          BY <1>1, <1>2, <3>2, <3>4, <4>1, <5>1 DEF NoNull
      <4>3. (from <= EndStr)'
        BY <1>1, <3>2, <3>4, <4>1
      <4> QED
        BY <2>3, <4>1, <4>2, <4>3 DEF LengthProgress, LengthLabels
    <3> QED
      BY <3>3, <3>4
  <2>6. CASE LengthEnterWords
    <3>1. pc = "length_bytes" /\ srcp' = from /\ found' = 0 /\ pc' = "length_words"
      BY <2>6 DEF LengthEnterWords
    <3>2. NoNull(srcp)'
      BY <1>2, <2>1, <3>1 DEF LengthProgress, NoNull
    <3> QED
      BY <2>3, <3>1, <3>2 DEF LengthProgress, LengthLabels
  <2>7. CASE LengthWord
    <3> DEFINE word == Word(srcp)
               null == {k \in 0 .. WordSize - 1 : word[k] = NUL}
    <3>1. pc = "length_words"
      BY <2>7 DEF LengthWord
    <3>2. NoNull(srcp) /\ srcp \in Nat /\ d <= srcp /\ found = 0
      BY <2>1, <3>1 DEF LengthProgress, NoNull
    <3>3. CASE null # {}
      <4>1. PICK z \in 0 .. WordSize - 1 : word[z] = NUL
        BY <3>3
      <4>2. MayHoldNull(word)
        BY <4>1, NullIsSeen
      <4>3. found' = CHOOSE k \in null : \A j \in null : k <= j
        BY <2>7, <3>3, <4>2 DEF LengthWord
      <4>4. pc' = "length_end" /\ srcp' = srcp
        BY <2>7, <3>3, <4>2 DEF LengthWord
      <4>5. found' \in null /\ \A j \in null : found' <= j
        <5>1. null \in SUBSET Nat
          BY <1>1
        <5> HIDE DEF null
        <5>2. \E k \in null : \A j \in null : k <= j
          BY <3>3, <5>1, SmallestOf
        <5> QED
          BY <4>3, <5>2
      <4> DEFINE n == found'
      <4>6. n \in 0 .. WordSize - 1 /\ word[n] = NUL /\ n \in Nat /\ n <= WordSize
        BY <1>1, <4>5
      <4> HIDE DEF n
      <4>7. \A k \in 0 .. n - 1 : word[k] # NUL
        <5>1. ASSUME NEW k \in 0 .. n - 1, word[k] = NUL PROVE FALSE
          <6>1. k \in 0 .. WordSize - 1
            BY <1>1, <4>6
          <6>2. n <= k
            BY <4>5, <5>1, <6>1 DEF n
          <6> QED
            BY <4>6, <6>2
        <5> QED
          BY <5>1
      <4>8. NoNull(srcp + n)
        BY <1>1, <3>2, <4>6, <4>7, SkipsNoNull
      <4>9. Load(mem, srcp + n) = NUL
        BY <4>6 DEF Word
      <4>10. NoNull(srcp + found)'
        BY <1>2, <4>4, <4>8 DEF NoNull, n
      <4> QED
        BY <1>2, <2>3, <3>2, <4>4, <4>6, <4>9, <4>10 DEF LengthProgress, LengthLabels, n
    <3>4. CASE null = {}
      <4>1. srcp' = srcp + WordSize /\ found' = found /\ pc' = pc
        BY <2>7, <3>4 DEF LengthWord
      <4>2. NoNull(srcp + WordSize)
        <5>1. \A k \in 0 .. WordSize - 1 : word[k] # NUL
          BY <3>4
        <5> QED
          BY <1>1, <3>2, <5>1, SkipsNoNull
      <4>3. NoNull(srcp)'
        BY <1>2, <4>1, <4>2 DEF NoNull
      <4> QED
        BY <2>3, <3>1, <3>2, <4>1, <4>3 DEF LengthProgress, LengthLabels
    <3> QED
      BY <3>3, <3>4
  <2>8. CASE LengthLeaveWords
    <3>1. /\ pc = "length_words" /\ srcp >= e /\ pc' = "length_end"
          /\ srcp' = srcp /\ found' = found
      BY <2>8 DEF LengthLeaveWords, loop, answer
    <3>2. NoNull(srcp) /\ srcp \in Nat /\ found = 0 /\ srcp + found = srcp
      BY <2>1, <3>1 DEF LengthProgress, NoNull
    <3>3. NoNull(srcp + found)'
      BY <1>2, <3>1, <3>2 DEF NoNull
    <3> QED
      BY <1>1, <2>3, <3>1, <3>2, <3>3 DEF LengthProgress, LengthLabels
  <2>9. CASE LengthEnd
    <3> DEFINE p == srcp + found
               size == Smallest(p - d, call.maxSize)
    <3>1. pc = "length_end" /\ pc' = "done" /\ found' = size
      <4>1. pc = "length_end"
        BY <2>9 DEF LengthEnd
      <4>2. srcp \in Nat /\ found \in Nat
        BY <2>1, <4>1 DEF LengthProgress
      <4>3. srcp + (found - d) = p - d
        BY <1>1, <4>2
      <4> QED
        BY <2>9, <4>1, <4>3 DEF LengthEnd, LengthReturns
    <3>2. NoNull(p) /\ p \in Nat /\ d <= p /\ (p >= e \/ Load(mem, p) = NUL)
      BY <2>1, <3>1 DEF LengthProgress, NoNull
    <3> HIDE DEF p
    <3>3. size \in 0 .. call.maxSize /\ d + size <= p /\ (size = call.maxSize \/ d + size = p)
      BY <1>1, <3>2 DEF Smallest
    <3> HIDE DEF size
    <3>4. NoNull(d + size)
      BY <1>1, <3>2, <3>3 DEF NoNull
    <3>5. size = call.maxSize \/ Load(mem, d + size) = NUL
      BY <1>1, <3>2, <3>3
    <3>6. NoNull(call.str + found)'
      BY <1>2, <3>1, <3>4 DEF NoNull
    <3> QED
      BY <1>2, <2>3, <3>1, <3>3, <3>5, <3>6 DEF LengthProgress, LengthLabels
  <2> QED
    BY <2>4, <2>5, <2>6, <2>7, <2>8, <2>9 DEF LengthNext
<1> QED
  BY <1>4, <1>5

-----------------------------------------------------------------------------
(* ssm_copy(): what is moved and what remains.                             *)

\* From a byte of the destination to the one it comes from
Delta == call.src - call.dest

\* The memory when the bytes of the destination from p to q are those to come
Moves(p, q) == [i \in 0 .. MemSize - 1 |-> IF i \in p .. q - 1 THEN i + Delta ELSE i]

EndCopy == call.dest + Copied

\* In the memory m, the bytes on the side of p the copy starts from are moved,
\* and no other
MovesUpTo(p, m) ==
    /\ p \in call.dest .. EndCopy
    /\ m = IF Backward THEN Moves(p, EndCopy) ELSE Moves(call.dest, p)

MovedUpTo(p) == MovesUpTo(p, mem)

\* The bytes that remain on the other side
Left(p) == IF Backward THEN p - call.dest ELSE EndCopy - p

\* p after n bytes
Further(p, n) == IF Backward THEN p - n ELSE p + n

\* The first address of the n next bytes
NextBytes(p, n) == IF Backward THEN p - n ELSE p

\* An address of the source whose byte is to be moved when the copy is at p
Unread(p, x) ==
    /\ x \in call.src .. call.src + Copied - 1
    /\ IF Backward THEN x < p + Delta ELSE p + Delta <= x

-----------------------------------------------------------------------------
CopyArguments ==
    /\ call.src \in Nat /\ call.dest \in Nat /\ call.srcSize \in Nat /\ call.destSize \in Nat
    /\ call.src + Copied <= MemSize /\ EndCopy <= MemSize

\* The numbers of the proofs
LEMMA CopyNumbers ==
    ASSUME CopyArguments
    PROVE  /\ call.src \in Nat /\ call.dest \in Nat /\ Copied \in Nat /\ Delta \in Int
           /\ call.src = call.dest + Delta /\ EndCopy = call.dest + Copied
           /\ EndCopy \in Nat /\ MemSize \in Nat
           /\ call.src + Copied <= MemSize /\ EndCopy <= MemSize
           /\ Copied <= call.srcSize /\ call.srcSize \in Nat
           /\ WordSize \in Nat /\ WordSize > 0
  BY WordAccessAssumption DEF CopyArguments, Copied, Smallest, Delta, EndCopy

\* A byte is read before it is overwritten, in the direction that the code
\* chooses.
LEMMA UnreadIsInitial ==
    ASSUME CopyArguments, Delta # 0, NEW p, MovedUpTo(p), NEW x, Unread(p, x)
    PROVE  Load(mem, x) = x
<1>1. /\ call.src \in Nat /\ call.dest \in Nat /\ Copied \in Nat /\ Delta \in Int
      /\ call.src = call.dest + Delta /\ EndCopy = call.dest + Copied
      /\ MemSize \in Nat /\ call.src + Copied <= MemSize
      /\ Copied <= call.srcSize /\ call.srcSize \in Nat
  BY CopyNumbers
<1>2. p \in call.dest .. EndCopy /\ x \in 0 .. MemSize - 1 /\ x \in Nat
  BY <1>1 DEF MovedUpTo, MovesUpTo, Unread
<1>3. CASE Backward
  <2>1. mem = Moves(p, EndCopy) /\ x < p + Delta /\ Delta < 0
    BY <1>1, <1>3 DEF MovedUpTo, MovesUpTo, Unread, Backward
  <2>2. x \notin p .. EndCopy - 1
    BY <1>1, <1>2, <2>1
  <2> QED
    BY <1>2, <2>1, <2>2 DEF Moves, Load
<1>4. CASE ~ Backward
  <2>1. mem = Moves(call.dest, p) /\ p + Delta <= x /\ x < call.src + Copied
    BY <1>1, <1>4 DEF MovedUpTo, MovesUpTo, Unread
  <2>2. Delta > 0 \/ call.src + Copied <= call.dest
    BY <1>1, <1>4 DEF Backward
  <2>3. x \notin call.dest .. p - 1
    BY <1>1, <1>2, <2>1, <2>2
  <2> QED
    BY <1>2, <2>1, <2>3 DEF Moves, Load
<1> QED
  BY <1>3, <1>4

\* A store of the n next bytes.
LEMMA MoveMore ==
    ASSUME CopyArguments, call' = call, NEW p, MovedUpTo(p), NEW n \in Nat, n <= Left(p),
           NEW src, NEW at \in Nat,
           mem' = Move(mem, NextBytes(p, n), src, at, n),
           \A k \in 0 .. n - 1 : Load(src, at + k) = NextBytes(p, n) + Delta + k
    PROVE  MovesUpTo(Further(p, n), mem') /\ Left(Further(p, n)) = Left(p) - n
<1> DEFINE d == call.dest
           e == EndCopy
           a == NextBytes(p, n)
           q == Further(p, n)
<1>1. /\ d \in Nat /\ e \in Nat /\ d <= e /\ Delta \in Int
      /\ MemSize \in Nat /\ e <= MemSize
  BY CopyNumbers
<1>2. p \in d .. e /\ mem = (IF Backward THEN Moves(p, e) ELSE Moves(d, p))
  BY DEF MovedUpTo, MovesUpTo
<1>3. /\ q \in d .. e /\ a \in d .. e /\ a + n <= e /\ Left(q) = Left(p) - n
      /\ IF Backward THEN a = q /\ a + n = p ELSE a = p /\ a + n = q
  BY <1>1, <1>2 DEF Left, Further, NextBytes
<1> HIDE DEF a, q, d, e
<1>4. DOMAIN mem = 0 .. MemSize - 1
  BY <1>2 DEF Moves
<1>5. DOMAIN mem \cup (a .. a + n - 1) = 0 .. MemSize - 1
  BY <1>1, <1>3, <1>4
<1>6. mem' = [i \in 0 .. MemSize - 1 |->
                 IF i \in a .. a + n - 1 THEN Load(src, at + (i - a)) ELSE mem[i]]
  BY <1>5 DEF Move, a
<1>7. ASSUME NEW i \in a .. a + n - 1 PROVE Load(src, at + (i - a)) = i + Delta
  <2>1. i - a \in 0 .. n - 1 /\ a + Delta + (i - a) = i + Delta
    BY <1>1, <1>3
  <2> QED
    BY <2>1 DEF a
<1>8. mem' = [i \in 0 .. MemSize - 1 |->
                 IF i \in a .. a + n - 1 THEN i + Delta ELSE mem[i]]
  BY <1>6, <1>7
<1>9. mem' = IF Backward THEN Moves(q, e) ELSE Moves(d, q)
  <2>1. CASE Backward
    <3>1. \A i \in 0 .. MemSize - 1 :
            (IF i \in a .. a + n - 1 THEN i + Delta ELSE mem[i]) =
            (IF i \in q .. e - 1 THEN i + Delta ELSE i)
      <4> TAKE i \in 0 .. MemSize - 1
      <4>1. mem[i] = IF i \in p .. e - 1 THEN i + Delta ELSE i
        BY <1>2, <2>1 DEF Moves
      <4>2. i \in q .. e - 1 <=> i \in a .. a + n - 1 \/ i \in p .. e - 1
        BY <1>1, <1>2, <1>3, <2>1
      <4> QED
        BY <4>1, <4>2
    <3> QED
      BY <1>8, <2>1, <3>1 DEF Moves
  <2>2. CASE ~ Backward
    <3>1. \A i \in 0 .. MemSize - 1 :
            (IF i \in a .. a + n - 1 THEN i + Delta ELSE mem[i]) =
            (IF i \in d .. q - 1 THEN i + Delta ELSE i)
      <4> TAKE i \in 0 .. MemSize - 1
      <4>1. mem[i] = IF i \in d .. p - 1 THEN i + Delta ELSE i
        BY <1>2, <2>2 DEF Moves
      <4>2. i \in d .. q - 1 <=> i \in a .. a + n - 1 \/ i \in d .. p - 1
        BY <1>1, <1>2, <1>3, <2>2
      <4> QED
        BY <4>1, <4>2
    <3> QED
      BY <1>8, <2>2, <3>1 DEF Moves
  <2> QED
    BY <2>1, <2>2
<1> QED
  BY <1>3, <1>9 DEF MovesUpTo, a, q, d, e

-----------------------------------------------------------------------------
(* Words in registers.                                                     *)

Shift == from % WordSize

\* w is the word at a, as far as its bytes were to be moved when the loop was
\* entered
Agrees(w, a) ==
    /\ DOMAIN w = 0 .. WordSize - 1
    /\ \A k \in 0 .. WordSize - 1 : Unread(to, a + k) => w[k] = a + k

\* The registers the word stored at index i of the unrolled loop comes from
First(i) ==
    IF Merging THEN IF Backward THEN (i + 1) % 4 ELSE (i + 2) % 4
    ELSE IF Backward THEN i % 2 ELSE (i + 1) % 2

Second(i) == (First(i) + 1) % 4

\* They hold the words from o on
Holding(r, i, o) ==
    /\ DOMAIN r = 0 .. 7
    /\ Agrees(r[First(i)], o)
    /\ Merging => Agrees(r[Second(i)], o + WordSize)

\* Where the next word is loaded, those from o on being in the registers
Ahead(o) ==
    IF Backward THEN o - WordSize
    ELSE IF Merging THEN o + (WordSize + WordSize) ELSE o + WordSize

\* i and j follow each other in the unrolled loop
Follows(i, j) ==
    IF Backward THEN j = IF i = 0 THEN Unroll - 1 ELSE i - 1
    ELSE j = IF i = Unroll - 1 THEN 0 ELSE i + 1

LEMMA LoadAgrees ==
    ASSUME CopyArguments, Delta # 0, NEW p, MovedUpTo(p), NEW a \in Int,
           \A k \in 0 .. WordSize - 1 : Unread(to, a + k) => Unread(p, a + k)
    PROVE  Agrees(Word(a), a)
  BY UnreadIsInitial DEF Agrees, Word

\* A load of the next word into the register of the label gives the registers of
\* the next label, and leaves those of this one.
LEMMA LoadKeeps ==
    ASSUME NEW i \in 0 .. Unroll - 1, NEW j \in 0 .. Unroll - 1, Follows(i, j),
           NEW r, NEW o \in Int, Holding(r, i, o), NEW w, Agrees(w, Ahead(o)),
           WordSize \in Nat
    PROVE  /\ Holding([r EXCEPT ![LoadedRegister(i)] = w], i, o)
           /\ Holding([r EXCEPT ![LoadedRegister(i)] = w], j, Further(o, WordSize))
<1> DEFINE x == LoadedRegister(i)
           new == [r EXCEPT ![x] = w]
<1>1. /\ DOMAIN r = 0 .. 7 /\ Agrees(r[First(i)], o)
      /\ Merging => Agrees(r[Second(i)], o + WordSize)
  BY DEF Holding
<1>2. /\ x \in 0 .. 7 /\ First(i) \in 0 .. 7 /\ First(i) # x
      /\ First(j) \in 0 .. 7
      /\ Merging => Second(i) \in 0 .. 7 /\ Second(i) # x /\ Second(j) \in 0 .. 7
  BY DEF LoadedRegister, First, Second, Unroll
<1>3. IF Merging THEN IF Backward THEN First(j) = x /\ Second(j) = First(i)
                      ELSE First(j) = Second(i) /\ Second(j) = x
      ELSE First(j) = x
  BY DEF LoadedRegister, First, Second, Unroll, Follows
<1> HIDE DEF x
<1>4. DOMAIN new = 0 .. 7 /\ new[x] = w /\ \A y \in 0 .. 7 \ {x} : new[y] = r[y]
  BY <1>1, <1>2
<1> HIDE DEF new
<1>5. Holding(new, i, o)
  BY <1>1, <1>2, <1>4 DEF Holding
<1>6. Holding(new, j, Further(o, WordSize))
  <2>1. CASE Backward
    <3>1. /\ Further(o, WordSize) = o - WordSize /\ Ahead(o) = o - WordSize
          /\ o - WordSize + WordSize = o
      BY <2>1 DEF Further, Ahead
    <3>2. Agrees(new[First(j)], o - WordSize)
      BY <1>3, <1>4, <2>1, <3>1
    <3>3. Merging => Agrees(new[Second(j)], o)
      BY <1>1, <1>2, <1>3, <1>4, <2>1
    <3> QED
      BY <1>4, <3>1, <3>2, <3>3 DEF Holding
  <2>2. CASE ~ Backward /\ Merging
    <3>1. /\ Further(o, WordSize) = o + WordSize
          /\ Ahead(o) = o + WordSize + WordSize
      BY <2>2 DEF Further, Ahead
    <3>2. Agrees(new[First(j)], o + WordSize)
      BY <1>1, <1>2, <1>3, <1>4, <2>2
    <3>3. Agrees(new[Second(j)], o + WordSize + WordSize)
      BY <1>3, <1>4, <2>2, <3>1
    <3> QED
      BY <1>4, <3>1, <3>2, <3>3 DEF Holding
  <2>3. CASE ~ Backward /\ ~ Merging
    <3>1. Further(o, WordSize) = o + WordSize /\ Ahead(o) = o + WordSize
      BY <2>3 DEF Further, Ahead
    <3> QED
      BY <1>3, <1>4, <2>3, <3>1 DEF Holding
  <2> QED
    BY <2>1, <2>2, <2>3
<1> QED
  BY <1>5, <1>6 DEF new, x

\* The word that is stored is the one of the source, when the registers hold
\* the words it straddles.
LEMMA StoredIsSource ==
    ASSUME NEW i \in 0 .. Unroll - 1, NEW r, NEW a \in Int, Holding(r, i, a - Shift),
           WordSize \in Nat, WordSize > 0, from \in Nat,
           \A k \in 0 .. WordSize - 1 : Unread(to, a + k)
    PROVE  \A k \in 0 .. WordSize - 1 : Load(ToStore(r, i), 0 + k) = a + k
<1> DEFINE o == a - Shift
           w0 == r[First(i)]
           w1 == r[Second(i)]
<1>1. Shift \in 0 .. WordSize - 1 /\ o \in Int /\ o + Shift = a
  BY DEF Shift
<1>2. /\ \A k \in 0 .. WordSize - 1 : Unread(to, o + k) => w0[k] = o + k
      /\ Merging => \A k \in 0 .. WordSize - 1 :
                       Unread(to, o + WordSize + k) => w1[k] = o + WordSize + k
      /\ DOMAIN w0 = 0 .. WordSize - 1
  BY DEF Holding, Agrees
<1>3. CASE Merging
  <2>1. ToStore(r, i) = MergeWords(w0, w1)
    BY <1>3 DEF ToStore, First, Second, Unroll
  <2> HIDE DEF w0, w1, o
  <2>2. ASSUME NEW k \in 0 .. WordSize - 1
        PROVE  Load(MergeWords(w0, w1), 0 + k) = a + k
    <3>1. Load(MergeWords(w0, w1), 0 + k) =
            IF k + Shift < WordSize THEN w0[k + Shift] ELSE w1[k + Shift - WordSize]
      BY DEF Load, MergeWords, Shift
    <3>2. CASE k + Shift < WordSize
      <4>1. k + Shift \in 0 .. WordSize - 1 /\ o + (k + Shift) = a + k
        BY <1>1, <3>2
      <4> QED
        BY <1>2, <3>1, <3>2, <4>1
    <3>3. CASE ~ k + Shift < WordSize
      <4>1. /\ k + Shift - WordSize \in 0 .. WordSize - 1
            /\ o + WordSize + (k + Shift - WordSize) = a + k
        BY <1>1, <3>3
      <4> QED
        BY <1>2, <1>3, <3>1, <3>3, <4>1
    <3> QED
      BY <3>2, <3>3
  <2> QED
    BY <2>1, <2>2
<1>4. CASE ~ Merging
  <2>1. ToStore(r, i) = w0 /\ Shift = 0 /\ o = a
    BY <1>1, <1>4 DEF ToStore, First, Merging, Aligned, Shift
  <2> QED
    BY <1>2, <2>1 DEF Load
<1> QED
  BY <1>3, <1>4

-----------------------------------------------------------------------------
(* The unrolled loops.                                                     *)

\* The address of the source word that here is the destination of, and the start
\* of the first word it straddles
Origin(here) == (here + Delta) - Shift

\* How far the copy is, when the next word is stored at here
Pointer(here) == IF Backward THEN here + WordSize ELSE here

\* The words to store, the last one included, at index i with l words to count
Rest(i, l) == IF Backward THEN (l - (Unroll - 2)) + i ELSE (l - i) + 1

\* What is known when the next word is to be stored at here, and the next load
\* is from ahead
LoopAt(here, ahead, i, l, r, m) ==
    /\ here \in Int /\ i \in 0 .. Unroll - 1 /\ l \in Nat /\ l % Unroll = 0
    /\ MovesUpTo(Pointer(here), m)
    /\ Left(Pointer(here)) = Rest(i, l) * WordSize + (remain % WordSize)
    /\ Left(Pointer(here)) <= remain
    /\ ahead = Ahead(Origin(here))
    /\ Holding(r, i, Origin(here))

\* What is known of the pointers of the byte loops
AtBytes ==
    /\ CopyArguments /\ Delta # 0
    /\ to \in call.dest .. EndCopy /\ from \in Nat /\ from = to + Delta
    /\ remain \in Nat /\ remain = Left(to)

\* The index of the label the last word is stored at
Edge == IF Backward THEN Unroll - 1 ELSE 0

LoopInv ==
    /\ AtBytes
    /\ srcp \in Int /\ dstp \in Int
    /\ LoopAt(dstp + slot * WordSize, srcp + slot * WordSize, slot, len, reg, mem)
    /\ pc = "loop" => len # 0
    /\ pc = "last" => len = 0 /\ slot = Edge

\* The count of the next label is that of this one less the word stored.
LEMMA NextLabel ==
    ASSUME NEW i \in 0 .. Unroll - 1, NEW j, NEW l \in Nat, l % Unroll = 0, l # 0,
           Follows(i, j), NEW n,
           n = IF i = (IF Backward THEN 0 ELSE Unroll - 1) THEN l - Unroll ELSE l
    PROVE  /\ j \in 0 .. Unroll - 1 /\ n \in Nat /\ n % Unroll = 0
           /\ Rest(j, n) = Rest(i, l) - 1 /\ Rest(i, l) \in Nat /\ Rest(i, l) >= 2
           /\ n = 0 => j = Edge
<1>1. Unroll \in {4, 8}
  BY DEF Unroll
<1>2. CASE Unroll = 4
  BY <1>2 DEF Follows, Rest, Edge
<1>3. CASE Unroll = 8
  BY <1>3 DEF Follows, Rest, Edge
<1> QED
  BY <1>1, <1>2, <1>3

\* A word is at least as long as one.
LEMMA WordsAre ==
    ASSUME NEW n \in Nat, WordSize \in Nat
    PROVE  /\ n * WordSize \in Nat
           /\ n >= 1 => (n - 1) * WordSize = n * WordSize - WordSize
           /\ n >= 1 => n * WordSize >= WordSize
<1>1. n * WordSize \in Nat
  OBVIOUS
<1>2. ASSUME n >= 1 PROVE /\ (n - 1) * WordSize = n * WordSize - WordSize
                          /\ n * WordSize >= WordSize
  <2>1. n - 1 \in Nat
    BY <1>2
  <2>2. (n - 1) * WordSize = n * WordSize - WordSize /\ (n - 1) * WordSize \in Nat
    BY <2>1
  <2> QED
    BY <1>1, <2>2
<1> QED
  BY <1>1, <1>2

\* The pointer p of a word loop becomes q after the label i
Moved(i, p, q) ==
    q = p + (IF i = (IF Backward THEN 0 ELSE Unroll - 1)
             THEN IF Backward THEN - Unroll ELSE Unroll ELSE 0) * WordSize

\* Then q at the index j is the word after a
LandsAfter(q, j, a) == q \in Int /\ q + j * WordSize = Further(a, WordSize)

LEMMA NextAddress ==
    ASSUME NEW i \in 0 .. Unroll - 1, NEW j, Follows(i, j), NEW p \in Int, NEW q,
           WordSize \in Nat, Moved(i, p, q), NEW a, a = p + i * WordSize
    PROVE  LandsAfter(q, j, a)
<1>1. Unroll \in {4, 8}
  BY DEF Unroll
<1>2. CASE i = (IF Backward THEN 0 ELSE Unroll - 1)
  BY <1>1, <1>2 DEF Follows, Further, Moved, LandsAfter
<1>3. CASE i # (IF Backward THEN 0 ELSE Unroll - 1)
  <2>1. q = p /\ i \in Nat
    BY <1>1, <1>3 DEF Moved
  <2>2. CASE Backward
    BY <1>1, <1>3, <2>1, <2>2 DEF Follows, Further, LandsAfter
  <2>3. CASE ~ Backward
    BY <1>1, <1>3, <2>1, <2>3 DEF Follows, Further, LandsAfter
  <2> QED
    BY <2>2, <2>3
<1> QED
  BY <1>2, <1>3

\* The loads and the stores go the same way.
LEMMA FurtherAll ==
    ASSUME NEW here \in Int, Shift \in Int, Delta \in Int, WordSize \in Nat
    PROVE  /\ Origin(here) \in Int /\ Ahead(Origin(here)) \in Int
           /\ Further(here, WordSize) \in Int
           /\ Origin(Further(here, WordSize)) = Further(Origin(here), WordSize)
           /\ Ahead(Origin(Further(here, WordSize))) = Further(Ahead(Origin(here)), WordSize)
           /\ Pointer(Further(here, WordSize)) = Further(Pointer(here), WordSize)
           /\ NextBytes(Pointer(here), WordSize) = here
  BY DEF Origin, Ahead, Further, Pointer, NextBytes

\* The store of the next word.
LEMMA StoreMoves ==
    ASSUME AtBytes, call' = call, NEW here, NEW ahead, NEW i, NEW l, NEW old, NEW r,
           LoopAt(here, ahead, i, l, old, mem), Rest(i, l) \in Nat, Rest(i, l) >= 1,
           Holding(r, i, Origin(here)), StoreWord(here, ToStore(r, i))
    PROVE  /\ MovesUpTo(Pointer(Further(here, WordSize)), mem')
           /\ Left(Pointer(Further(here, WordSize))) = Left(Pointer(here)) - WordSize
           /\ here \in call.dest .. EndCopy /\ here + WordSize <= EndCopy
<1> DEFINE d == call.dest
           e == EndCopy
           p == Pointer(here)
           a == here + Delta
<1>1. /\ d \in Nat /\ e \in Nat /\ Delta \in Int /\ WordSize \in Nat /\ WordSize > 0
      /\ call.src = d + Delta /\ e = d + Copied /\ Copied \in Nat
      /\ to \in d .. e /\ from \in Nat /\ from = to + Delta /\ remain = Left(to)
      /\ remain \in Nat /\ CopyArguments
  BY CopyNumbers DEF AtBytes
<1>2. /\ here \in Int /\ i \in 0 .. Unroll - 1 /\ MovedUpTo(p) /\ p \in d .. e
      /\ Left(p) = Rest(i, l) * WordSize + (remain % WordSize) /\ Left(p) <= remain
  BY DEF LoopAt, MovedUpTo, MovesUpTo
<1>3. WordSize <= Left(p)
  <2>1. remain % WordSize \in Nat
    BY <1>1
  <2>2. Rest(i, l) * WordSize \in Nat /\ Rest(i, l) * WordSize >= WordSize
    BY <1>1, WordsAre
  <2> QED
    BY <1>1, <1>2, <2>1, <2>2
<1>4. /\ NextBytes(p, WordSize) = here /\ here \in d .. e /\ here + WordSize <= e
      /\ IF Backward THEN here + WordSize <= to ELSE to <= here
  BY <1>1, <1>2, <1>3 DEF Pointer, NextBytes, Left
<1>5. ASSUME NEW k \in 0 .. WordSize - 1 PROVE Unread(to, a + k)
  <2>1. a + k \in call.src .. call.src + Copied - 1
    BY <1>1, <1>4
  <2>2. IF Backward THEN a + k < to + Delta ELSE to + Delta <= a + k
    BY <1>1, <1>4
  <2> QED
    BY <2>1, <2>2 DEF Unread
<1>6. \A k \in 0 .. WordSize - 1 : Load(ToStore(r, i), 0 + k) = a + k
  <2>1. a \in Int
    BY <1>1, <1>2
  <2>2. Holding(r, i, a - Shift)
    BY DEF Origin
  <2>3. WordSize \in Nat /\ WordSize > 0 /\ from \in Nat /\ i \in 0 .. Unroll - 1
    BY <1>1, <1>2
  <2>4. \A k \in 0 .. WordSize - 1 : Unread(to, a + k)
    BY <1>5
  <2> HIDE DEF a
  <2> QED
    BY <2>1, <2>2, <2>3, <2>4, StoredIsSource
<1>7. mem' = Move(mem, NextBytes(p, WordSize), ToStore(r, i), 0, WordSize)
  BY <1>4 DEF StoreWord
<1>8. \A k \in 0 .. WordSize - 1 :
         Load(ToStore(r, i), 0 + k) = NextBytes(p, WordSize) + Delta + k
  BY <1>4, <1>6
<1> HIDE DEF d, e, p
<1>9. MovesUpTo(Further(p, WordSize), mem') /\ Left(Further(p, WordSize)) = Left(p) - WordSize
  BY <1>1, <1>2, <1>3, <1>7, <1>8, MoveMore
<1>10. Pointer(Further(here, WordSize)) = Further(p, WordSize)
  BY <1>1, <1>2 DEF Pointer, Further, p
<1> QED
  BY <1>4, <1>9, <1>10 DEF d, e, p

\* The load of the next word.
LEMMA LoadsSource ==
    ASSUME AtBytes, NEW here, NEW ahead, NEW i, NEW l, NEW r,
           LoopAt(here, ahead, i, l, r, mem)
    PROVE  Agrees(Word(ahead), ahead)
<1> DEFINE p == Pointer(here)
<1>1. /\ Delta \in Int /\ WordSize \in Nat /\ WordSize > 0 /\ CopyArguments /\ Delta # 0
      /\ from \in Nat /\ call.src \in Nat /\ Copied \in Nat
  BY CopyNumbers DEF AtBytes
<1>2. Shift \in 0 .. WordSize - 1
  BY <1>1 DEF Shift
<1>3. here \in Int /\ MovedUpTo(p) /\ ahead = Ahead(Origin(here))
  BY DEF LoopAt, MovedUpTo
<1>4. ahead \in Int
  BY <1>1, <1>2, <1>3, FurtherAll
<1>5. ASSUME ~ Merging PROVE Shift = 0
  BY <1>1, <1>5 DEF Merging, Aligned, Shift
<1>6. ASSUME NEW k \in 0 .. WordSize - 1, Unread(to, ahead + k)
      PROVE  Unread(p, ahead + k)
  <2>1. IF Backward THEN ahead + k < p + Delta ELSE p + Delta <= ahead + k
    BY <1>1, <1>2, <1>3, <1>5 DEF Ahead, Origin, Pointer
  <2> QED
    BY <1>6, <2>1 DEF Unread
<1> HIDE DEF p
<1> QED
  BY <1>1, <1>3, <1>4, <1>6, LoadAgrees

\* One label of the loop.
LEMMA CopyWordStep ==
    ASSUME LoopInv, CopyWord
    PROVE  /\ LoopAt(dstp' + slot' * WordSize, srcp' + slot' * WordSize, slot', len', reg', mem')
           /\ srcp' \in Int /\ dstp' \in Int
           /\ pc' = "loop" => len' # 0
           /\ pc' = "last" => len' = 0 /\ slot' = Edge
           /\ pc' \in {"loop", "last"}
<1> DEFINE h == dstp + slot * WordSize
           a == srcp + slot * WordSize
           last == IF Backward THEN 0 ELSE Unroll - 1
           move == IF slot = last THEN IF Backward THEN - Unroll ELSE Unroll ELSE 0
<1>1. /\ pc = "loop" /\ call' = call
      /\ reg' = [reg EXCEPT ![LoadedRegister(slot)] = Word(a)]
      /\ StoreWord(h, ToStore(reg', slot))
      /\ srcp' = srcp + move * WordSize
      /\ dstp' = dstp + move * WordSize
      /\ slot' = IF slot = last THEN IF Backward THEN Unroll - 1 ELSE 0
                 ELSE IF Backward THEN slot - 1 ELSE slot + 1
      /\ len' = IF slot = last THEN len - Unroll ELSE len
      /\ pc' = IF len' = 0 THEN "last" ELSE "loop"
  BY DEF CopyWord
<1>2. /\ AtBytes /\ LoopAt(h, a, slot, len, reg, mem) /\ len # 0
      /\ srcp \in Int /\ dstp \in Int
  BY <1>1 DEF LoopInv
<1>3. /\ h \in Int /\ slot \in 0 .. Unroll - 1 /\ len \in Nat /\ len % Unroll = 0
      /\ a = Ahead(Origin(h)) /\ Holding(reg, slot, Origin(h))
      /\ Left(Pointer(h)) = Rest(slot, len) * WordSize + (remain % WordSize)
      /\ Left(Pointer(h)) <= remain
  BY <1>2 DEF LoopAt
<1>4. /\ Delta \in Int /\ WordSize \in Nat /\ WordSize > 0 /\ from \in Nat /\ remain \in Nat
      /\ remain % WordSize \in Nat
  BY <1>2, CopyNumbers DEF AtBytes
<1>5. Shift \in Int
  BY <1>4 DEF Shift
<1>6. Follows(slot, slot')
  BY <1>1 DEF Follows
<1>7. /\ slot' \in 0 .. Unroll - 1 /\ len' \in Nat /\ len' % Unroll = 0
      /\ Rest(slot', len') = Rest(slot, len) - 1 /\ Rest(slot, len) \in Nat
      /\ Rest(slot, len) >= 2 /\ (len' = 0 => slot' = Edge)
  BY <1>1, <1>2, <1>3, <1>6, NextLabel
<1>8. /\ srcp' \in Int /\ dstp' \in Int
      /\ dstp' + slot' * WordSize = Further(h, WordSize)
      /\ srcp' + slot' * WordSize = Further(a, WordSize)
  <2>1. Moved(slot, dstp, dstp') /\ Moved(slot, srcp, srcp')
    BY <1>1 DEF Moved
  <2>2. LandsAfter(dstp', slot', h) /\ LandsAfter(srcp', slot', a)
    BY <1>2, <1>3, <1>4, <1>6, <2>1, NextAddress
  <2> QED
    BY <2>2 DEF LandsAfter
<1> HIDE DEF h, a, last, move
<1>9. /\ Origin(h) \in Int /\ Further(h, WordSize) \in Int
      /\ Origin(Further(h, WordSize)) = Further(Origin(h), WordSize)
      /\ Ahead(Origin(Further(h, WordSize))) = Further(a, WordSize)
  BY <1>3, <1>4, <1>5, FurtherAll
<1>10. Agrees(Word(a), a)
  BY <1>2, LoadsSource
<1>11. Holding(reg', slot, Origin(h)) /\ Holding(reg', slot', Origin(Further(h, WordSize)))
  <2> DEFINE new == [reg EXCEPT ![LoadedRegister(slot)] = Word(a)]
  <2>1. Agrees(Word(a), Ahead(Origin(h)))
    BY <1>3, <1>10
  <2>2. Holding(new, slot, Origin(h)) /\ Holding(new, slot', Further(Origin(h), WordSize))
    BY <1>3, <1>4, <1>6, <1>7, <1>9, <2>1, LoadKeeps
  <2>3. reg' = new
    BY <1>1
  <2> QED
    BY <1>9, <2>2, <2>3
<1>12. /\ MovesUpTo(Pointer(Further(h, WordSize)), mem')
       /\ Left(Pointer(Further(h, WordSize))) = Left(Pointer(h)) - WordSize
  BY <1>1, <1>2, <1>7, <1>11, StoreMoves
<1>13. /\ Left(Pointer(Further(h, WordSize))) =
             Rest(slot', len') * WordSize + (remain % WordSize)
       /\ Left(Pointer(Further(h, WordSize))) <= remain
  <2>1. (Rest(slot, len) - 1) * WordSize = Rest(slot, len) * WordSize - WordSize
    BY <1>4, <1>7, WordsAre
  <2>2. Rest(slot, len) * WordSize \in Nat
    BY <1>4, <1>7, WordsAre
  <2> QED
    BY <1>3, <1>4, <1>7, <1>12, <2>1, <2>2
<1>14. LoopAt(Further(h, WordSize), Further(a, WordSize), slot', len', reg', mem')
  BY <1>7, <1>9, <1>11, <1>12, <1>13 DEF LoopAt
<1> QED
  BY <1>1, <1>7, <1>8, <1>14 DEF h, a

\* The switch jumps to the label from which the loop stores as many words as
\* there are.
LEMMA Switch ==
    ASSUME NEW words \in Nat, words > 0, NEW c,
           c = IF words % Unroll < 2 THEN (words % Unroll) + Unroll ELSE words % Unroll,
           NEW i, i = (IF Backward THEN c - 2 ELSE Unroll + 1 - c),
           NEW l, l = words + Unroll - c
    PROVE  /\ c \in 2 .. Unroll + 1 /\ i \in 0 .. Unroll - 1
           /\ l \in Nat /\ l % Unroll = 0 /\ Rest(i, l) = words
           /\ l = 0 => i = Edge
<1>1. Unroll \in {4, 8}
  BY DEF Unroll
<1>2. CASE Unroll = 4
  <2>1. c \in 2 .. 5 /\ words >= c % 4 /\ (words - c) % 4 = 0
    BY <1>2
  <2> QED
    BY <1>2, <2>1 DEF Rest, Edge
<1>3. CASE Unroll = 8
  <2>1. c \in 2 .. 9 /\ words >= c % 8 /\ (words - c) % 8 = 0
    BY <1>3
  <2> QED
    BY <1>3, <2>1 DEF Rest, Edge
<1> QED
  BY <1>1, <1>2, <1>3

\* Products of the length of a word.
LEMMA Products ==
    ASSUME NEW w \in Int, NEW c \in Int, NEW b \in Int
    PROVE  /\ (b - (c - 1) * w) + (c - 2) * w = b - w
           /\ (b - c * w) + (c - 2) * w = (b - w) - w
           /\ (b + w - (c + 1) * w) + (c - 2) * w = (b - w) - w
           /\ (b + w - (c + 1) * w) + (c - 1) * w = b - w
           /\ (b - c * w) + (c - 1) * w = b - w
           /\ (b - (3 - c) * w) + (5 - c) * w = b + (w + w)
           /\ (b - (8 - c) * w) + (9 - c) * w = b + w
           /\ \A u \in Int : (b - u * w) + u * w = b
<1>1. \A x, y \in Int : x + (y - x) = y /\ (y - x) + x = y
  OBVIOUS
<1>2. \A u, v \in Int : u * w \in Int /\ u * w + v * w = (u + v) * w
  OBVIOUS
<1>3. (c - 1) * w = (c - 2) * w + w /\ c * w = (c - 2) * w + (w + w)
  OBVIOUS
<1>4. (c + 1) * w = (c - 2) * w + (w + w + w) /\ (c - 1) * w = c * w - w
  OBVIOUS
<1>5. (5 - c) * w = (3 - c) * w + (w + w) /\ (9 - c) * w = (8 - c) * w + w
  OBVIOUS
<1>6. /\ c * w \in Int /\ (c - 1) * w \in Int /\ (c - 2) * w \in Int /\ (c + 1) * w \in Int
      /\ (3 - c) * w \in Int /\ (8 - c) * w \in Int /\ (5 - c) * w \in Int
      /\ (9 - c) * w \in Int
  OBVIOUS
<1> QED
  BY <1>2, <1>3, <1>4, <1>5, <1>6

\* The registers at the entry of the loop at index i
Entered(r, i, read) ==
    r = IF Merging
        THEN LET x == IF Backward THEN i + 1 ELSE i + 2
             IN  [reg EXCEPT ![x % 4] = Word(read), ![(x + 1) % 4] = Word(read + WordSize)]
        ELSE [reg EXCEPT ![(IF Backward THEN i ELSE i + 1) % 2] = Word(read)]

LEMMA EnteredHolds ==
    ASSUME DOMAIN reg = 0 .. 7, NEW i \in 0 .. Unroll - 1, NEW r, NEW o, Entered(r, i, o),
           Agrees(Word(o), o), Agrees(Word(o + WordSize), o + WordSize)
    PROVE  Holding(r, i, o)
<1> DEFINE w0 == Word(o)
           w1 == Word(o + WordSize)
           x == First(i)
           y == Second(i)
<1> HIDE DEF w0, w1
<1>1. i \in 0 .. 7 /\ (Merging => i \in 0 .. 3)
  BY DEF Unroll
<1>2. CASE Merging
  <2>1. r = [reg EXCEPT ![x] = w0, ![y] = w1]
    <3>1. CASE Backward
      <4>1. (i + 2) % 4 = (((i + 1) % 4) + 1) % 4 /\ i + 1 + 1 = i + 2
        BY <1>1, <1>2
      <4> QED
        BY <1>2, <3>1, <4>1 DEF Entered, First, Second, w0, w1
    <3>2. CASE ~ Backward
      <4>1. (i + 3) % 4 = (((i + 2) % 4) + 1) % 4 /\ i + 2 + 1 = i + 3
        BY <1>1, <1>2
      <4> QED
        BY <1>2, <3>2, <4>1 DEF Entered, First, Second, w0, w1
    <3> QED
      BY <3>1, <3>2
  <2>2. x \in 0 .. 7 /\ y \in 0 .. 7 /\ x # y
    BY <1>1, <1>2 DEF First, Second
  <2> HIDE DEF x, y
  <2>3. DOMAIN r = 0 .. 7 /\ r[x] = w0 /\ r[y] = w1
    BY <2>1, <2>2
  <2> QED
    BY <2>3 DEF Holding, x, y, w0, w1
<1>3. CASE ~ Merging
  <2>1. r = [reg EXCEPT ![x] = w0]
    BY <1>3 DEF Entered, First, w0
  <2>2. x \in 0 .. 7
    BY <1>1, <1>3 DEF First
  <2> HIDE DEF x
  <2>3. DOMAIN r = 0 .. 7 /\ r[x] = w0
    BY <2>1, <2>2
  <2> QED
    BY <1>3, <2>3 DEF Holding, x, w0
<1> QED
  BY <1>2, <1>3

\* The jump into the loop: one word, or two to merge, are in registers.
LEMMA EnterLoopStep ==
    ASSUME AtBytes, MovedUpTo(to), DOMAIN reg = 0 .. 7, EnterLoop
    PROVE  /\ LoopAt(dstp' + slot' * WordSize, srcp' + slot' * WordSize, slot', len', reg', mem')
           /\ srcp' \in Int /\ dstp' \in Int
           /\ pc' = "loop" => len' # 0
           /\ pc' = "last" => len' = 0 /\ slot' = Edge
           /\ pc' \in {"loop", "last"}
<1> DEFINE words == remain \div WordSize
           c == IF words % Unroll < 2 THEN (words % Unroll) + Unroll ELSE words % Unroll
           base == RoundDown(from)
           h == IF Backward THEN to - WordSize ELSE to
           read == IF Backward THEN srcp' + (c - 1) * WordSize ELSE base
<1>1. /\ words > 0 /\ mem' = mem
      /\ srcp' = IF Backward
                 THEN IF Merging THEN base + WordSize - (c + 1) * WordSize
                      ELSE base - c * WordSize
                 ELSE IF Merging THEN base - (3 - c) * WordSize
                      ELSE base - (8 - c) * WordSize
      /\ slot' = IF Backward THEN c - 2 ELSE Unroll + 1 - c
      /\ dstp' = to - (IF Backward THEN c - 1 ELSE Unroll + 1 - c) * WordSize
      /\ len' = words + Unroll - c
      /\ Entered(reg', slot', read)
      /\ pc' = IF len' = 0 THEN "last" ELSE "loop"
  BY DEF EnterLoop, Entered
<1>2. /\ WordSize \in Nat /\ WordSize > 0 /\ Delta \in Int /\ call.dest \in Nat /\ EndCopy \in Nat
      /\ to \in call.dest .. EndCopy /\ from \in Nat /\ from = to + Delta /\ CopyArguments
      /\ remain \in Nat /\ remain = Left(to) /\ Delta # 0
  BY CopyNumbers DEF AtBytes
<1>3. /\ words \in Nat /\ remain = words * WordSize + (remain % WordSize)
  <2>1. words \in Nat /\ remain = WordSize * words + (remain % WordSize)
    <3>1. WordSize \in Nat /\ WordSize > 0 /\ remain \in Nat
      BY <1>2
    <3> QED
      BY <3>1
  <2> HIDE DEF words
  <2> QED
    BY <1>2, <2>1
<1>4. Shift \in 0 .. WordSize - 1 /\ base = from - Shift /\ base \in Int
  BY <1>2 DEF RoundDown, Shift
<1>5. /\ c \in 2 .. Unroll + 1 /\ slot' \in 0 .. Unroll - 1
      /\ len' \in Nat /\ len' % Unroll = 0 /\ Rest(slot', len') = words
      /\ len' = 0 => slot' = Edge
  BY <1>1, <1>3, Switch
<1>6. Unroll = IF Merging THEN 4 ELSE 8
  BY DEF Unroll
<1> HIDE DEF words, c, base, read
<1>7. /\ dstp' \in Int /\ dstp' + slot' * WordSize = h
  <2>1. CASE Backward
    <3>1. dstp' = to - (c - 1) * WordSize /\ slot' = c - 2 /\ c \in Int /\ to \in Int
      BY <1>1, <1>2, <1>5, <1>6, <2>1
    <3>2. (to - (c - 1) * WordSize) + (c - 2) * WordSize = to - WordSize
      BY <1>2, <3>1, Products
    <3>3. (c - 1) * WordSize \in Int
      BY <1>2, <3>1
    <3>4. dstp' + slot' * WordSize = (to - (c - 1) * WordSize) + (c - 2) * WordSize
      BY <3>1
    <3>5. h = to - WordSize
      BY <2>1
    <3> HIDE DEF h
    <3>6. dstp' \in Int
      BY <1>2, <3>1, <3>3
    <3> QED
      BY <3>2, <3>4, <3>5, <3>6
  <2>2. CASE ~ Backward
    <3>1. dstp' = to - slot' * WordSize /\ slot' \in Int
      BY <1>1, <1>5, <1>6, <2>2
    <3>2. slot' * WordSize \in Int
      BY <1>2, <3>1
    <3>3. h = to /\ to \in Int
      BY <1>2, <2>2
    <3>4. \A x, y \in Int : x - y \in Int /\ (x - y) + y = x
      OBVIOUS
    <3> DEFINE z == slot' * WordSize
    <3> HIDE DEF h, z
    <3>5. dstp' = to - z /\ z \in Int
      BY <3>1, <3>2 DEF z
    <3>6. dstp' \in Int /\ dstp' + z = h
      BY <3>3, <3>4, <3>5
    <3> QED
      BY <3>6 DEF z
  <2> QED
    BY <2>1, <2>2
<1>8. /\ srcp' \in Int /\ read = Origin(h)
      /\ srcp' + slot' * WordSize = Ahead(Origin(h))
  <2>1. Origin(h) = IF Backward THEN base - WordSize ELSE base
    BY <1>2, <1>4 DEF Origin
  <2>2. CASE Backward /\ Merging
    <3>1. srcp' = base + WordSize - (c + 1) * WordSize /\ slot' = c - 2 /\ c \in Int
      BY <1>1, <1>5, <1>6, <2>2
    <3>2. read = srcp' + (c - 1) * WordSize
      BY <2>2 DEF read
    <3>3. /\ srcp' + slot' * WordSize = (base - WordSize) - WordSize
          /\ read = base - WordSize
      BY <1>2, <1>4, <3>1, <3>2, Products
    <3>4. srcp' \in Int
      BY <1>2, <1>4, <3>1
    <3> QED
      BY <2>1, <2>2, <3>3, <3>4 DEF Ahead
  <2>3. CASE Backward /\ ~ Merging
    <3>1. srcp' = base - c * WordSize /\ slot' = c - 2 /\ c \in Int
      BY <1>1, <1>5, <1>6, <2>3
    <3>2. read = srcp' + (c - 1) * WordSize
      BY <2>3 DEF read
    <3>3. /\ srcp' + slot' * WordSize = (base - WordSize) - WordSize
          /\ read = base - WordSize
      BY <1>2, <1>4, <3>1, <3>2, Products
    <3>4. srcp' \in Int
      BY <1>2, <1>4, <3>1
    <3> QED
      BY <2>1, <2>3, <3>3, <3>4 DEF Ahead
  <2>4. CASE ~ Backward /\ Merging
    <3>1. srcp' = base - (3 - c) * WordSize /\ slot' = 5 - c /\ c \in Int
      BY <1>1, <1>5, <1>6, <2>4
    <3>2. srcp' + slot' * WordSize = base + (WordSize + WordSize)
      BY <1>2, <1>4, <3>1, Products
    <3>3. srcp' \in Int
      BY <1>2, <1>4, <3>1
    <3> QED
      BY <2>1, <2>4, <3>2, <3>3 DEF Ahead, read
  <2>5. CASE ~ Backward /\ ~ Merging
    <3>1. srcp' = base - (8 - c) * WordSize /\ slot' = 9 - c /\ c \in Int
      BY <1>1, <1>5, <1>6, <2>5
    <3>2. srcp' + slot' * WordSize = base + WordSize
      BY <1>2, <1>4, <3>1, Products
    <3>3. srcp' \in Int
      BY <1>2, <1>4, <3>1
    <3> QED
      BY <2>1, <2>5, <3>2, <3>3 DEF Ahead, read
  <2> QED
    BY <2>2, <2>3, <2>4, <2>5
<1>9. h \in Int /\ Pointer(h) = to /\ Origin(h) \in Int
  BY <1>2, <1>4 DEF Pointer, Origin
<1>10. Holding(reg', slot', Origin(h))
  <2>1. /\ Agrees(Word(read), read)
        /\ Agrees(Word(read + WordSize), read + WordSize)
    BY <1>2, <1>8, <1>9, LoadAgrees
  <2> HIDE DEF h
  <2> QED
    BY <1>1, <1>2, <1>5, <1>8, <2>1, EnteredHolds
<1> HIDE DEF h
<1>11. MovesUpTo(Pointer(h), mem')
  BY <1>1, <1>9 DEF MovedUpTo
<1>12. LoopAt(h, srcp' + slot' * WordSize, slot', len', reg', mem')
  BY <1>1, <1>2, <1>3, <1>5, <1>8, <1>9, <1>10, <1>11 DEF LoopAt
<1> QED
  BY <1>1, <1>5, <1>7, <1>8, <1>12

-----------------------------------------------------------------------------
(* The invariant of ssm_copy().                                            *)

CopyInv ==
    /\ CopyArguments /\ DOMAIN reg = 0 .. 7 /\ pc \in CopyLabels
    /\ pc = "start" => mem = Initial
    /\ pc = "return" => Delta = 0 /\ mem = Initial
    /\ pc \in {"align", "tail"} => AtBytes /\ MovedUpTo(to)
    /\ pc \in {"loop", "last"} => LoopInv
    /\ pc = "done" => mem = Moves(call.dest, EndCopy)

\* What depends on the arguments only does not change.
LEMMA SameCall ==
    ASSUME call' = call
    PROVE  /\ Delta' = Delta /\ EndCopy' = EndCopy /\ Copied' = Copied
           /\ (Backward' <=> Backward) /\ (CopyArguments' <=> CopyArguments)
           /\ \A p, q : Moves(p, q)' = Moves(p, q)
  BY DEF Delta, EndCopy, Copied, Backward, CopyArguments, Moves

LEMMA LeftIsNumber ==
    ASSUME CopyArguments, NEW p \in call.dest .. EndCopy
    PROVE  Left(p) \in Nat /\ p + Delta \in Nat
<1>1. /\ call.dest \in Nat /\ EndCopy \in Nat /\ Delta \in Int /\ call.src \in Nat
      /\ call.src = call.dest + Delta
  BY CopyNumbers
<1>2. p - call.dest \in Nat /\ EndCopy - p \in Nat /\ p + Delta \in Nat
  BY <1>1
<1> QED
  BY <1>2 DEF Left

\* The copy goes on byte by byte from to'.
LEMMA GoesOnByBytes ==
    ASSUME CopyArguments, Delta # 0, call' = call, MovesUpTo(to', mem'),
           from' = to' + Delta, remain' = Left(to')
    PROVE  AtBytes' /\ MovedUpTo(to)'
<1>1. /\ call.src \in Nat /\ call.dest \in Nat /\ Delta \in Int /\ EndCopy \in Nat
      /\ call.src = call.dest + Delta
  BY CopyNumbers
<1>2. to' \in call.dest .. EndCopy
  BY DEF MovesUpTo
<1>3. Left(to') \in Nat /\ to' + Delta \in Nat
  BY <1>2, LeftIsNumber
<1>4. AtBytes'
  BY <1>2, <1>3, SameCall DEF AtBytes, Left
<1>5. MovedUpTo(to)'
  <2>1. /\ Moves(to, EndCopy)' = Moves(to', EndCopy)
        /\ Moves(call.dest, to)' = Moves(call.dest, to')
    BY SameCall DEF Moves
  <2> QED
    BY <1>2, <2>1, SameCall DEF MovedUpTo, MovesUpTo
<1> QED
  BY <1>4, <1>5

LEMMA MoveByteStep ==
    ASSUME AtBytes, MovedUpTo(to), remain > 0, MoveByte
    PROVE  (AtBytes /\ MovedUpTo(to))'
<1>1. /\ call' = call /\ remain' = remain - 1 /\ to' = Further(to, 1) /\ from' = Further(from, 1)
      /\ mem' = Move(mem, NextBytes(to, 1), mem, NextBytes(from, 1), 1)
  BY DEF MoveByte, Further, NextBytes
<1>2. /\ CopyArguments /\ Delta # 0 /\ Delta \in Int
      /\ call.dest \in Nat /\ EndCopy \in Nat /\ Copied \in Nat
      /\ call.src = call.dest + Delta /\ EndCopy = call.dest + Copied /\ call.src \in Nat
      /\ to \in call.dest .. EndCopy /\ from = to + Delta /\ remain \in Nat /\ remain = Left(to)
  BY CopyNumbers DEF AtBytes
<1>3. NextBytes(from, 1) = NextBytes(to, 1) + Delta
  BY <1>2 DEF NextBytes
<1>4. Unread(to, NextBytes(from, 1)) /\ NextBytes(from, 1) \in Nat
  BY <1>2 DEF Unread, NextBytes, Left
<1>5. Load(mem, NextBytes(from, 1)) = NextBytes(from, 1)
  BY <1>2, <1>4, UnreadIsInitial
<1>6. \A k \in 0 .. 1 - 1 : Load(mem, NextBytes(from, 1) + k) = NextBytes(to, 1) + Delta + k
  <2>1. 0 .. 1 - 1 = {0} /\ NextBytes(from, 1) + 0 = NextBytes(from, 1)
        /\ NextBytes(to, 1) + Delta + 0 = NextBytes(from, 1)
    BY <1>2, <1>3, <1>4 DEF NextBytes
  <2> QED
    BY <1>5, <2>1
<1>7. 1 <= Left(to)
  BY <1>2
<1>8. MovesUpTo(Further(to, 1), mem') /\ Left(Further(to, 1)) = Left(to) - 1
  BY <1>1, <1>2, <1>4, <1>6, <1>7, MoveMore
<1>9. from' = to' + Delta
  BY <1>1, <1>2 DEF Further
<1> QED
  BY <1>1, <1>2, <1>8, <1>9, GoesOnByBytes

\* The last word is stored, and the pointers of the byte loops follow.
LEMMA LastWordStep ==
    ASSUME LoopInv, LastWord
    PROVE  (AtBytes /\ MovedUpTo(to))'
<1> DEFINE h == dstp + slot * WordSize
           a == srcp + slot * WordSize
           r == remain % WordSize
           bytes == remain - r
           p == Pointer(Further(h, WordSize))
<1>1. /\ pc = "last" /\ call' = call
      /\ StoreWord(dstp + Edge * WordSize, ToStore(reg, Edge))
      /\ from' = Further(from, bytes) /\ to' = Further(to, bytes) /\ remain' = r
  BY DEF LastWord, LeaveWords, Edge, Further
<1>2. AtBytes /\ LoopAt(h, a, slot, len, reg, mem) /\ len = 0 /\ slot = Edge
  BY <1>1 DEF LoopInv
<1>3. /\ h \in Int /\ slot \in 0 .. Unroll - 1 /\ Holding(reg, slot, Origin(h))
      /\ Left(Pointer(h)) = Rest(slot, len) * WordSize + r
  BY <1>2 DEF LoopAt
<1>4. Rest(slot, len) = 1
  BY <1>2 DEF Rest, Edge, Unroll
<1>5. /\ WordSize \in Nat /\ WordSize > 0 /\ Delta \in Int /\ call.dest \in Nat /\ EndCopy \in Nat
      /\ to \in call.dest .. EndCopy /\ from = to + Delta /\ remain \in Nat /\ remain = Left(to)
      /\ CopyArguments /\ Delta # 0
  BY <1>2, CopyNumbers DEF AtBytes
<1>6. r \in Nat /\ r <= remain /\ bytes \in Nat
  BY <1>5
<1>7. StoreWord(h, ToStore(reg, slot))
  BY <1>1, <1>2
<1> HIDE DEF h, a, r, bytes, p
<1>8. MovesUpTo(p, mem') /\ Left(p) = Left(Pointer(h)) - WordSize
  BY <1>1, <1>2, <1>3, <1>4, <1>7, StoreMoves DEF p
<1>9. Left(p) = r
  BY <1>3, <1>4, <1>5, <1>6, <1>8
<1>10. p \in call.dest .. EndCopy
  BY <1>8 DEF MovesUpTo
<1>11. to' = p
  <2>1. remain - bytes = r
    BY <1>5, <1>6 DEF bytes
  <2>2. CASE Backward
    BY <1>1, <1>5, <1>6, <1>9, <1>10, <2>1, <2>2 DEF Left, Further
  <2>3. CASE ~ Backward
    BY <1>1, <1>5, <1>6, <1>9, <1>10, <2>1, <2>3 DEF Left, Further
  <2> QED
    BY <2>2, <2>3
<1>12. from' = to' + Delta
  BY <1>1, <1>5, <1>6 DEF Further
<1> QED
  BY <1>1, <1>5, <1>8, <1>9, <1>11, <1>12, GoesOnByBytes

\* The copy goes on word by word.
LEMMA GoesOnByWords ==
    ASSUME AtBytes, call' = call, from' = from, to' = to, remain' = remain,
           LoopAt(dstp' + slot' * WordSize, srcp' + slot' * WordSize, slot', len', reg', mem'),
           srcp' \in Int, dstp' \in Int, pc' = "loop" => len' # 0,
           pc' = "last" => len' = 0 /\ slot' = Edge
    PROVE  LoopInv'
<1>1. /\ Delta' = Delta /\ EndCopy' = EndCopy /\ (Backward' <=> Backward)
      /\ (CopyArguments' <=> CopyArguments) /\ (Merging' <=> Merging)
      /\ Shift' = Shift /\ Copied' = Copied
  BY SameCall DEF Merging, Aligned, Shift
<1>2. Unroll' = Unroll /\ Edge' = Edge
  BY <1>1 DEF Unroll, Edge
<1>3. AtBytes'
  BY <1>1 DEF AtBytes, Left
<1> DEFINE h == dstp + slot * WordSize
           a == srcp + slot * WordSize
<1>4. /\ Origin(h)' = Origin(h') /\ Pointer(h)' = Pointer(h')
      /\ Ahead(Origin(h))' = Ahead(Origin(h'))
      /\ Rest(slot, len)' = Rest(slot', len')
      /\ First(slot)' = First(slot') /\ Second(slot)' = Second(slot')
      /\ Left(Pointer(h))' = Left(Pointer(h'))
  BY <1>1, <1>2 DEF Origin, Pointer, Ahead, Rest, First, Second, Left
<1>5. MovesUpTo(Pointer(h), mem)' <=> MovesUpTo(Pointer(h'), mem')
  <2>1. /\ Moves(Pointer(h), EndCopy)' = Moves(Pointer(h'), EndCopy)
        /\ Moves(call.dest, Pointer(h))' = Moves(call.dest, Pointer(h'))
    BY <1>1, <1>4 DEF Moves
  <2> QED
    BY <1>1, <1>4, <2>1 DEF MovesUpTo
<1>6. Holding(reg, slot, Origin(h))' <=> Holding(reg', slot', Origin(h'))
  <2>1. /\ Agrees(reg[First(slot)], Origin(h))' <=> Agrees(reg'[First(slot')], Origin(h'))
        /\ Agrees(reg[Second(slot)], Origin(h) + WordSize)'
             <=> Agrees(reg'[Second(slot')], Origin(h') + WordSize)
    BY <1>1, <1>4 DEF Agrees, Unread
  <2> QED
    BY <1>1, <2>1 DEF Holding
<1>7. LoopAt(h', a', slot', len', reg', mem')
  OBVIOUS
<1>8. LoopAt(h, a, slot, len, reg, mem)'
  BY <1>1, <1>2, <1>4, <1>5, <1>6, <1>7 DEF LoopAt
<1> QED
  BY <1>2, <1>3, <1>8 DEF LoopInv

LEMMA CopyStepInvariant ==
    ASSUME CopyInv, CopyNext, call' = call
    PROVE  CopyInv'
<1>1. CopyArguments /\ CopyArguments' /\ DOMAIN reg = 0 .. 7
  BY SameCall DEF CopyInv
<1>2. /\ Delta' = Delta /\ EndCopy' = EndCopy
      /\ \A m : m = Moves(call.dest, EndCopy) => m = Moves(call.dest, EndCopy)'
  BY SameCall DEF Moves
<1>3. CASE Start
  <2>1. /\ pc = "start" /\ mem = Initial /\ mem' = mem /\ reg' = reg /\ remain' = Copied
        /\ from' = call.src + (IF Backward THEN Copied ELSE 0)
        /\ to' = call.dest + (IF Backward THEN Copied ELSE 0)
        /\ pc' \in {"return", "align", "tail"}
        /\ pc' = "return" <=> call.src = call.dest
    BY <1>3 DEF Start, loop, CopyInv
  <2>2. /\ call.src \in Nat /\ call.dest \in Nat /\ Delta \in Int /\ Copied \in Nat
        /\ call.src = call.dest + Delta /\ EndCopy = call.dest + Copied
    BY <1>1, CopyNumbers
  <2>3. CASE Delta = 0
    <3>1. pc' = "return"
      BY <2>1, <2>2, <2>3
    <3> QED
      BY <1>1, <1>2, <2>1, <2>3, <3>1 DEF CopyInv, CopyLabels
  <2>4. CASE Delta # 0
    <3>1. pc' \in {"align", "tail"}
      BY <2>1, <2>2, <2>4
    <3>2. /\ to' \in call.dest .. EndCopy /\ from' = to' + Delta
          /\ IF Backward THEN to' = EndCopy ELSE to' = call.dest
      <4>1. CASE Backward
        BY <2>1, <2>2, <4>1
      <4>2. CASE ~ Backward
        BY <2>1, <2>2, <4>2
      <4> QED
        BY <4>1, <4>2
    <3>3. remain' = Left(to')
      <4>1. CASE Backward
        BY <2>1, <2>2, <3>2, <4>1 DEF Left
      <4>2. CASE ~ Backward
        BY <2>1, <2>2, <3>2, <4>2 DEF Left
      <4> QED
        BY <4>1, <4>2
    <3>4. \A p \in Int : Moves(p, p) = Initial
      <4>1. \A p \in Int, i \in Int : i \notin p .. p - 1
        OBVIOUS
      <4> QED
        BY <4>1, WordAccessAssumption DEF Moves, Initial
    <3>5. MovesUpTo(to', mem')
      BY <2>1, <2>2, <3>2, <3>4 DEF MovesUpTo
    <3>6. (AtBytes /\ MovedUpTo(to))'
      BY <1>1, <2>4, <3>2, <3>3, <3>5, GoesOnByBytes
    <3> QED
      BY <1>1, <2>1, <3>1, <3>6 DEF CopyInv, CopyLabels
  <2> QED
    BY <2>3, <2>4
<1>4. CASE AlignByte \/ TailByte
  <2>1. /\ pc \in {"align", "tail"} /\ pc' = pc /\ remain > 0 /\ MoveByte /\ reg' = reg
    BY <1>4 DEF AlignByte, TailByte, MoveByte, loop
  <2>2. (AtBytes /\ MovedUpTo(to))'
    BY <2>1, MoveByteStep DEF CopyInv
  <2> QED
    BY <1>1, <2>1, <2>2 DEF CopyInv, CopyLabels
<1>5. CASE EnterLoop
  <2>1. /\ pc = "align" /\ from' = from /\ to' = to /\ remain' = remain
    BY <1>5 DEF EnterLoop
  <2>2. AtBytes /\ MovedUpTo(to)
    BY <2>1 DEF CopyInv
  <2>3. LoopInv' /\ pc' \in {"loop", "last"}
    BY <1>1, <1>5, <2>1, <2>2, EnterLoopStep, GoesOnByWords
  <2>4. DOMAIN reg' = 0 .. 7
    BY <2>3 DEF LoopInv, LoopAt, Holding
  <2> QED
    BY <1>1, <2>3, <2>4 DEF CopyInv, CopyLabels
<1>6. CASE CopyWord
  <2>1. /\ pc = "loop" /\ from' = from /\ to' = to /\ remain' = remain
    BY <1>6 DEF CopyWord
  <2>2. LoopInv /\ AtBytes
    BY <2>1 DEF CopyInv, LoopInv
  <2>3. LoopInv' /\ pc' \in {"loop", "last"}
    BY <1>6, <2>1, <2>2, CopyWordStep, GoesOnByWords
  <2>4. DOMAIN reg' = 0 .. 7
    BY <2>3 DEF LoopInv, LoopAt, Holding
  <2> QED
    BY <1>1, <2>3, <2>4 DEF CopyInv, CopyLabels
<1>7. CASE LastWord
  <2>1. pc = "last" /\ pc' = "tail" /\ reg' = reg
    BY <1>7 DEF LastWord, LeaveWords, loop
  <2>2. LoopInv
    BY <2>1 DEF CopyInv
  <2>3. (AtBytes /\ MovedUpTo(to))'
    BY <1>7, <2>2, LastWordStep
  <2> QED
    BY <1>1, <2>1, <2>3 DEF CopyInv, CopyLabels
<1>8. CASE SkipLoop
  <2>1. /\ pc = "align" /\ pc' = "tail" /\ reg' = reg /\ mem' = mem /\ from' = from /\ to' = to
        /\ remain' = remain
    BY <1>8 DEF SkipLoop, loop
  <2>2. AtBytes /\ MovedUpTo(to)
    BY <2>1 DEF CopyInv
  <2>3. (AtBytes /\ MovedUpTo(to))'
    BY <1>1, <2>1, <2>2, GoesOnByBytes DEF AtBytes, MovedUpTo
  <2> QED
    BY <1>1, <2>1, <2>3 DEF CopyInv, CopyLabels
<1>9. CASE Return
  <2>1. pc' = "done" /\ reg' = reg /\ mem' = mem
        /\ (pc = "return" \/ (pc = "tail" /\ remain = 0))
    BY <1>9 DEF Return, loop
  <2>2. /\ call.src \in Nat /\ call.dest \in Nat /\ EndCopy \in Nat /\ MemSize \in Nat
    BY <1>1, CopyNumbers
  <2>3. CASE pc = "return"
    <3>1. Delta = 0 /\ mem = Initial
      BY <2>3 DEF CopyInv
    <3>2. mem = Moves(call.dest, EndCopy)
      BY <2>2, <3>1 DEF Moves, Initial
    <3> QED
      BY <1>1, <1>2, <2>1, <3>2 DEF CopyInv, CopyLabels
  <2>4. CASE pc = "tail" /\ remain = 0
    <3>1. AtBytes /\ MovedUpTo(to) /\ Left(to) = 0 /\ to \in call.dest .. EndCopy
      BY <2>4 DEF CopyInv, AtBytes
    <3>2. mem = Moves(call.dest, EndCopy)
      <4>1. CASE Backward
        BY <2>2, <3>1, <4>1 DEF MovedUpTo, MovesUpTo, Left
      <4>2. CASE ~ Backward
        BY <2>2, <3>1, <4>2 DEF MovedUpTo, MovesUpTo, Left
      <4> QED
        BY <4>1, <4>2
    <3> QED
      BY <1>1, <1>2, <2>1, <3>2 DEF CopyInv, CopyLabels
  <2> QED
    BY <2>1, <2>3, <2>4
<1> QED
  BY <1>3, <1>4, <1>5, <1>6, <1>7, <1>8, <1>9 DEF CopyNext

-----------------------------------------------------------------------------
(* ssm_compare(): the bytes that are known to be the same.                 *)

CompareArguments ==
    /\ call.addr1 \in Nat /\ call.size1 \in Nat /\ call.addr2 \in Nat /\ call.size2 \in Nat
    /\ mem \in [0 .. MemSize - 1 -> Byte]

\* The sizes are accepted and the areas are in the memory
Accepted ==
    /\ call.size1 <= SizeMax /\ call.size2 <= SizeMax
    /\ call.addr1 + call.size1 <= MemSize /\ call.addr2 + call.size2 <= MemSize

\* The areas are the same before the position k
SameUpTo(k) ==
    /\ k \in 0 .. Common
    /\ \A j \in 0 .. k - 1 : Load(mem, call.addr1 + j) = Load(mem, call.addr2 + j)

\* They differ first at the position k, by f
DifferAt(k, f) ==
    /\ k \in 0 .. Common - 1 /\ SameUpTo(k)
    /\ f = Load(mem, call.addr1 + k) - Load(mem, call.addr2 + k) /\ f # 0

\* What f, the value of comp, says of the bytes before the position k
Verdict(k, f) == IF f = 0 THEN SameUpTo(k) ELSE \E j \in Nat : DifferAt(j, f)

\* What is known of the pointers of the byte loops
AtPair ==
    /\ CompareArguments /\ Accepted
    /\ remain \in 0 .. Common
    /\ from = call.addr1 + (Common - remain) /\ to = call.addr2 + (Common - remain)

\* The numbers of the proofs
LEMMA CompareNumbers ==
    ASSUME CompareArguments, Accepted
    PROVE  /\ call.addr1 \in Nat /\ call.addr2 \in Nat /\ call.size1 \in Nat /\ call.size2 \in Nat
           /\ Common \in Nat /\ Common <= call.size1 /\ Common <= call.size2
           /\ Common = call.size1 \/ Common = call.size2
           /\ call.addr1 + Common <= MemSize /\ call.addr2 + Common <= MemSize /\ MemSize \in Nat
           /\ WordSize \in Nat /\ WordSize > 0
  BY WordAccessAssumption DEF CompareArguments, Accepted, Common, Smallest

\* The bytes of the areas are loaded from the memory.
LEMMA LoadsBytes ==
    ASSUME CompareArguments, Accepted, NEW k \in 0 .. Common - 1
    PROVE  /\ Load(mem, call.addr1 + k) = mem[call.addr1 + k] /\ mem[call.addr1 + k] \in Byte
           /\ Load(mem, call.addr2 + k) = mem[call.addr2 + k] /\ mem[call.addr2 + k] \in Byte
<1>1. call.addr1 + k \in 0 .. MemSize - 1 /\ call.addr2 + k \in 0 .. MemSize - 1
  BY CompareNumbers
<1> QED
  BY <1>1 DEF CompareArguments, Load

\* Words that are the same, or differ, say the same of their bytes, the first of
\* which decides whatever the byte order of the processor.
LEMMA WordsDecide ==
    ASSUME NEW a \in Int, NEW b \in Int, WordSize \in Nat
    PROVE  IF Word(a) # Word(b)
           THEN \E k \in 0 .. WordSize - 1 :
                   /\ Load(mem, a + k) # Load(mem, b + k)
                   /\ \A j \in 0 .. k - 1 : Load(mem, a + j) = Load(mem, b + j)
                   /\ CMP_LT_OR_GT(Word(a), Word(b)) = Load(mem, a + k) - Load(mem, b + k)
           ELSE \A k \in 0 .. WordSize - 1 : Load(mem, a + k) = Load(mem, b + k)
<1> DEFINE w1 == Word(a)
           w2 == Word(b)
           D == {k \in 0 .. WordSize - 1 : w1[k] # w2[k]}
<1>1. \A k \in 0 .. WordSize - 1 : w1[k] = Load(mem, a + k) /\ w2[k] = Load(mem, b + k)
  BY DEF Word
<1>2. CASE w1 # w2
  <2>1. D # {}
    BY <1>2 DEF Word
  <2>2. D \in SUBSET Nat
    OBVIOUS
  <2> DEFINE IsFirst(k) == w1[k] # w2[k] /\ \A j \in 0 .. k - 1 : w1[j] = w2[j]
             first == CHOOSE k \in 0 .. WordSize - 1 : IsFirst(k)
  <2>3. PICK x \in D : \A y \in D : x <= y
    <3> HIDE DEF D
    <3> QED
      BY <2>1, <2>2, SmallestOf
  <2> HIDE DEF w1, w2
  <2>4. x \in 0 .. WordSize - 1 /\ IsFirst(x)
    <3>1. x \in 0 .. WordSize - 1 /\ w1[x] # w2[x]
      BY <2>3
    <3>2. ASSUME NEW j \in 0 .. x - 1 PROVE w1[j] = w2[j]
      <4>1. j \in 0 .. WordSize - 1 /\ ~ x <= j
        BY <3>1
      <4> QED
        BY <2>3, <4>1
    <3> QED
      BY <3>1, <3>2
  <2>5. first \in 0 .. WordSize - 1 /\ IsFirst(first)
    <3> HIDE DEF IsFirst
    <3> QED
      BY <2>4
  <2>6. CMP_LT_OR_GT(w1, w2) = w1[first] - w2[first]
    BY DEF CMP_LT_OR_GT
  <2> HIDE DEF first
  <2>7. \A j \in 0 .. first - 1 : j \in 0 .. WordSize - 1
    BY <2>5
  <2> QED
    BY <1>1, <1>2, <2>5, <2>6, <2>7 DEF w1, w2
<1>3. CASE w1 = w2
  <2> HIDE DEF w1, w2
  <2>1. \A k \in 0 .. WordSize - 1 : Load(mem, a + k) = Load(mem, b + k)
    BY <1>1, <1>3
  <2> QED
    BY <1>3, <2>1 DEF w1, w2
<1> QED
  BY <1>2, <1>3

\* The verdict of the words at the position k.
LEMMA NextVerdict ==
    ASSUME CompareArguments, Accepted, NEW k \in Nat, k + WordSize <= Common, SameUpTo(k),
           NEW a, a = call.addr1 + k, NEW b, b = call.addr2 + k
    PROVE  IF Word(a) # Word(b)
           THEN /\ CMP_LT_OR_GT(Word(a), Word(b)) # 0
                /\ \A n : Verdict(n, CMP_LT_OR_GT(Word(a), Word(b)))
           ELSE SameUpTo(k + WordSize)
<1>1. /\ call.addr1 \in Nat /\ call.addr2 \in Nat /\ Common \in Nat
      /\ WordSize \in Nat /\ WordSize > 0 /\ a \in Int /\ b \in Int
  BY CompareNumbers
<1>2. \A j \in 0 .. k - 1 : Load(mem, call.addr1 + j) = Load(mem, call.addr2 + j)
  BY DEF SameUpTo
<1>3. \A n \in Nat : a + n = call.addr1 + (k + n) /\ b + n = call.addr2 + (k + n)
  BY <1>1
<1>4. ASSUME NEW n \in Nat, \A j \in 0 .. n - 1 : Load(mem, a + j) = Load(mem, b + j),
             n <= WordSize
      PROVE  SameUpTo(k + n)
  <2>1. k + n \in 0 .. Common
    BY <1>1, <1>4
  <2>2. ASSUME NEW j \in 0 .. (k + n) - 1
        PROVE  Load(mem, call.addr1 + j) = Load(mem, call.addr2 + j)
    <3>1. CASE j < k
      BY <1>2, <3>1
    <3>2. CASE j >= k
      <4>1. j - k \in 0 .. n - 1 /\ j - k \in Nat /\ k + (j - k) = j
        BY <1>1, <3>2
      <4>2. Load(mem, a + (j - k)) = Load(mem, b + (j - k))
        BY <1>4, <4>1
      <4>3. a + (j - k) = call.addr1 + j /\ b + (j - k) = call.addr2 + j
        <5>1. a + (j - k) = call.addr1 + (k + (j - k)) /\ b + (j - k) = call.addr2 + (k + (j - k))
          BY <1>3, <4>1
        <5> QED
          BY <4>1, <5>1
      <4> QED
        BY <4>2, <4>3
    <3> QED
      BY <3>1, <3>2
  <2> QED
    BY <2>1, <2>2 DEF SameUpTo
<1>5. CASE Word(a) # Word(b)
  <2>1. PICK x \in 0 .. WordSize - 1 :
                   /\ Load(mem, a + x) # Load(mem, b + x)
                   /\ \A j \in 0 .. x - 1 : Load(mem, a + j) = Load(mem, b + j)
                   /\ CMP_LT_OR_GT(Word(a), Word(b)) = Load(mem, a + x) - Load(mem, b + x)
    BY <1>1, <1>5, WordsDecide
  <2>2. x \in Nat /\ x <= WordSize /\ k + x \in 0 .. Common - 1 /\ k + x \in Nat
    BY <1>1
  <2>3. SameUpTo(k + x)
    BY <1>4, <2>1, <2>2
  <2>4. Load(mem, a + x) \in Int /\ Load(mem, b + x) \in Int
    <3>1. /\ Load(mem, call.addr1 + (k + x)) \in Byte
          /\ Load(mem, call.addr2 + (k + x)) \in Byte
      BY <2>2, LoadsBytes
    <3>2. a + x = call.addr1 + (k + x) /\ b + x = call.addr2 + (k + x)
      BY <1>3, <2>2
    <3> QED
      BY <3>1, <3>2 DEF Byte
  <2> DEFINE f == CMP_LT_OR_GT(Word(a), Word(b))
  <2> HIDE DEF f
  <2>5. f # 0 /\ f = Load(mem, call.addr1 + (k + x)) - Load(mem, call.addr2 + (k + x))
    <3>1. f = Load(mem, a + x) - Load(mem, b + x)
      BY <2>1 DEF f
    <3>2. a + x = call.addr1 + (k + x) /\ b + x = call.addr2 + (k + x)
      BY <1>3, <2>2
    <3> QED
      BY <2>1, <2>4, <3>1, <3>2
  <2>6. DifferAt(k + x, f)
    BY <2>2, <2>3, <2>5 DEF DifferAt
  <2> QED
    BY <1>5, <2>2, <2>5, <2>6 DEF Verdict, f
<1>6. CASE Word(a) = Word(b)
  <2>1. \A j \in 0 .. WordSize - 1 : Load(mem, a + j) = Load(mem, b + j)
    BY <1>1, <1>6, WordsDecide
  <2> QED
    BY <1>1, <1>4, <1>6, <2>1
<1> QED
  BY <1>5, <1>6

\* The verdict of a byte.
LEMMA ByteVerdict ==
    ASSUME AtPair, Verdict(Common - remain, found), found = 0, remain > 0, CompareByte
    PROVE  /\ Verdict(Common - remain', found')
           /\ remain' \in 0 .. Common
           /\ from' = call.addr1 + (Common - remain') /\ to' = call.addr2 + (Common - remain')
<1> DEFINE k == Common - remain
<1>1. /\ found' = Load(mem, from) - Load(mem, to) /\ from' = from + 1 /\ to' = to + 1
      /\ remain' = remain - 1
  BY DEF CompareByte
<1>2. /\ CompareArguments /\ Accepted /\ remain \in 0 .. Common
      /\ from = call.addr1 + k /\ to = call.addr2 + k
  BY DEF AtPair
<1>3. call.addr1 \in Nat /\ call.addr2 \in Nat /\ Common \in Nat
  BY <1>2, CompareNumbers
<1>4. k \in 0 .. Common - 1 /\ k \in Nat /\ Common - remain' = k + 1 /\ k + 1 \in 0 .. Common
  BY <1>1, <1>2, <1>3
<1>5. SameUpTo(k)
  BY DEF Verdict
<1> HIDE DEF k
<1>6. Load(mem, from) \in Int /\ Load(mem, to) \in Int
  <2>1. Load(mem, call.addr1 + k) \in Byte /\ Load(mem, call.addr2 + k) \in Byte
    BY <1>2, <1>4, LoadsBytes
  <2> QED
    BY <1>2, <2>1 DEF Byte
<1>7. Verdict(k + 1, found')
  <2>1. CASE found' = 0
    <3>1. Load(mem, from) = Load(mem, to)
      BY <1>1, <1>6, <2>1
    <3>2. \A j \in 0 .. (k + 1) - 1 : j = k \/ j \in 0 .. k - 1
      BY <1>4
    <3>3. SameUpTo(k + 1)
      BY <1>2, <1>4, <1>5, <3>1, <3>2 DEF SameUpTo
    <3> QED
      BY <2>1, <3>3 DEF Verdict
  <2>2. CASE found' # 0
    <3>1. DifferAt(k, found')
      BY <1>1, <1>2, <1>4, <1>5, <2>2 DEF DifferAt
    <3> QED
      BY <1>4, <2>2, <3>1 DEF Verdict
  <2> QED
    BY <2>1, <2>2
<1> QED
  BY <1>1, <1>2, <1>3, <1>4, <1>7

-----------------------------------------------------------------------------
(* The two words that are compared next.                                   *)

\* From a byte of the second area to the one it is compared with
Offset == call.addr1 - call.addr2

\* The start of the first word that the bytes to compare with those of the word
\* at here straddle
Partner(here) == (here + Offset) - Shift

\* The registers hold the words to compare at index i, here being the address
\* of the one of the second area
Pairs(r, i, here) ==
    /\ DOMAIN r = 0 .. 7
    /\ IF MergesFirst
       THEN /\ r[(i + 2) % 4] = Word(Partner(here))
            /\ r[(i + 3) % 4] = Word(Partner(here) + WordSize)
            /\ r[4 + ((i + 3) % 4)] = Word(here)
       ELSE /\ r[(i + 1) % 2] = Word(Partner(here))
            /\ r[4 + ((i + 1) % 2)] = Word(here)

\* Where the next word of the first area is loaded
AheadFirst(here) ==
    IF MergesFirst THEN Partner(here) + (WordSize + WordSize) ELSE Partner(here) + WordSize

\* The pairs of words to compare, the last one included, at index i with l words
\* to count
RestPairs(i, l) == (l - i) + 1

\* The merged words are the bytes to compare.
LEMMA ComparedAre ==
    ASSUME NEW i \in 0 .. 3, NEW here \in Int, Pairs(reg, i, here), from \in Nat, Offset \in Int
    PROVE  Compared(i) = <<Word(here + Offset), Word(here)>>
<1> DEFINE o == Partner(here)
           a == here + Offset
<1>1. /\ WordSize \in Nat /\ WordSize > 0 /\ Shift \in 0 .. WordSize - 1
      /\ a \in Int /\ o = a - Shift /\ o \in Int
  BY WordAccessAssumption DEF Shift, Partner
<1>2. CASE MergesFirst
  <2>1. Compared(i) = <<MergeWords(Word(o), Word(o + WordSize)), Word(here)>>
    BY <1>2 DEF Compared, Pairs
  <2> HIDE DEF o, a
  <2>2. ASSUME NEW k \in 0 .. WordSize - 1
        PROVE  (IF k + Shift < WordSize THEN Word(o)[k + Shift]
                ELSE Word(o + WordSize)[k + Shift - WordSize]) = Load(mem, a + k)
    <3>1. CASE k + Shift < WordSize
      <4>1. k + Shift \in 0 .. WordSize - 1 /\ o + (k + Shift) = a + k
        BY <1>1, <3>1
      <4>2. Word(o)[k + Shift] = Load(mem, o + (k + Shift))
        BY <4>1 DEF Word
      <4> QED
        BY <3>1, <4>1, <4>2
    <3>2. CASE ~ k + Shift < WordSize
      <4>1. /\ k + Shift - WordSize \in 0 .. WordSize - 1
            /\ (o + WordSize) + (k + Shift - WordSize) = a + k
        BY <1>1, <3>2
      <4>2. Word(o + WordSize)[k + Shift - WordSize] =
              Load(mem, (o + WordSize) + (k + Shift - WordSize))
        BY <4>1 DEF Word
      <4> QED
        BY <3>2, <4>1, <4>2
    <3> QED
      BY <3>1, <3>2
  <2>3. MergeWords(Word(o), Word(o + WordSize)) = Word(a)
    BY <2>2 DEF MergeWords, Word, Shift
  <2> QED
    BY <2>1, <2>3 DEF a
<1>3. CASE ~ MergesFirst
  <2>1. Compared(i) = <<Word(o), Word(here)>>
    BY <1>3 DEF Compared, Pairs
  <2>2. Shift = 0
    BY <1>3 DEF MergesFirst, Aligned, Shift
  <2>3. o = a
    BY <1>1, <2>2
  <2> QED
    BY <2>1, <2>3
<1> QED
  BY <1>2, <1>3

\* A load of the next words gives the registers of the next label.
LEMMA PairsFollow ==
    ASSUME NEW i \in 0 .. 3, NEW here \in Int, NEW r, Pairs(r, i, here),
           Shift \in Int, Offset \in Int, WordSize \in Nat,
           NEW x, x = (IF MergesFirst THEN i ELSE i % 2)
    PROVE  Pairs([r EXCEPT ![x] = Word(AheadFirst(here)), ![4 + x] = Word(here + WordSize)],
                 (i + 1) % 4, here + WordSize)
<1> DEFINE w1 == Word(AheadFirst(here))
           w2 == Word(here + WordSize)
           new == [r EXCEPT ![x] = w1, ![4 + x] = w2]
           j == (i + 1) % 4
<1>1. DOMAIN r = 0 .. 7 /\ x \in 0 .. 3 /\ 4 + x \in 4 .. 7
  BY DEF Pairs
<1> HIDE DEF w1, w2
<1>2. /\ DOMAIN new = 0 .. 7 /\ new[x] = w1 /\ new[4 + x] = w2
      /\ \A y \in 0 .. 7 \ {x, 4 + x} : new[y] = r[y]
  BY <1>1
<1> HIDE DEF new
<1>3. /\ Partner(here) \in Int /\ Partner(here + WordSize) = Partner(here) + WordSize
      /\ Partner(here) + (WordSize + WordSize) = (Partner(here) + WordSize) + WordSize
  BY DEF Partner
<1>4. CASE MergesFirst
  <2>1. (j + 2) % 4 = (i + 3) % 4 /\ (j + 3) % 4 = i /\ (i + 3) % 4 \in 0 .. 7 \ {i, 4 + i}
    OBVIOUS
  <2>2. x = i /\ new[(i + 3) % 4] = Word(Partner(here) + WordSize)
    <3>1. r[(i + 3) % 4] = Word(Partner(here) + WordSize)
      BY <1>4 DEF Pairs
    <3> QED
      BY <1>2, <1>4, <2>1, <3>1
  <2>3. w1 = Word(Partner(here) + (WordSize + WordSize))
    BY <1>4 DEF AheadFirst, w1
  <2> HIDE DEF j
  <2> QED
    BY <1>2, <1>3, <1>4, <2>1, <2>2, <2>3 DEF Pairs, new, w1, w2, j
<1>5. CASE ~ MergesFirst
  <2>1. (j + 1) % 2 = x
    BY <1>5
  <2>2. w1 = Word(Partner(here) + WordSize)
    BY <1>5 DEF AheadFirst, w1
  <2> HIDE DEF j
  <2> QED
    BY <1>2, <1>3, <1>5, <2>1, <2>2 DEF Pairs, new, w1, w2, j
<1> QED
  BY <1>4, <1>5

-----------------------------------------------------------------------------
(* The unrolled loops of ssm_compare().                                    *)

\* What is known when the next word to compare is at here, and the next load of
\* the first area is from ahead
PairAt(here, ahead, i, l, r) ==
    /\ here \in Int /\ to <= here /\ i \in 0 .. 3 /\ l \in Nat /\ l % 4 = 0
    /\ here + RestPairs(i, l) * WordSize = to + (remain - (remain % WordSize))
    /\ SameUpTo(here - call.addr2)
    /\ ahead = AheadFirst(here)
    /\ Pairs(r, i, here)

CompareLoopInv ==
    /\ AtPair /\ found = 0 /\ srcp \in Int /\ dstp \in Int
    /\ PairAt((dstp + slot * WordSize) - WordSize, srcp + slot * WordSize, slot, len, reg)
    /\ pc = "compare_loop" => len # 0
    /\ pc = "compare_last" => len = 0 /\ slot = 0

\* The verdict of the next words.
LEMMA PairVerdict ==
    ASSUME AtPair, NEW here, NEW ahead, NEW i, NEW l, NEW r, PairAt(here, ahead, i, l, r),
           RestPairs(i, l) \in Nat, RestPairs(i, l) >= 1
    PROVE  /\ IF Word(here + Offset) # Word(here)
              THEN /\ CMP_LT_OR_GT(Word(here + Offset), Word(here)) # 0
                   /\ \A n : Verdict(n, CMP_LT_OR_GT(Word(here + Offset), Word(here)))
              ELSE SameUpTo((here + WordSize) - call.addr2)
           /\ here \in Nat /\ here - call.addr2 \in Nat
           /\ (here - call.addr2) + WordSize <= Common
           /\ here + WordSize <= to + (remain - (remain % WordSize))
<1> DEFINE k == here - call.addr2
           rest == RestPairs(i, l)
           odd == remain % WordSize
<1>1. /\ CompareArguments /\ Accepted /\ remain \in 0 .. Common
      /\ to = call.addr2 + (Common - remain) /\ from = call.addr1 + (Common - remain)
  BY DEF AtPair
<1>2. /\ call.addr1 \in Nat /\ call.addr2 \in Nat /\ Common \in Nat
      /\ WordSize \in Nat /\ WordSize > 0
  BY <1>1, CompareNumbers
<1>3. odd \in Nat
  BY <1>1, <1>2
<1>4. /\ here \in Int /\ to <= here
      /\ here + rest * WordSize = to + (remain - odd)
      /\ SameUpTo(k)
  BY DEF PairAt
<1>5. rest * WordSize \in Nat /\ rest * WordSize >= WordSize
  BY <1>2, WordsAre
<1> DEFINE z == rest * WordSize
<1> HIDE DEF odd, rest, z
<1>6. /\ here \in Nat /\ k \in Nat /\ k + WordSize <= Common
      /\ here + WordSize <= to + (remain - odd)
  <2>1. here + z = to + (remain - odd) /\ z \in Nat /\ z >= WordSize
    BY <1>4, <1>5 DEF z
  <2> QED
    BY <1>1, <1>2, <1>3, <1>4, <2>1
<1>7. /\ here + Offset = call.addr1 + k /\ here = call.addr2 + k
      /\ (here + WordSize) - call.addr2 = k + WordSize
  BY <1>2, <1>4 DEF Offset
<1> HIDE DEF k
<1> QED
  BY <1>1, <1>4, <1>6, <1>7, NextVerdict DEF odd, k

\* One label of the loop.
LEMMA CompareWordStep ==
    ASSUME CompareLoopInv, CompareWord
    PROVE  \/ pc' = "compare_after" /\ \A n : Verdict(n, found')
           \/ /\ pc' \in {"compare_loop", "compare_last"} /\ found' = 0
              /\ srcp' \in Int /\ dstp' \in Int
              /\ PairAt((dstp' + slot' * WordSize) - WordSize, srcp' + slot' * WordSize,
                        slot', len', reg')
              /\ pc' = "compare_loop" => len' # 0
              /\ pc' = "compare_last" => len' = 0 /\ slot' = 0
<1> DEFINE b == dstp + slot * WordSize
           a == srcp + slot * WordSize
           h == b - WordSize
           move == IF slot = 3 THEN 4 * WordSize ELSE 0
           x == IF MergesFirst THEN slot ELSE slot % 2
<1>1. /\ pc = "compare_loop" /\ mem' = mem
      /\ reg' = [reg EXCEPT ![x] = Word(a), ![4 + x] = Word(b)]
      /\ IF Compared(slot)[1] # Compared(slot)[2]
         THEN /\ found' = CMP_LT_OR_GT(Compared(slot)[1], Compared(slot)[2])
              /\ pc' = "compare_after"
         ELSE /\ srcp' = srcp + move /\ dstp' = dstp + move
              /\ len' = IF slot = 3 THEN len - 4 ELSE len
              /\ slot' = (slot + 1) % 4
              /\ pc' = IF len' = 0 THEN "compare_last" ELSE "compare_loop"
              /\ found' = found
  BY DEF CompareWord
<1>2. /\ AtPair /\ found = 0 /\ PairAt(h, a, slot, len, reg) /\ len # 0
      /\ srcp \in Int /\ dstp \in Int
  BY <1>1 DEF CompareLoopInv
<1>3. /\ h \in Int /\ slot \in 0 .. 3 /\ len \in Nat /\ len % 4 = 0 /\ to <= h
      /\ h + RestPairs(slot, len) * WordSize = to + (remain - (remain % WordSize))
      /\ a = AheadFirst(h) /\ Pairs(reg, slot, h)
  BY <1>2 DEF PairAt
<1>4. RestPairs(slot, len) \in Nat /\ RestPairs(slot, len) >= 2
  BY <1>2, <1>3 DEF RestPairs
<1>5. /\ WordSize \in Nat /\ WordSize > 0 /\ Offset \in Int /\ from \in Nat /\ to \in Nat
      /\ Shift \in Int /\ remain \in Nat /\ remain % WordSize \in Nat
  <2>1. /\ WordSize \in Nat /\ WordSize > 0 /\ Offset \in Int /\ from \in Nat /\ to \in Nat
        /\ remain \in Nat
    BY <1>2, CompareNumbers DEF AtPair, Offset
  <2> QED
    BY <2>1 DEF Shift
<1>6. b = h + WordSize
  <2> DEFINE z == slot * WordSize
  <2>1. z \in Int
    BY <1>3, <1>5
  <2> HIDE DEF z
  <2>2. (dstp + z) = ((dstp + z) - WordSize) + WordSize
    BY <1>2, <1>5, <2>1
  <2> QED
    BY <2>2 DEF z
<1>7. Compared(slot) = <<Word(h + Offset), Word(h)>>
  <2> HIDE DEF h
  <2> QED
    BY <1>3, <1>5, ComparedAre
<1> HIDE DEF a, b, h
<1>8. /\ IF Word(h + Offset) # Word(h)
         THEN \A n : Verdict(n, CMP_LT_OR_GT(Word(h + Offset), Word(h)))
         ELSE SameUpTo((h + WordSize) - call.addr2)
      /\ h \in Nat
  BY <1>2, <1>4, PairVerdict
<1>9. CASE Word(h + Offset) # Word(h)
  <2>1. found' = CMP_LT_OR_GT(Word(h + Offset), Word(h)) /\ pc' = "compare_after"
    BY <1>1, <1>7, <1>9
  <2> QED
    BY <1>8, <1>9, <2>1
<1>10. CASE Word(h + Offset) = Word(h)
  <2>1. /\ srcp' = srcp + move /\ dstp' = dstp + move
        /\ len' = IF slot = 3 THEN len - 4 ELSE len
        /\ slot' = (slot + 1) % 4
        /\ pc' = IF len' = 0 THEN "compare_last" ELSE "compare_loop"
        /\ found' = 0
    BY <1>1, <1>2, <1>7, <1>10
  <2>2. /\ slot' \in 0 .. 3 /\ len' \in Nat /\ len' % 4 = 0
        /\ RestPairs(slot', len') = RestPairs(slot, len) - 1
        /\ len' = 0 => slot' = 0
    <3>1. CASE slot = 3
      BY <1>2, <1>3, <2>1, <3>1 DEF RestPairs
    <3>2. CASE slot # 3
      BY <1>2, <1>3, <2>1, <3>2 DEF RestPairs
    <3> QED
      BY <3>1, <3>2
  <2>3. /\ srcp' \in Int /\ dstp' \in Int
        /\ dstp' + slot' * WordSize = b + WordSize
        /\ srcp' + slot' * WordSize = a + WordSize
    <3>1. CASE slot = 3
      BY <1>2, <1>5, <2>1, <3>1 DEF a, b
    <3>2. CASE slot # 3
      <4>1. slot' = slot + 1 /\ srcp' = srcp /\ dstp' = dstp
        <5>1. move = 0 /\ slot + 1 \in 0 .. 3
          BY <1>3, <3>2
        <5> QED
          BY <1>2, <2>1, <5>1
      <4>2. (slot + 1) * WordSize = slot * WordSize + WordSize /\ slot * WordSize \in Int
        BY <1>3, <1>5
      <4> QED
        BY <1>2, <1>5, <4>1, <4>2 DEF a, b
    <3> QED
      BY <3>1, <3>2
  <2> HIDE DEF move
  <2>4. /\ (dstp' + slot' * WordSize) - WordSize = h + WordSize
        /\ h + WordSize \in Int /\ to <= h + WordSize
    BY <1>3, <1>5, <1>6, <2>3
  <2>5. AheadFirst(h + WordSize) = a + WordSize
    BY <1>3, <1>5 DEF AheadFirst, Partner
  <2>6. Pairs(reg', slot', h + WordSize)
    <3>1. x = IF MergesFirst THEN slot ELSE slot % 2
      OBVIOUS
    <3> HIDE DEF x
    <3>2. reg' = [reg EXCEPT ![x] = Word(AheadFirst(h)), ![4 + x] = Word(h + WordSize)]
      BY <1>1, <1>3, <1>6
    <3> QED
      BY <1>3, <1>5, <2>1, <3>1, <3>2, PairsFollow
  <2>7. (h + WordSize) + RestPairs(slot', len') * WordSize =
           to + (remain - (remain % WordSize))
    <3>1. /\ (RestPairs(slot, len) - 1) * WordSize = RestPairs(slot, len) * WordSize - WordSize
          /\ RestPairs(slot, len) * WordSize \in Nat
      BY <1>4, <1>5, WordsAre
    <3> DEFINE z == RestPairs(slot, len) * WordSize
    <3> HIDE DEF z
    <3>2. RestPairs(slot', len') * WordSize = z - WordSize /\ z \in Nat
      BY <2>2, <3>1 DEF z
    <3>3. h + z = to + (remain - (remain % WordSize))
      BY <1>3 DEF z
    <3> QED
      BY <1>3, <1>5, <3>2, <3>3
  <2>8. PairAt(h + WordSize, a + WordSize, slot', len', reg')
    BY <1>8, <1>10, <2>2, <2>4, <2>5, <2>6, <2>7 DEF PairAt
  <2> QED
    BY <2>1, <2>2, <2>3, <2>4, <2>8
<1> QED
  BY <1>9, <1>10

\* The words left in the registers.
LEMMA CompareLastStep ==
    ASSUME CompareLoopInv, CompareLastWord
    PROVE  Verdict(Common - (remain % WordSize), found')
<1> DEFINE h == (dstp + slot * WordSize) - WordSize
           a == srcp + slot * WordSize
           r == remain % WordSize
<1>1. /\ pc = "compare_last"
      /\ found' = IF Compared(0)[1] # Compared(0)[2]
                  THEN CMP_LT_OR_GT(Compared(0)[1], Compared(0)[2]) ELSE 0
  BY DEF CompareLastWord
<1>2. AtPair /\ PairAt(h, a, slot, len, reg) /\ len = 0 /\ slot = 0
  BY <1>1 DEF CompareLoopInv
<1>3. /\ h \in Int /\ Pairs(reg, 0, h) /\ RestPairs(slot, len) = 1
      /\ h + RestPairs(slot, len) * WordSize = to + (remain - r)
  BY <1>2 DEF PairAt, RestPairs
<1>4. /\ WordSize \in Nat /\ WordSize > 0 /\ Offset \in Int /\ from \in Nat /\ remain \in Nat
      /\ Common \in Nat /\ call.addr2 \in Nat /\ to = call.addr2 + (Common - remain)
  BY <1>2, CompareNumbers DEF AtPair, Offset
<1>5. r \in Nat
  BY <1>4
<1> HIDE DEF h, a, r
<1>6. Compared(0) = <<Word(h + Offset), Word(h)>>
  BY <1>3, <1>4, ComparedAre
<1>7. IF Word(h + Offset) # Word(h)
      THEN \A n : Verdict(n, CMP_LT_OR_GT(Word(h + Offset), Word(h)))
      ELSE SameUpTo((h + WordSize) - call.addr2)
  BY <1>2, <1>3, PairVerdict
<1>8. (h + WordSize) - call.addr2 = Common - r
  BY <1>3, <1>4, <1>5
<1>9. CASE Word(h + Offset) # Word(h)
  BY <1>1, <1>6, <1>7, <1>9 DEF r
<1>10. CASE Word(h + Offset) = Word(h)
  <2>1. found' = 0 /\ SameUpTo(Common - r)
    BY <1>1, <1>6, <1>7, <1>8, <1>10
  <2> QED
    BY <2>1 DEF Verdict, r
<1> QED
  BY <1>9, <1>10

\* The switch jumps to the label from which the loop compares as many words as
\* there are.
CaseOf(words) == IF words % 4 < 2 THEN (words % 4) + 4 ELSE words % 4

LEMMA CompareSwitch ==
    ASSUME NEW words \in Nat, words > 0, NEW c, c = CaseOf(words),
           NEW i, i = 5 - c, NEW l, l = words + 4 - c
    PROVE  /\ c \in 2 .. 5 /\ i \in 0 .. 3
           /\ l \in Nat /\ l % 4 = 0 /\ RestPairs(i, l) = words
           /\ l = 0 => i = 0
<1>1. c \in 2 .. 5 /\ words >= c % 4 /\ (words - c) % 4 = 0
  BY DEF CaseOf
<1> QED
  BY <1>1 DEF RestPairs, CaseOf

\* The jump into the loop: the first words are in registers.
LEMMA CompareEnterStep ==
    ASSUME AtPair, SameUpTo(Common - remain), DOMAIN reg = 0 .. 7, CompareEnterLoop
    PROVE  \/ pc' = "compare_after" /\ SameUpTo(Common - (remain % WordSize))
           \/ /\ pc' \in {"compare_loop", "compare_last"}
              /\ srcp' \in Int /\ dstp' \in Int
              /\ PairAt((dstp' + slot' * WordSize) - WordSize, srcp' + slot' * WordSize,
                        slot', len', reg')
              /\ pc' = "compare_loop" => len' # 0
              /\ pc' = "compare_last" => len' = 0 /\ slot' = 0
<1> DEFINE words == remain \div WordSize
           c == IF words % 4 < 2 THEN (words % 4) + 4 ELSE words % 4
           base == RoundDown(from)
           back == (4 - c) * WordSize
           i == 5 - c
<1>1. IF words = 0 THEN pc' = "compare_after"
      ELSE /\ reg' = IF MergesFirst
                     THEN [reg EXCEPT ![(i + 2) % 4] = Word(base),
                                      ![(i + 3) % 4] = Word(base + WordSize),
                                      ![4 + ((i + 3) % 4)] = Word(to)]
                     ELSE [reg EXCEPT ![(i + 1) % 2] = Word(base),
                                      ![4 + ((i + 1) % 2)] = Word(to)]
           /\ srcp' = base - back + (IF MergesFirst THEN WordSize ELSE 0)
           /\ dstp' = to - back
           /\ len' = words + 4 - c /\ slot' = i
           /\ pc' = IF len' = 0 THEN "compare_last" ELSE "compare_loop"
  BY DEF CompareEnterLoop
<1>2. /\ CompareArguments /\ Accepted /\ remain \in 0 .. Common
      /\ to = call.addr2 + (Common - remain) /\ from = call.addr1 + (Common - remain)
  BY DEF AtPair
<1>3. /\ call.addr1 \in Nat /\ call.addr2 \in Nat /\ Common \in Nat /\ Offset \in Int
      /\ WordSize \in Nat /\ WordSize > 0 /\ remain \in Nat /\ from \in Nat /\ to \in Nat
      /\ from = to + Offset
  BY <1>2, CompareNumbers DEF Offset
<1>4. words \in Nat /\ remain = words * WordSize + (remain % WordSize) /\ remain % WordSize \in Nat
  <2>1. words \in Nat /\ remain = WordSize * words + (remain % WordSize)
    <3>1. WordSize \in Nat /\ WordSize > 0 /\ remain \in Nat
      BY <1>3
    <3> QED
      BY <3>1
  <2>2. remain % WordSize \in Nat
    BY <1>3
  <2> HIDE DEF words
  <2> QED
    BY <1>3, <2>1, <2>2
<1>5. Shift \in 0 .. WordSize - 1 /\ base = from - Shift /\ base \in Int
  BY <1>3 DEF RoundDown, Shift
<1>6. Partner(to) = base /\ to - call.addr2 = Common - remain
  BY <1>2, <1>3, <1>5 DEF Partner
<1>7. CASE words = 0
  <2>1. remain % WordSize = remain
    BY <1>3, <1>4, <1>7
  <2> QED
    BY <1>1, <1>7, <2>1
<1>8. CASE words # 0
  <2>1. words > 0
    BY <1>4, <1>8
  <2>2. /\ c \in 2 .. 5 /\ i \in 0 .. 3
        /\ words + 4 - c \in Nat /\ (words + 4 - c) % 4 = 0
        /\ RestPairs(i, words + 4 - c) = words
        /\ words + 4 - c = 0 => i = 0
    <3> DEFINE l == words + 4 - c
    <3>1. /\ c = CaseOf(words)
          /\ i = 5 - c /\ l = words + 4 - c /\ words \in Nat /\ words > 0
      BY <1>4, <2>1 DEF CaseOf
    <3> HIDE DEF words, c, i, l
    <3>2. /\ c \in 2 .. 5 /\ i \in 0 .. 3 /\ l \in Nat /\ l % 4 = 0
          /\ RestPairs(i, l) = words /\ (l = 0 => i = 0)
      BY <3>1, CompareSwitch
    <3> QED
      BY <3>1, <3>2
  <2> HIDE DEF words, c, base, i
  <2>3. /\ back \in Int /\ i * WordSize = back + WordSize
    <3>1. i = (4 - c) + 1 /\ c \in Int
      BY <2>2 DEF i
    <3> QED
      BY <1>3, <3>1
  <2> DEFINE z == i * WordSize
  <2> HIDE DEF back, z
  <2>4. /\ dstp' \in Int /\ srcp' \in Int
        /\ (dstp' + z) - WordSize = to
        /\ srcp' + z = AheadFirst(to)
    <3>1. z = back + WordSize /\ back \in Int
      BY <2>3 DEF z
    <3>2. CASE MergesFirst
      <4>1. srcp' = base - back + WordSize /\ dstp' = to - back
        BY <1>1, <1>8, <3>2
      <4> QED
        BY <1>3, <1>5, <1>6, <3>1, <3>2, <4>1 DEF AheadFirst
    <3>3. CASE ~ MergesFirst
      <4>1. srcp' = base - back + 0 /\ dstp' = to - back
        BY <1>1, <1>8, <3>3
      <4> QED
        BY <1>3, <1>5, <1>6, <3>1, <3>3, <4>1 DEF AheadFirst
    <3> QED
      BY <3>2, <3>3
  <2>5. Pairs(reg', i, to)
    <3> DEFINE w0 == Word(base)
               w1 == Word(base + WordSize)
               w2 == Word(to)
    <3> HIDE DEF w0, w1, w2
    <3>1. CASE MergesFirst
      <4>1. reg' = [reg EXCEPT ![(i + 2) % 4] = w0, ![(i + 3) % 4] = w1, ![4 + ((i + 3) % 4)] = w2]
        BY <1>1, <1>8, <3>1 DEF w0, w1, w2
      <4> DEFINE x == (i + 2) % 4
                 y == (i + 3) % 4
                 t == 4 + ((i + 3) % 4)
      <4>2. x \in 0 .. 3 /\ y \in 0 .. 3 /\ x # y /\ t \in 4 .. 7
        BY <2>2
      <4>3. reg' = [reg EXCEPT ![x] = w0, ![y] = w1, ![t] = w2]
        BY <4>1
      <4> HIDE DEF x, y, t
      <4>4. DOMAIN reg' = 0 .. 7 /\ reg'[x] = w0 /\ reg'[y] = w1 /\ reg'[t] = w2
        BY <4>2, <4>3
      <4> QED
        BY <1>6, <3>1, <4>4 DEF Pairs, w0, w1, w2, x, y, t
    <3>2. CASE ~ MergesFirst
      <4>1. reg' = [reg EXCEPT ![(i + 1) % 2] = w0, ![4 + ((i + 1) % 2)] = w2]
        BY <1>1, <1>8, <3>2 DEF w0, w2
      <4> DEFINE x == (i + 1) % 2
                 t == 4 + ((i + 1) % 2)
      <4>2. x \in 0 .. 3 /\ t \in 4 .. 7
        BY <2>2
      <4>3. reg' = [reg EXCEPT ![x] = w0, ![t] = w2]
        BY <4>1
      <4> HIDE DEF x, t
      <4>4. DOMAIN reg' = 0 .. 7 /\ reg'[x] = w0 /\ reg'[t] = w2
        BY <4>2, <4>3
      <4> QED
        BY <1>6, <3>2, <4>4 DEF Pairs, w0, w2, x, t
    <3> QED
      BY <3>1, <3>2
  <2>6. len' = words + 4 - c /\ slot' = i
        /\ pc' = IF len' = 0 THEN "compare_last" ELSE "compare_loop"
    BY <1>1, <1>8
  <2>7. to + RestPairs(slot', len') * WordSize = to + (remain - (remain % WordSize))
    <3>1. RestPairs(slot', len') = words
      BY <2>2, <2>6
    <3> DEFINE y == words * WordSize
    <3> HIDE DEF y
    <3>2. remain = y + (remain % WordSize) /\ remain % WordSize \in Nat
      BY <1>4 DEF y
    <3>3. y \in Nat
      BY <1>3, <1>4 DEF y
    <3>4. remain - (remain % WordSize) = y
      BY <1>3, <3>2, <3>3
    <3> QED
      BY <3>1, <3>4 DEF y
  <2>8. PairAt(to, AheadFirst(to), slot', len', reg')
    BY <1>3, <1>6, <2>2, <2>5, <2>6, <2>7 DEF PairAt
  <2> QED
    BY <2>2, <2>4, <2>6, <2>8 DEF z
<1> QED
  BY <1>7, <1>8

-----------------------------------------------------------------------------
(* The answer of ssm_compare().                                            *)

\* The area at a1 has the smaller byte at the position k, the first at which it
\* differs from the one at a2
SmallerAt(a1, a2, k) ==
    /\ mem[a1 + k] < mem[a2 + k] /\ mem[a1 + k] \in Int /\ mem[a2 + k] \in Int
    /\ \A j \in 0 .. k - 1 : mem[a1 + j] = mem[a2 + j] /\ mem[a1 + j] \in Int

\* There, the areas are ordered.
LEMMA DifferenceOrders ==
    ASSUME NEW a1 \in Nat, NEW s1 \in Nat, NEW a2 \in Nat, NEW s2 \in Nat,
           NEW k \in Nat, k < s1, k < s2, SmallerAt(a1, a2, k)
    PROVE  Before(a1, s1, a2, s2) /\ ~ Before(a2, s2, a1, s1)
<1>0. /\ mem[a1 + k] < mem[a2 + k] /\ mem[a1 + k] \in Int /\ mem[a2 + k] \in Int
      /\ \A j \in 0 .. k - 1 : mem[a1 + j] = mem[a2 + j] /\ mem[a1 + j] \in Int
  BY DEF SmallerAt
<1>1. Before(a1, s1, a2, s2)
  <2>1. k \in 0 .. s1 /\ \A j \in 0 .. k - 1 : j < s2
    OBVIOUS
  <2> QED
    BY <1>0, <2>1 DEF Before
<1>2. ASSUME Before(a2, s2, a1, s1) PROVE FALSE
  <2>1. PICK x \in 0 .. s2 :
           /\ \A j \in 0 .. x - 1 : j < s1 /\ mem[a2 + j] = mem[a1 + j]
           /\ x < s1
           /\ x < s2 => mem[a2 + x] < mem[a1 + x]
    BY <1>2 DEF Before
  <2>2. CASE x < k
    <3>1. x \in 0 .. k - 1 /\ x < s2
      BY <2>2
    <3>2. mem[a1 + x] = mem[a2 + x] /\ mem[a1 + x] \in Int /\ mem[a2 + x] < mem[a1 + x]
      BY <1>0, <2>1, <3>1
    <3> QED
      BY <1>0, <3>2
  <2>3. CASE x = k
    <3>1. mem[a2 + k] < mem[a1 + k]
      BY <2>1, <2>3
    <3> QED
      BY <1>0, <3>1
  <2>4. CASE k < x
    <3>1. k \in 0 .. x - 1
      BY <2>4
    <3>2. mem[a2 + k] = mem[a1 + k]
      BY <1>0, <2>1, <3>1
    <3> QED
      BY <1>0, <3>2
  <2> QED
    BY <2>2, <2>3, <2>4
<1> QED
  BY <1>1, <1>2

\* Without one, the shorter area comes first.
LEMMA LengthsOrder ==
    ASSUME NEW a1 \in Nat, NEW s1 \in Nat, NEW a2 \in Nat, NEW s2 \in Nat,
           \A j \in 0 .. Smallest(s1, s2) - 1 :
               mem[a1 + j] = mem[a2 + j] /\ mem[a1 + j] \in Int
    PROVE  Before(a1, s1, a2, s2) <=> s1 < s2
<1>1. ASSUME s1 < s2 PROVE Before(a1, s1, a2, s2)
  <2>1. Smallest(s1, s2) = s1
    BY <1>1 DEF Smallest
  <2>2. s1 \in 0 .. s1 /\ ~ s1 < s1 /\ \A j \in 0 .. s1 - 1 : j < s2
    BY <1>1
  <2> QED
    BY <1>1, <2>1, <2>2 DEF Before
<1>2. ASSUME Before(a1, s1, a2, s2), ~ s1 < s2 PROVE FALSE
  <2>1. PICK x \in 0 .. s1 : x < s2 /\ (x < s1 => mem[a1 + x] < mem[a2 + x])
    BY <1>2 DEF Before
  <2>2. Smallest(s1, s2) = s2
    BY <1>2 DEF Smallest
  <2>3. x \in 0 .. s2 - 1 /\ x < s1
    BY <1>2, <2>1
  <2>4. mem[a1 + x] = mem[a2 + x] /\ mem[a1 + x] \in Int /\ mem[a1 + x] < mem[a2 + x]
    BY <2>1, <2>2, <2>3
  <2> QED
    BY <2>4
<1> QED
  BY <1>1, <1>2

\* What a call answers
Answers(st) ==
    IF call.size1 > SizeMax \/ call.size2 > SizeMax THEN st = "SSM_SIZETOOLARGE"
    ELSE /\ st = "SSM_LOWER" <=> Before(call.addr1, call.size1, call.addr2, call.size2)
         /\ st = "SSM_GREATER" <=> Before(call.addr2, call.size2, call.addr1, call.size1)
         /\ st \in {"SSM_LOWER", "SSM_GREATER", "SSM_EQUAL"}

\* The status that goes with f, the value of comp
StatusOf(f) ==
    IF f < 0 THEN "SSM_LOWER" ELSE IF f > 0 THEN "SSM_GREATER"
    ELSE IF call.size1 < call.size2 THEN "SSM_LOWER"
    ELSE IF call.size1 > call.size2 THEN "SSM_GREATER" ELSE "SSM_EQUAL"

LEMMA VerdictAnswers ==
    ASSUME CompareArguments, Accepted, NEW f, Verdict(Common, f) \/ (f # 0 /\ \E k : Verdict(k, f))
    PROVE  Answers(StatusOf(f))
<1>1. /\ call.addr1 \in Nat /\ call.addr2 \in Nat /\ call.size1 \in Nat /\ call.size2 \in Nat
      /\ Common \in Nat /\ Common <= call.size1 /\ Common <= call.size2
      /\ ~ (call.size1 > SizeMax \/ call.size2 > SizeMax)
  BY CompareNumbers, SizeAssumption DEF Accepted
<1>2. \A k \in 0 .. Common - 1 :
         /\ Load(mem, call.addr1 + k) = mem[call.addr1 + k] /\ mem[call.addr1 + k] \in Int
         /\ Load(mem, call.addr2 + k) = mem[call.addr2 + k] /\ mem[call.addr2 + k] \in Int
  <2> TAKE k \in 0 .. Common - 1
  <2>1. Byte \subseteq Int
    BY DEF Byte
  <2> QED
    BY <2>1, LoadsBytes
<1>3. CASE f = 0
  <2>1. SameUpTo(Common)
    BY <1>3 DEF Verdict
  <2>2. \A j \in 0 .. Common - 1 :
           mem[call.addr1 + j] = mem[call.addr2 + j] /\ mem[call.addr1 + j] \in Int
    BY <1>2, <2>1 DEF SameUpTo
  <2>3. Smallest(call.size1, call.size2) = Common /\ Smallest(call.size2, call.size1) = Common
    BY <1>1 DEF Common, Smallest
  <2>4. /\ Before(call.addr1, call.size1, call.addr2, call.size2) <=> call.size1 < call.size2
        /\ Before(call.addr2, call.size2, call.addr1, call.size1) <=> call.size2 < call.size1
    <3>1. \A j \in 0 .. Common - 1 :
             mem[call.addr2 + j] = mem[call.addr1 + j] /\ mem[call.addr2 + j] \in Int
      BY <1>2, <2>2
    <3> QED
      BY <1>1, <2>2, <2>3, <3>1, LengthsOrder
  <2> QED
    BY <1>1, <1>3, <2>4 DEF Answers, StatusOf
<1>4. CASE f # 0
  <2>1. PICK k \in Nat : DifferAt(k, f)
    BY <1>4 DEF Verdict
  <2>2. /\ k \in 0 .. Common - 1 /\ k < call.size1 /\ k < call.size2
        /\ \A j \in 0 .. k - 1 : j \in 0 .. Common - 1
    BY <1>1, <2>1 DEF DifferAt
  <2>3. /\ f = mem[call.addr1 + k] - mem[call.addr2 + k]
        /\ mem[call.addr1 + k] \in Int /\ mem[call.addr2 + k] \in Int
        /\ \A j \in 0 .. k - 1 : /\ mem[call.addr1 + j] = mem[call.addr2 + j]
                                 /\ mem[call.addr1 + j] \in Int /\ mem[call.addr2 + j] \in Int
    BY <1>2, <2>1, <2>2 DEF DifferAt, SameUpTo
  <2>4. CASE f < 0
    <3>1. SmallerAt(call.addr1, call.addr2, k)
      BY <2>3, <2>4 DEF SmallerAt
    <3>2. /\ Before(call.addr1, call.size1, call.addr2, call.size2)
          /\ ~ Before(call.addr2, call.size2, call.addr1, call.size1)
      BY <1>1, <2>2, <2>3, <3>1, DifferenceOrders
    <3> QED
      BY <1>1, <2>4, <3>2 DEF Answers, StatusOf
  <2>5. CASE f > 0
    <3>1. SmallerAt(call.addr2, call.addr1, k) /\ ~ f < 0
      BY <2>3, <2>5 DEF SmallerAt
    <3>2. /\ Before(call.addr2, call.size2, call.addr1, call.size1)
          /\ ~ Before(call.addr1, call.size1, call.addr2, call.size2)
      BY <1>1, <2>2, <2>3, <3>1, DifferenceOrders
    <3> QED
      BY <1>1, <2>5, <3>1, <3>2 DEF Answers, StatusOf
  <2> QED
    BY <1>4, <2>3, <2>4, <2>5
<1> QED
  BY <1>3, <1>4

-----------------------------------------------------------------------------
(* The invariant of ssm_compare().                                         *)

CompareInv ==
    /\ CompareArguments /\ DOMAIN reg = 0 .. 7 /\ pc \in CompareLabels
    /\ call.size1 <= SizeMax /\ call.size2 <= SizeMax => Accepted
    /\ pc = "compare" => found = 0
    /\ pc \in {"compare_align", "compare_tail"} => AtPair /\ Verdict(Common - remain, found)
    /\ pc \in {"compare_loop", "compare_last"} => CompareLoopInv
    /\ pc = "compare_after" => AtPair /\ Verdict(Common - (remain % WordSize), found)
    /\ pc = "done" => Answers(status)

\* What depends on the arguments and on the memory only does not change.
LEMMA SameAreas ==
    ASSUME call' = call, mem' = mem
    PROVE  /\ Common' = Common /\ Offset' = Offset
           /\ (CompareArguments' <=> CompareArguments) /\ (Accepted' <=> Accepted)
           /\ (Verdict(Common - remain, found)' <=> Verdict(Common - remain', found'))
           /\ (Verdict(Common - (remain % WordSize), found)'
                  <=> Verdict(Common - (remain' % WordSize), found'))
           /\ (Answers(status)' <=> Answers(status'))
<1>1. Common' = Common /\ Offset' = Offset
  BY DEF Common, Offset
<1>2. (CompareArguments' <=> CompareArguments) /\ (Accepted' <=> Accepted)
  BY DEF CompareArguments, Accepted
<1>3. Verdict(Common - remain, found)' <=> Verdict(Common - remain', found')
  BY <1>1 DEF Verdict, SameUpTo, DifferAt
<1>4. Verdict(Common - (remain % WordSize), found)'
        <=> Verdict(Common - (remain' % WordSize), found')
  BY <1>1 DEF Verdict, SameUpTo, DifferAt
<1>5. Answers(status)' <=> Answers(status')
  BY DEF Answers, Before
<1> QED
  BY <1>1, <1>2, <1>3, <1>4, <1>5

\* The comparison goes on byte by byte.
LEMMA ComparesOnByBytes ==
    ASSUME CompareArguments, Accepted, call' = call, mem' = mem, remain' \in 0 .. Common,
           from' = call.addr1 + (Common - remain'), to' = call.addr2 + (Common - remain')
    PROVE  AtPair'
  BY SameAreas DEF AtPair

\* The comparison goes on word by word.
LEMMA ComparesOnByWords ==
    ASSUME AtPair, call' = call, mem' = mem, from' = from, to' = to, remain' = remain,
           found' = 0, srcp' \in Int, dstp' \in Int,
           PairAt((dstp' + slot' * WordSize) - WordSize, srcp' + slot' * WordSize,
                  slot', len', reg'),
           pc' = "compare_loop" => len' # 0, pc' = "compare_last" => len' = 0 /\ slot' = 0
    PROVE  CompareLoopInv'
<1>1. /\ Common' = Common /\ Offset' = Offset /\ Shift' = Shift
      /\ (MergesFirst' <=> MergesFirst)
  BY SameAreas DEF MergesFirst, Aligned, Shift
<1>2. AtPair'
  BY SameAreas DEF AtPair
<1> DEFINE h == (dstp + slot * WordSize) - WordSize
           a == srcp + slot * WordSize
<1>3. /\ AheadFirst(h)' = AheadFirst(h') /\ RestPairs(slot, len)' = RestPairs(slot', len')
  BY <1>1 DEF AheadFirst, Partner, RestPairs
<1>4. SameUpTo(h - call.addr2)' <=> SameUpTo(h' - call.addr2)
  BY <1>1 DEF SameUpTo
<1>5. Pairs(reg, slot, h)' <=> Pairs(reg', slot', h')
  BY <1>1 DEF Pairs, Partner, Word
<1>6. PairAt(h', a', slot', len', reg')
  OBVIOUS
<1>7. PairAt(h, a, slot, len, reg)'
  BY <1>1, <1>3, <1>4, <1>5, <1>6 DEF PairAt
<1> QED
  BY <1>2, <1>7 DEF CompareLoopInv

LEMMA CompareStepInvariant ==
    ASSUME CompareInv, CompareNext, call' = call
    PROVE  CompareInv'
<1>1. mem' = mem
  BY DEF CompareNext, CompareStart, CompareAlignByte, CompareEnterLoop, CompareSkipWords,
         CompareWord, CompareLastWord, CompareAfterWords, CompareTailByte, CompareEnd, CompareByte
<1>2. /\ CompareArguments /\ CompareArguments' /\ DOMAIN reg = 0 .. 7
      /\ (call'.size1 <= SizeMax /\ call'.size2 <= SizeMax => Accepted')
  BY <1>1, SameAreas DEF CompareInv
<1>3. CASE CompareStart
  <2>1. /\ pc = "compare" /\ found = 0 /\ found' = found /\ reg' = reg
    BY <1>3 DEF CompareStart, CompareReturns, loop, CompareInv
  <2>2. /\ call.size1 \in Nat /\ call.size2 \in Nat /\ SizeMax \in Nat
    BY <1>2, SizeAssumption DEF CompareArguments
  <2>3. CASE call.size1 > SizeMax \/ call.size2 > SizeMax
    <3>1. pc' = "done" /\ status' = "SSM_SIZETOOLARGE"
      BY <1>3, <2>3 DEF CompareStart, CompareReturns
    <3>2. Answers(status')
      BY <2>3, <3>1 DEF Answers
    <3> QED
      BY <1>1, <1>2, <2>1, <3>1, <3>2, SameAreas DEF CompareInv, CompareLabels
  <2>4. CASE ~ (call.size1 > SizeMax \/ call.size2 > SizeMax)
    <3>1. Accepted
      BY <2>2, <2>4 DEF CompareInv
    <3>2. Common \in Nat /\ call.addr1 \in Nat /\ call.addr2 \in Nat
      BY <1>2, <3>1, CompareNumbers
    <3>3. SameUpTo(0) /\ Verdict(0, 0)
      BY <3>2 DEF SameUpTo, Verdict
    <3>4. CASE call.size1 = 0 \/ call.size2 = 0
      <4>1. pc' = "done" /\ status' = StatusOf(0)
        BY <1>3, <2>2, <2>4, <3>4 DEF CompareStart, CompareReturns, StatusOf
      <4>2. Common = 0
        BY <2>2, <3>4 DEF Common, Smallest
      <4>3. Answers(status')
        BY <1>2, <3>1, <3>3, <4>1, <4>2, VerdictAnswers
      <4> QED
        BY <1>1, <1>2, <2>1, <4>1, <4>3, SameAreas DEF CompareInv, CompareLabels
    <3>5. CASE ~ (call.size1 = 0 \/ call.size2 = 0)
      <4>1. /\ from' = call.addr1 /\ to' = call.addr2 /\ remain' = Common
            /\ pc' \in {"compare_align", "compare_tail"}
        BY <1>3, <2>4, <3>5 DEF CompareStart
      <4>2. Common - remain' = 0 /\ remain' \in 0 .. Common
        BY <3>2, <4>1
      <4>3. AtPair'
        <5>1. call.addr1 + 0 = call.addr1 /\ call.addr2 + 0 = call.addr2
          BY <3>2
        <5> QED
          BY <1>1, <1>2, <3>1, <4>1, <4>2, <5>1, ComparesOnByBytes
      <4>4. Verdict(Common - remain', found')
        BY <2>1, <3>3, <4>2
      <4> QED
        BY <1>1, <1>2, <2>1, <4>1, <4>3, <4>4, SameAreas DEF CompareInv, CompareLabels
    <3> QED
      BY <3>4, <3>5
  <2> QED
    BY <2>3, <2>4
<1>4. CASE CompareAlignByte \/ CompareTailByte
  <2>1. /\ pc \in {"compare_align", "compare_tail"} /\ pc' = pc /\ found = 0 /\ remain > 0
        /\ CompareByte /\ reg' = reg
    BY <1>4 DEF CompareAlignByte, CompareTailByte, CompareByte, loop
  <2>2. AtPair /\ Accepted /\ Verdict(Common - remain, found)
    BY <2>1 DEF CompareInv, AtPair
  <2>3. /\ Verdict(Common - remain', found') /\ remain' \in 0 .. Common
        /\ from' = call.addr1 + (Common - remain') /\ to' = call.addr2 + (Common - remain')
    BY <2>1, <2>2, ByteVerdict
  <2>4. AtPair'
    BY <1>1, <1>2, <2>2, <2>3, ComparesOnByBytes
  <2> QED
    BY <1>1, <1>2, <2>1, <2>3, <2>4, SameAreas DEF CompareInv, CompareLabels
<1>5. CASE CompareEnterLoop
  <2>1. /\ pc = "compare_align" /\ found = 0 /\ found' = found
        /\ from' = from /\ to' = to /\ remain' = remain
    BY <1>5 DEF CompareEnterLoop, answer
  <2>2. AtPair /\ SameUpTo(Common - remain)
    BY <2>1 DEF CompareInv, Verdict
  <2>3. AtPair'
    BY <1>1, <2>1, <2>2, SameAreas DEF AtPair
  <2>4. CASE pc' = "compare_after" /\ SameUpTo(Common - (remain % WordSize))
    <3>1. Verdict(Common - (remain' % WordSize), found')
      BY <2>1, <2>4 DEF Verdict
    <3>2. reg' = reg
      BY <1>5, <2>4 DEF CompareEnterLoop, loop
    <3> QED
      BY <1>1, <1>2, <2>3, <2>4, <3>1, <3>2, SameAreas DEF CompareInv, CompareLabels
  <2>5. CASE pc' \in {"compare_loop", "compare_last"} /\ CompareLoopInv'
    <3>1. DOMAIN reg' = 0 .. 7
      BY <2>5 DEF CompareLoopInv, PairAt, Pairs
    <3> QED
      BY <1>2, <2>5, <3>1 DEF CompareInv, CompareLabels
  <2> QED
    BY <1>1, <1>2, <1>5, <2>1, <2>2, <2>4, <2>5, CompareEnterStep, ComparesOnByWords
<1>6. CASE CompareWord
  <2>1. /\ pc = "compare_loop" /\ from' = from /\ to' = to /\ remain' = remain
    BY <1>6 DEF CompareWord
  <2>2. CompareLoopInv /\ AtPair
    BY <2>1 DEF CompareInv, CompareLoopInv
  <2>3. AtPair'
    BY <1>1, <2>1, <2>2, SameAreas DEF AtPair
  <2>4. CASE pc' = "compare_after" /\ \A n : Verdict(n, found')
    <3>1. DOMAIN reg' = 0 .. 7
      BY <1>2, <1>6 DEF CompareWord
    <3> QED
      BY <1>1, <1>2, <2>3, <2>4, <3>1, SameAreas DEF CompareInv, CompareLabels
  <2>5. CASE pc' \in {"compare_loop", "compare_last"} /\ CompareLoopInv'
    <3>1. DOMAIN reg' = 0 .. 7
      BY <2>5 DEF CompareLoopInv, PairAt, Pairs
    <3> QED
      BY <1>2, <2>5, <3>1 DEF CompareInv, CompareLabels
  <2> QED
    BY <1>1, <1>6, <2>1, <2>2, <2>4, <2>5, CompareWordStep, ComparesOnByWords
<1>7. CASE CompareLastWord
  <2>1. /\ pc = "compare_last" /\ pc' = "compare_after" /\ reg' = reg
        /\ from' = from /\ to' = to /\ remain' = remain
    BY <1>7 DEF CompareLastWord, loop
  <2>2. CompareLoopInv /\ AtPair
    BY <2>1 DEF CompareInv, CompareLoopInv
  <2>3. AtPair'
    BY <1>1, <2>1, <2>2, SameAreas DEF AtPair
  <2>4. Verdict(Common - (remain' % WordSize), found')
    BY <1>7, <2>1, <2>2, CompareLastStep
  <2> QED
    BY <1>1, <1>2, <2>1, <2>3, <2>4, SameAreas DEF CompareInv, CompareLabels
<1>8. CASE CompareAfterWords
  <2>1. /\ pc = "compare_after" /\ pc' = "compare_tail" /\ reg' = reg /\ found' = found
        /\ from' = from + RoundDown(remain) /\ to' = to + RoundDown(remain)
        /\ remain' = remain % WordSize
    BY <1>8 DEF CompareAfterWords, loop, answer
  <2>2. AtPair /\ Accepted /\ Verdict(Common - (remain % WordSize), found)
    BY <2>1 DEF CompareInv, AtPair
  <2>3. /\ Common \in Nat /\ remain \in 0 .. Common /\ call.addr1 \in Nat /\ call.addr2 \in Nat
        /\ from = call.addr1 + (Common - remain) /\ to = call.addr2 + (Common - remain)
        /\ WordSize \in Nat /\ WordSize > 0
    BY <1>2, <2>2, CompareNumbers DEF AtPair
  <2>4. remain' \in 0 .. Common /\ RoundDown(remain) = remain - remain'
    BY <2>1, <2>3 DEF RoundDown
  <2>5. AtPair'
    BY <1>1, <1>2, <2>1, <2>2, <2>3, <2>4, ComparesOnByBytes
  <2> QED
    BY <1>1, <1>2, <2>1, <2>2, <2>5, SameAreas DEF CompareInv, CompareLabels
<1>9. CASE CompareSkipWords
  <2>1. /\ pc = "compare_align" /\ pc' = "compare_tail" /\ reg' = reg /\ found' = found
        /\ from' = from /\ to' = to /\ remain' = remain
    BY <1>9 DEF CompareSkipWords, loop, answer
  <2>2. AtPair /\ Verdict(Common - remain, found)
    BY <2>1 DEF CompareInv
  <2>3. AtPair'
    BY <1>1, <2>1, <2>2, SameAreas DEF AtPair
  <2> QED
    BY <1>1, <1>2, <2>1, <2>2, <2>3, SameAreas DEF CompareInv, CompareLabels
<1>10. CASE CompareEnd
  <2>1. /\ pc = "compare_tail" /\ pc' = "done" /\ reg' = reg /\ (found # 0 \/ remain = 0)
        /\ status' = StatusOf(found)
    BY <1>10 DEF CompareEnd, CompareReturns, loop, StatusOf
  <2>2. AtPair /\ Accepted /\ Verdict(Common - remain, found) /\ Common \in Nat
    BY <1>2, <2>1, CompareNumbers DEF CompareInv, AtPair
  <2>3. Verdict(Common, found) \/ (found # 0 /\ \E k : Verdict(k, found))
    BY <2>1, <2>2
  <2>4. Answers(status')
    BY <1>2, <2>1, <2>2, <2>3, VerdictAnswers
  <2> QED
    BY <1>1, <1>2, <2>1, <2>4, SameAreas DEF CompareInv, CompareLabels
<1> QED
  BY <1>3, <1>4, <1>5, <1>6, <1>7, <1>8, <1>9, <1>10 DEF CompareNext

-----------------------------------------------------------------------------
(* The invariant of all.                                                   *)

IInv ==
    /\ call.op \in {"set", "length", "copy", "compare"}
    /\ call.op = "set" => SetInv
    /\ call.op = "length" => LengthInv
    /\ call.op = "copy" => CopyInv
    /\ call.op = "compare" => CompareInv

LEMMA InitInvariant == Init => IInv
<1>1. ASSUME CopyInit PROVE IInv
  <2>1. PICK s \in Sources, d \in Dests, n \in CopySizes, cut \in Cuts :
           /\ s + n + cut <= MemSize /\ d + n <= MemSize
           /\ Enters([op |-> "copy", src |-> s, srcSize |-> n + cut, dest |-> d, destSize |-> n],
                     "start", Initial)
    BY <1>1 DEF CopyInit
  <2>2. /\ call.op = "copy" /\ call.src = s /\ call.srcSize = n + cut /\ call.dest = d
        /\ call.destSize = n /\ pc = "start" /\ mem = Initial /\ DOMAIN reg = 0 .. 7
        /\ s \in Nat /\ n \in Nat /\ d \in Nat /\ cut \in Nat
    BY <2>1, WordCopyAssumption DEF Enters
  <2>3. CopyArguments
    BY <2>1, <2>2, WordAccessAssumption DEF CopyArguments, Copied, Smallest, EndCopy
  <2> QED
    BY <2>2, <2>3 DEF IInv, CopyInv, CopyLabels
<1>2. ASSUME CompareInit PROVE IInv
  <2>1. PICK c \in Comparisons :
           Enters([op |-> "compare", addr1 |-> c.addr1, size1 |-> c.size1,
                   addr2 |-> c.addr2, size2 |-> c.size2], "compare", c.mem)
    BY <1>2 DEF CompareInit
  <2>2. /\ call.op = "compare" /\ call.addr1 = c.addr1 /\ call.size1 = c.size1
        /\ call.addr2 = c.addr2 /\ call.size2 = c.size2
        /\ pc = "compare" /\ mem = c.mem /\ found = 0 /\ DOMAIN reg = 0 .. 7
    BY <2>1 DEF Enters
  <2>3. CompareArguments /\ (call.size1 <= SizeMax /\ call.size2 <= SizeMax => Accepted)
    BY <2>2, WordCompareAssumption DEF CompareArguments, Accepted
  <2> QED
    BY <2>2, <2>3 DEF IInv, CompareInv, CompareLabels
<1>3. ASSUME SetInit PROVE IInv
  <2>1. PICK d \in SetStarts, n \in SetSizes :
           /\ n <= SizeMax => d + n <= MemSize
           /\ Enters([op |-> "set", dest |-> d, destSize |-> n, value |-> SetValue],
                     "set", Initial)
    BY <1>3 DEF SetInit
  <2>2. /\ call.op = "set" /\ call.dest = d /\ call.destSize = n /\ EndDest = d + n
        /\ pc = "set" /\ mem = Initial /\ d \in Nat /\ n \in Nat
    BY <2>1, WordSetAssumption DEF Enters, EndDest
  <2>3. ~ n > SizeMax => SetProgress
    <3> SUFFICES ASSUME ~ n > SizeMax PROVE SetProgress
      OBVIOUS
    <3>1. EndDest <= MemSize
      BY <2>1, <2>2, SizeAssumption
    <3>2. SetUpTo(call.dest)
      BY <2>2, <3>1, SetNothing
    <3> QED
      BY <2>2, <3>1, <3>2 DEF SetProgress
  <2> QED
    BY <2>2, <2>3 DEF IInv, SetInv, SetLabels
<1>4. ASSUME LengthInit PROVE IInv
  <2>1. PICK s \in StringStarts, n \in Bounds, m \in Memories :
           /\ \/ s + n <= MemSize
              \/ n > SizeMax
              \/ \E i \in s .. MemSize - 1 : m[i] = NUL
           /\ Enters([op |-> "length", str |-> s, maxSize |-> n], "length", m)
    BY <1>4 DEF LengthInit
  <2>2. /\ call.op = "length" /\ call.str = s /\ call.maxSize = n /\ EndStr = s + n
        /\ pc = "length" /\ mem = m /\ s \in Nat /\ n \in Nat /\ m \in [0 .. MemSize - 1 -> Byte]
    BY <2>1, CStringLengthAssumption DEF Enters, EndStr
  <2>3. ~ n > SizeMax => StringEnds
    BY <2>1, <2>2 DEF StringEnds
  <2> QED
    BY <2>2, <2>3 DEF IInv, LengthInv, LengthLabels, LengthProgress
<1> QED
  BY <1>1, <1>2, <1>3, <1>4 DEF Init

LEMMA StepInvariant == IInv /\ [Next]_vars => IInv'
<1> SUFFICES ASSUME IInv, [Next]_vars PROVE IInv'
  OBVIOUS
<1>1. CASE UNCHANGED vars
  <2>1. (SetInv => SetInv') /\ (LengthInv => LengthInv')
    BY <1>1 DEF vars, SetInv, SetProgress, SetUpTo, SetsUpTo, EndDest, Multiple,
                LengthInv, LengthProgress, StringEnds, NoNull, EndStr
  <2>2. ASSUME CopyInv PROVE CopyInv'
    <3>1. /\ call' = call /\ mem' = mem /\ pc' = pc /\ reg' = reg
          /\ from' = from /\ to' = to /\ remain' = remain
          /\ srcp' = srcp /\ dstp' = dstp /\ slot' = slot /\ len' = len
      BY <1>1 DEF vars
    <3>2. ASSUME AtBytes, MovedUpTo(to) PROVE (AtBytes /\ MovedUpTo(to))'
      BY <3>1, <3>2, GoesOnByBytes DEF AtBytes, MovedUpTo
    <3>3. ASSUME LoopInv PROVE LoopInv'
      BY <3>1, <3>3, GoesOnByWords DEF LoopInv
    <3>4. Moves(call.dest, EndCopy)' = Moves(call.dest, EndCopy) /\ Delta' = Delta
      BY <3>1, SameCall DEF Moves
    <3> QED
      BY <2>2, <3>1, <3>2, <3>3, <3>4, SameCall DEF CopyInv
  <2>3. ASSUME CompareInv PROVE CompareInv'
    <3>1. /\ call' = call /\ mem' = mem /\ pc' = pc /\ reg' = reg /\ found' = found
          /\ from' = from /\ to' = to /\ remain' = remain /\ status' = status
          /\ srcp' = srcp /\ dstp' = dstp /\ slot' = slot /\ len' = len
      BY <1>1 DEF vars
    <3>2. ASSUME AtPair PROVE AtPair'
      BY <3>1, <3>2, SameAreas DEF AtPair
    <3>3. ASSUME CompareLoopInv PROVE CompareLoopInv'
      BY <3>1, <3>3, ComparesOnByWords DEF CompareLoopInv
    <3> QED
      BY <2>3, <3>1, <3>2, <3>3, SameAreas DEF CompareInv
  <2> QED
    BY <1>1, <2>1, <2>2, <2>3 DEF vars, IInv
<1>2. CASE Next
  <2>1. /\ call' = call
        /\ pc \in SetLabels => SetNext
        /\ pc \in LengthLabels => LengthNext
        /\ pc \in CopyLabels => CopyNext
        /\ pc \in CompareLabels => CompareNext
    BY <1>2, StepOfCall
  <2>2. CASE call.op = "set"
    <3>1. SetInv /\ SetNext
      BY <2>1, <2>2 DEF IInv, SetInv
    <3>2. SetInv'
      BY <2>1, <3>1, SetStepInvariant
    <3> QED
      BY <2>1, <2>2, <3>2 DEF IInv
  <2>3. CASE call.op = "length"
    <3>1. LengthInv /\ LengthNext
      BY <2>1, <2>3 DEF IInv, LengthInv
    <3>2. LengthInv'
      BY <2>1, <3>1, LengthStepInvariant
    <3> QED
      BY <2>1, <2>3, <3>2 DEF IInv
  <2>4. CASE call.op = "copy"
    <3>1. CopyInv /\ CopyNext
      BY <2>1, <2>4 DEF IInv, CopyInv
    <3>2. CopyInv'
      BY <2>1, <3>1, CopyStepInvariant
    <3> QED
      BY <2>1, <2>4, <3>2 DEF IInv
  <2>5. CASE call.op = "compare"
    <3>1. CompareInv /\ CompareNext
      BY <2>1, <2>5 DEF IInv, CompareInv
    <3>2. CompareInv'
      BY <2>1, <3>1, CompareStepInvariant
    <3> QED
      BY <2>1, <2>5, <3>2 DEF IInv
  <2> QED
    BY <2>2, <2>3, <2>4, <2>5 DEF IInv
<1> QED
  BY <1>1, <1>2

LEMMA Invariant == Spec => []IInv
  BY InitInvariant, StepInvariant, PTL DEF Spec

-----------------------------------------------------------------------------
(* What the calls may load and store.                                      *)

\* Outside its destination a call leaves the memory as it was at first
Untouched ==
    /\ DOMAIN mem = 0 .. MemSize - 1
    /\ \A i \in 0 .. MemSize - 1 : i \notin Destination => mem[i] = i

LEMMA CopyLeavesTheRest ==
    ASSUME CopyInv, call.op = "copy" PROVE Untouched
<1>1. /\ CopyArguments /\ call.dest \in Nat /\ EndCopy \in Nat /\ call.dest <= EndCopy
      /\ Destination = call.dest .. EndCopy - 1
  BY CopyNumbers DEF CopyInv, Destination, EndCopy
<1>2. ASSUME NEW p \in call.dest .. EndCopy, NEW q \in call.dest .. EndCopy, mem = Moves(p, q)
      PROVE  Untouched
  <2>1. \A i \in Int : i \in p .. q - 1 => i \in call.dest .. EndCopy - 1
    BY <1>1
  <2> QED
    BY <1>1, <1>2, <2>1 DEF Untouched, Moves
<1>3. ASSUME NEW p, MovesUpTo(p, mem) PROVE Untouched
  <2>1. p \in call.dest .. EndCopy
    BY <1>3 DEF MovesUpTo
  <2>2. call.dest \in call.dest .. EndCopy /\ EndCopy \in call.dest .. EndCopy
    BY <1>1
  <2>3. mem = Moves(p, EndCopy) \/ mem = Moves(call.dest, p)
    BY <1>3 DEF MovesUpTo
  <2> QED
    BY <1>2, <2>1, <2>2, <2>3
<1>4. CASE mem = Initial
  BY <1>4 DEF Untouched, Initial
<1>5. CASE pc \in {"align", "tail"}
  BY <1>3, <1>5 DEF CopyInv, MovedUpTo
<1>6. CASE pc \in {"loop", "last"}
  BY <1>3, <1>6 DEF CopyInv, LoopInv, LoopAt
<1>7. CASE pc = "done"
  <2>1. call.dest \in call.dest .. EndCopy /\ EndCopy \in call.dest .. EndCopy
    BY <1>1
  <2> QED
    BY <1>2, <1>7, <2>1 DEF CopyInv
<1> QED
  BY <1>4, <1>5, <1>6, <1>7 DEF CopyInv, CopyLabels

LEMMA SetLeavesTheRest ==
    ASSUME SetInv, call.op = "set" PROVE Untouched
<1>1. CASE mem = Initial
  BY <1>1 DEF Untouched, Initial
<1>2. ASSUME NEW p, SetUpTo(p), EndDest <= MemSize PROVE Untouched
  <2> DEFINE d == call.dest
  <2>1. /\ d \in Nat /\ EndDest \in Nat /\ MemSize \in Nat /\ p \in d .. EndDest
        /\ mem = Fill(Initial, d, p - d, call.value)
    BY <1>2, WordAccessAssumption DEF SetInv, SetUpTo, SetsUpTo, EndDest
  <2>2. DOMAIN Initial \cup (d .. d + (p - d) - 1) = 0 .. MemSize - 1
    BY <1>2, <2>1 DEF Initial
  <2>3. mem = [i \in 0 .. MemSize - 1 |->
                  IF i \in d .. d + (p - d) - 1 THEN call.value ELSE Initial[i]]
    BY <2>1, <2>2 DEF Fill
  <2>4. \A i \in Int : i \in d .. d + (p - d) - 1 => i \in d .. EndDest - 1
    BY <1>2, <2>1
  <2>5. Destination = d .. EndDest - 1
    BY DEF Destination
  <2>6. \A i \in 0 .. MemSize - 1 : Initial[i] = i
    BY DEF Initial
  <2> HIDE DEF d
  <2> QED
    BY <2>3, <2>4, <2>5, <2>6 DEF Untouched
<1>3. CASE ~ call.destSize > SizeMax
  <2>1. SetProgress /\ EndDest <= MemSize /\ pc \in SetLabels
    BY <1>3 DEF SetInv, SetProgress
  <2> QED
    BY <1>2, <2>1 DEF SetProgress, SetLabels
<1> QED
  BY <1>1, <1>3 DEF SetInv

\* Only two of the functions store.
LEMMA OthersDoNotStore ==
    ASSUME LengthNext \/ CompareNext PROVE mem' = mem
<1>1. CASE LengthNext
  BY <1>1 DEF LengthNext, LengthStart, LengthByte, LengthEnterWords, LengthWord,
              LengthLeaveWords, LengthEnd
<1>2. CASE CompareNext
  BY <1>2 DEF CompareNext, CompareStart, CompareAlignByte, CompareEnterLoop, CompareSkipWords,
              CompareWord, CompareLastWord, CompareAfterWords, CompareTailByte, CompareEnd,
              CompareByte
<1> QED
  BY <1>1, <1>2

\* The word at a has a byte to read
Touches(a) == \E k \in 0 .. WordSize - 1 : a + k \in Source

\* What is to be read stays the same.
LEMMA SameSource ==
    ASSUME IInv, call' = call, call.op = "length" => mem' = mem
    PROVE  Source' = Source
<1>1. CASE call.op = "copy"
  BY <1>1 DEF Source, Copied
<1>2. CASE call.op = "set"
  BY <1>2 DEF Source
<1>3. CASE call.op = "length"
  BY <1>3 DEF Source, EndStr
<1>4. CASE call.op = "compare"
  BY <1>4 DEF Source, Common
<1> QED
  BY <1>1, <1>2, <1>3, <1>4 DEF IInv

\* The words that a word of bytes to read straddles have a byte to read each.
LEMMA StraddledTouch ==
    ASSUME WordSize \in Nat, NEW x \in Int, NEW s \in 0 .. WordSize - 1,
           \A y \in x .. x + WordSize - 1 : y \in Source
    PROVE  /\ Touches(x - s)
           /\ s # 0 => Touches((x - s) + WordSize)
<1>1. (x - s) + s \in Source
  <2>1. (x - s) + s \in x .. x + WordSize - 1
    OBVIOUS
  <2> QED
    BY <2>1
<1>2. ASSUME s # 0
      PROVE  ((x - s) + WordSize) + (s - 1) \in Source /\ s - 1 \in 0 .. WordSize - 1
  <2>1. ((x - s) + WordSize) + (s - 1) \in x .. x + WordSize - 1 /\ s - 1 \in 0 .. WordSize - 1
    BY <1>2
  <2> QED
    BY <2>1
<1> QED
  BY <1>1, <1>2 DEF Touches

\* So have those a word to copy comes from.
LEMMA CopyTouches ==
    ASSUME AtBytes, call.op = "copy", NEW here \in call.dest .. EndCopy,
           here + WordSize <= EndCopy
    PROVE  Touches(Origin(here)) /\ (Merging => Touches(Origin(here) + WordSize))
<1> DEFINE x == here + Delta
<1>1. /\ WordSize \in Nat /\ WordSize > 0 /\ call.dest \in Nat /\ EndCopy \in Nat /\ Delta \in Int
      /\ call.src = call.dest + Delta /\ EndCopy = call.dest + Copied /\ Copied \in Nat
      /\ from \in Nat
  BY CopyNumbers DEF AtBytes
<1>2. Shift \in 0 .. WordSize - 1 /\ x \in Int /\ Origin(here) = x - Shift
  BY <1>1 DEF Shift, Origin
<1>3. Source = call.src .. call.src + Copied - 1
  BY DEF Source
<1>4. \A y \in x .. x + WordSize - 1 : y \in Source
  BY <1>1, <1>3
<1>5. Merging => Shift # 0
  BY DEF Merging, Aligned, Shift
<1> HIDE DEF x
<1> QED
  BY <1>1, <1>2, <1>4, <1>5, StraddledTouch

LEMMA CopyLoadsTouch ==
    ASSUME CopyInv, call.op = "copy", EnterLoop \/ CopyWord
    PROVE  \A a \in loaded' : Touches(a)
<1>1. CASE EnterLoop
  <2> DEFINE h == IF Backward THEN to - WordSize ELSE to
  <2>1. pc = "align" /\ AtBytes /\ MovedUpTo(to) /\ DOMAIN reg = 0 .. 7
    BY <1>1 DEF EnterLoop, CopyInv
  <2>2. /\ WordSize \in Nat /\ WordSize > 0 /\ remain = Left(to) /\ remain \in Nat
        /\ call.dest \in Nat /\ EndCopy \in Nat /\ to \in call.dest .. EndCopy
        /\ from = to + Delta /\ Delta \in Int /\ from \in Nat
    BY <2>1, CopyNumbers DEF AtBytes
  <2>3. WordSize <= remain
    <3>1. remain \div WordSize > 0
      BY <1>1 DEF EnterLoop
    <3> QED
      BY <2>2, <3>1
  <2>4. h \in call.dest .. EndCopy /\ h + WordSize <= EndCopy
    BY <2>2, <2>3 DEF Left
  <2>5. loaded' \subseteq IF Merging THEN {Origin(h), Origin(h) + WordSize} ELSE {Origin(h)}
    <3> DEFINE words == remain \div WordSize
               c == IF words % Unroll < 2 THEN (words % Unroll) + Unroll ELSE words % Unroll
               base == RoundDown(from)
    <3>1. loaded' = LET read == IF Backward THEN srcp' + (c - 1) * WordSize ELSE base
                    IN  IF Merging THEN {read, read + WordSize} ELSE {read}
      BY <1>1 DEF EnterLoop
    <3>2. srcp' = IF Backward
                  THEN IF Merging THEN base + WordSize - (c + 1) * WordSize
                       ELSE base - c * WordSize
                  ELSE IF Merging THEN base - (3 - c) * WordSize
                       ELSE base - (8 - c) * WordSize
      BY <1>1 DEF EnterLoop
    <3>3. Shift \in 0 .. WordSize - 1 /\ base = from - Shift /\ base \in Int
      BY <2>2 DEF RoundDown, Shift
    <3>4. c \in Int
      <4>1. Unroll \in {4, 8} /\ words \in Int
        BY <2>2 DEF Unroll
      <4> HIDE DEF words
      <4> QED
        BY <4>1
    <3> HIDE DEF words, c, base
    <3>5. (IF Backward THEN srcp' + (c - 1) * WordSize ELSE base) = Origin(h)
      <4>1. Origin(h) = IF Backward THEN base - WordSize ELSE base
        BY <2>2, <3>3 DEF Origin
      <4>2. CASE Backward
        <5>1. srcp' + (c - 1) * WordSize = base - WordSize
          BY <2>2, <3>2, <3>3, <3>4, <4>2, Products
        <5> QED
          BY <4>1, <4>2, <5>1
      <4>3. CASE ~ Backward
        BY <4>1, <4>3
      <4> QED
        BY <4>2, <4>3
    <3> HIDE DEF h
    <3> QED
      BY <3>1, <3>5
  <2> HIDE DEF h
  <2>6. Touches(Origin(h)) /\ (Merging => Touches(Origin(h) + WordSize))
    BY <2>1, <2>4, CopyTouches
  <2> QED
    BY <2>5, <2>6
<1>2. CASE CopyWord
  <2> DEFINE h == dstp + slot * WordSize
             a == srcp + slot * WordSize
  <2>1. pc = "loop" /\ loaded' = {a}
    BY <1>2 DEF CopyWord
  <2>2. AtBytes /\ LoopAt(h, a, slot, len, reg, mem) /\ len # 0
    BY <2>1 DEF CopyInv, LoopInv
  <2> HIDE DEF h, a
  <2>3. /\ h \in Int /\ slot \in 0 .. Unroll - 1 /\ len \in Nat /\ len % Unroll = 0
        /\ a = Ahead(Origin(h)) /\ Pointer(h) \in call.dest .. EndCopy
        /\ Left(Pointer(h)) = Rest(slot, len) * WordSize + (remain % WordSize)
    BY <2>2 DEF LoopAt, MovesUpTo
  <2>4. /\ WordSize \in Nat /\ WordSize > 0 /\ remain \in Nat /\ from \in Nat /\ Delta \in Int
        /\ call.dest \in Nat /\ EndCopy \in Nat
    BY <2>2, CopyNumbers DEF AtBytes
  <2>5. Rest(slot, len) \in Nat /\ Rest(slot, len) >= 2
    <3>1. Unroll \in {4, 8}
      BY DEF Unroll
    <3>2. CASE Unroll = 4
      BY <2>2, <2>3, <3>2 DEF Rest
    <3>3. CASE Unroll = 8
      BY <2>2, <2>3, <3>3 DEF Rest
    <3> QED
      BY <3>1, <3>2, <3>3
  <2>6. Left(Pointer(h)) >= WordSize + WordSize
    <3> DEFINE n == Rest(slot, len) - 1
    <3>1. n \in Nat /\ n >= 1 /\ Rest(slot, len) >= 1
      BY <2>5
    <3>2. n * WordSize = Rest(slot, len) * WordSize - WordSize
          /\ Rest(slot, len) * WordSize \in Nat
      BY <2>4, <2>5, <3>1, WordsAre
    <3> HIDE DEF n
    <3>3. n * WordSize >= WordSize /\ n * WordSize \in Nat
      BY <2>4, <3>1, WordsAre
    <3>4. remain % WordSize \in Nat
      BY <2>4
    <3> DEFINE y == n * WordSize
               z == Rest(slot, len) * WordSize
    <3> HIDE DEF y, z
    <3>5. y = z - WordSize /\ z \in Nat /\ y >= WordSize /\ y \in Nat
      BY <3>2, <3>3 DEF y, z
    <3>6. Left(Pointer(h)) = z + (remain % WordSize)
      BY <2>3 DEF z
    <3> QED
      BY <2>4, <3>4, <3>5, <3>6
  <2> DEFINE g == Further(h, WordSize)
  <2>7. g \in call.dest .. EndCopy /\ g + WordSize <= EndCopy
    BY <2>3, <2>4, <2>6 DEF Further, Pointer, Left
  <2>8. Shift \in Int
    BY <2>4 DEF Shift
  <2>9. a = IF ~ Backward /\ Merging THEN Origin(g) + WordSize ELSE Origin(g)
    BY <2>3, <2>4, <2>8 DEF Ahead, Origin, Further
  <2> HIDE DEF g
  <2>10. Touches(Origin(g)) /\ (Merging => Touches(Origin(g) + WordSize))
    BY <2>2, <2>7, CopyTouches
  <2> QED
    BY <2>1, <2>9, <2>10
<1> QED
  BY <1>1, <1>2

LEMMA LengthLoadTouches ==
    ASSUME LengthInv, call.op = "length", LengthWord
    PROVE  \A a \in loaded' : Touches(a)
<1> DEFINE d == call.str
<1>1. /\ pc = "length_words" /\ srcp < EndStr /\ loaded' = {srcp}
  BY DEF LengthWord
<1>2. /\ d \in Nat /\ EndStr \in Nat /\ MemSize \in Nat /\ WordSize \in Nat /\ WordSize > 0
      /\ mem \in [0 .. MemSize - 1 -> Byte]
  BY WordAccessAssumption DEF LengthInv, EndStr
<1>3. StringEnds /\ NoNull(srcp)
  BY <1>1 DEF LengthInv, LengthProgress
<1>4. srcp \in Nat /\ d <= srcp /\ \A i \in d .. srcp - 1 : Load(mem, i) # NUL
  BY <1>3 DEF NoNull
<1>5. srcp < MemSize
  <2>1. CASE EndStr <= MemSize
    BY <1>1, <1>2, <1>4, <2>1
  <2>2. ASSUME NEW z \in d .. MemSize - 1, mem[z] = NUL PROVE srcp < MemSize
    <3>1. Load(mem, z) = NUL
      BY <1>2, <2>2 DEF Load
    <3>2. z \notin d .. srcp - 1
      BY <1>4, <3>1
    <3> QED
      BY <1>2, <1>4, <2>2, <3>2
  <2> QED
    BY <1>3, <2>1, <2>2 DEF StringEnds
<1>6. \A j \in d .. srcp - 1 : mem[j] # NUL
  BY <1>2, <1>4, <1>5 DEF Load
<1>7. srcp \in d .. Smallest(EndStr, MemSize) - 1
  BY <1>1, <1>2, <1>4, <1>5 DEF Smallest
<1>8. Source = {i \in d .. Smallest(EndStr, MemSize) - 1 :
                  \A j \in d .. i - 1 : mem[j] # NUL}
  BY DEF Source
<1>9. srcp + 0 \in Source /\ 0 \in 0 .. WordSize - 1
  BY <1>2, <1>4, <1>6, <1>7, <1>8
<1> QED
  BY <1>1, <1>9 DEF Touches

LEMMA CompareTouches ==
    ASSUME AtPair, call.op = "compare", NEW here \in Nat, call.addr2 <= here,
           here + WordSize <= call.addr2 + Common
    PROVE  /\ Touches(here) /\ Touches(Partner(here))
           /\ MergesFirst => Touches(Partner(here) + WordSize)
<1> DEFINE x == here + Offset
<1>1. /\ WordSize \in Nat /\ WordSize > 0 /\ call.addr1 \in Nat /\ call.addr2 \in Nat
      /\ Common \in Nat /\ from \in Nat
  BY CompareNumbers DEF AtPair
<1>2. Shift \in 0 .. WordSize - 1 /\ x \in Int /\ Partner(here) = x - Shift
  BY <1>1 DEF Shift, Partner, Offset
<1>3. Source = (call.addr1 .. call.addr1 + Common - 1) \cup (call.addr2 .. call.addr2 + Common - 1)
  BY DEF Source
<1>4. \A y \in x .. x + WordSize - 1 : y \in Source
  BY <1>1, <1>3 DEF Offset
<1>5. MergesFirst => Shift # 0
  BY DEF MergesFirst, Aligned, Shift
<1>6. Touches(here)
  <2>1. here + 0 \in Source /\ 0 \in 0 .. WordSize - 1
    BY <1>1, <1>3
  <2> QED
    BY <2>1 DEF Touches
<1> HIDE DEF x
<1> QED
  BY <1>1, <1>2, <1>4, <1>5, <1>6, StraddledTouch

LEMMA CompareLoadsTouch ==
    ASSUME CompareInv, call.op = "compare", CompareEnterLoop \/ CompareWord
    PROVE  \A a \in loaded' : Touches(a) \/ loaded' = loaded
<1>1. CASE CompareEnterLoop
  <2>1. /\ pc = "compare_align" /\ AtPair
    BY <1>1 DEF CompareEnterLoop, CompareInv
  <2>2. /\ WordSize \in Nat /\ WordSize > 0 /\ remain \in 0 .. Common /\ Common \in Nat
        /\ call.addr1 \in Nat /\ call.addr2 \in Nat
        /\ to = call.addr2 + (Common - remain) /\ from = call.addr1 + (Common - remain)
    BY <2>1, CompareNumbers DEF AtPair
  <2>3. CASE remain \div WordSize = 0
    BY <1>1, <2>3 DEF CompareEnterLoop, loop
  <2>4. CASE remain \div WordSize # 0
    <3>1. WordSize <= remain
      BY <2>2, <2>4
    <3>2. to \in Nat /\ call.addr2 <= to /\ to + WordSize <= call.addr2 + Common
      BY <2>2, <3>1
    <3>3. Partner(to) = RoundDown(from)
      BY <2>2 DEF Partner, Offset, RoundDown, Shift
    <3>4. loaded' = {RoundDown(from), to}
                       \cup (IF MergesFirst THEN {RoundDown(from) + WordSize} ELSE {})
      BY <1>1, <2>4 DEF CompareEnterLoop
    <3> QED
      BY <2>1, <3>2, <3>3, <3>4, CompareTouches
  <2> QED
    BY <2>3, <2>4
<1>2. CASE CompareWord
  <2> DEFINE b == dstp + slot * WordSize
             a == srcp + slot * WordSize
             h == b - WordSize
  <2>1. pc = "compare_loop" /\ loaded' = {a, b}
    BY <1>2 DEF CompareWord
  <2>2. AtPair /\ PairAt(h, a, slot, len, reg) /\ len # 0 /\ dstp \in Int
    BY <2>1 DEF CompareInv, CompareLoopInv
  <2>3. /\ WordSize \in Nat /\ WordSize > 0 /\ remain \in 0 .. Common /\ Common \in Nat
        /\ call.addr1 \in Nat /\ call.addr2 \in Nat /\ from \in Nat
        /\ to = call.addr2 + (Common - remain)
    BY <2>2, CompareNumbers DEF AtPair
  <2>4. /\ h \in Int /\ to <= h /\ slot \in 0 .. 3 /\ len \in Nat /\ len % 4 = 0
        /\ h + RestPairs(slot, len) * WordSize = to + (remain - (remain % WordSize))
        /\ a = AheadFirst(h)
    BY <2>2 DEF PairAt
  <2>5. b = h + WordSize
    <3> DEFINE z == slot * WordSize
    <3>1. z \in Int
      BY <2>3, <2>4
    <3> HIDE DEF z
    <3>2. (dstp + z) = ((dstp + z) - WordSize) + WordSize
      BY <2>2, <2>3, <3>1
    <3> QED
      BY <3>2 DEF z
  <2> HIDE DEF a, b, h
  <2>6. RestPairs(slot, len) - 1 \in Nat /\ RestPairs(slot, len) - 1 >= 1
    BY <2>2, <2>4 DEF RestPairs
  <2>7. b \in Nat /\ call.addr2 <= b /\ b + WordSize <= call.addr2 + Common
    <3> DEFINE n == RestPairs(slot, len)
    <3>1. n \in Nat /\ n >= 1
      BY <2>2, <2>4 DEF RestPairs
    <3>2. (n - 1) * WordSize = n * WordSize - WordSize /\ n * WordSize \in Nat
      BY <2>3, <3>1, WordsAre
    <3>3. (n - 1) * WordSize >= WordSize /\ (n - 1) * WordSize \in Nat
      BY <2>3, <2>6, WordsAre
    <3> DEFINE y == (n - 1) * WordSize
               z == n * WordSize
    <3> HIDE DEF y, z, n
    <3>4. y = z - WordSize /\ z \in Nat /\ y >= WordSize /\ y \in Nat
      BY <3>2, <3>3 DEF y, z
    <3>5. h + z = to + (remain - (remain % WordSize))
      BY <2>4 DEF z, n
    <3>6. remain % WordSize \in Nat
      BY <2>3
    <3> QED
      BY <2>3, <2>4, <2>5, <3>4, <3>5, <3>6
  <2>8. Shift \in Int
    BY <2>3 DEF Shift
  <2>9. a = IF MergesFirst THEN Partner(b) + WordSize ELSE Partner(b)
    BY <2>3, <2>4, <2>5, <2>8 DEF AheadFirst, Partner, Offset
  <2>10. /\ Touches(b) /\ Touches(Partner(b))
         /\ MergesFirst => Touches(Partner(b) + WordSize)
    BY <2>2, <2>7, CompareTouches
  <2> QED
    BY <2>1, <2>9, <2>10
<1> QED
  BY <1>1, <1>2

\* The other steps load no word.
LEMMA LoadsStep ==
    ASSUME IInv, LoadsTouchSource, Next
    PROVE  LoadsTouchSource'
<1>1. /\ call' = call
      /\ pc \in SetLabels => SetNext
      /\ pc \in LengthLabels => LengthNext
      /\ pc \in CopyLabels => CopyNext
      /\ pc \in CompareLabels => CompareNext
  BY StepOfCall
<1>2. call.op = "length" => mem' = mem
  BY <1>1, OthersDoNotStore DEF IInv, LengthInv
<1>3. Source' = Source
  BY <1>1, <1>2, SameSource
<1>4. \A a \in loaded : Touches(a)
  BY DEF LoadsTouchSource, Touches
<1>5. SUFFICES \A a \in loaded' : Touches(a)
  BY <1>3 DEF LoadsTouchSource, Touches
<1>6. CASE call.op = "copy"
  <2>1. CopyInv /\ CopyNext
    BY <1>1, <1>6 DEF IInv, CopyInv
  <2>2. CASE EnterLoop \/ CopyWord
    BY <1>6, <2>1, <2>2, CopyLoadsTouch
  <2>3. CASE ~ (EnterLoop \/ CopyWord)
    <3>1. loaded' = loaded
      BY <2>1, <2>3 DEF CopyNext, Start, AlignByte, SkipLoop, LastWord, LeaveWords, TailByte, Return,
                        MoveByte, loop
    <3> QED
      BY <1>4, <3>1
  <2> QED
    BY <2>2, <2>3
<1>7. CASE call.op = "set"
  <2>1. SetNext
    BY <1>1, <1>7 DEF IInv, SetInv
  <2>2. loaded' = loaded
    BY <2>1 DEF SetNext, SetStart, SetAlignByte, SetEnterWords, SetWord, SetLeaveWords,
                SetTailByte, SetReturn, SetByte, loop
  <2> QED
    BY <1>4, <2>2
<1>8. CASE call.op = "length"
  <2>1. LengthInv /\ LengthNext
    BY <1>1, <1>8 DEF IInv, LengthInv
  <2>2. CASE LengthWord
    BY <1>8, <2>1, <2>2, LengthLoadTouches
  <2>3. CASE ~ LengthWord
    <3>1. loaded' = loaded
      BY <2>1, <2>3 DEF LengthNext, LengthStart, LengthByte, LengthEnterWords,
                        LengthLeaveWords, LengthEnd, loop
    <3> QED
      BY <1>4, <3>1
  <2> QED
    BY <2>2, <2>3
<1>9. CASE call.op = "compare"
  <2>1. CompareInv /\ CompareNext
    BY <1>1, <1>9 DEF IInv, CompareInv
  <2>2. CASE CompareEnterLoop \/ CompareWord
    BY <1>4, <1>9, <2>1, <2>2, CompareLoadsTouch
  <2>3. CASE ~ (CompareEnterLoop \/ CompareWord)
    <3>1. loaded' = loaded
      BY <2>1, <2>3 DEF CompareNext, CompareStart, CompareAlignByte, CompareSkipWords,
                        CompareLastWord, CompareAfterWords, CompareTailByte, CompareEnd,
                        CompareByte, loop
    <3> QED
      BY <1>4, <3>1
  <2> QED
    BY <2>2, <2>3
<1> QED
  BY <1>6, <1>7, <1>8, <1>9 DEF IInv

-----------------------------------------------------------------------------
(* The theorems.                                                           *)

\* ssm_set() sets every byte of its area and no other, although its word loop
\* counts neither bytes nor words: the end it compares with is computed by
\* rounding down the end of the area, and may be compared only with multiples of
\* a word.
THEOREM SetsAsMemsetDoes == Spec => []SetsLikeMemset
<1>1. IInv => SetsLikeMemset
  <2> SUFFICES ASSUME IInv, call.op = "set", pc = "done"
               PROVE  mem = IF call.destSize > SizeMax THEN Initial
                            ELSE Fill(Initial, call.dest, call.destSize, call.value)
    BY DEF SetsLikeMemset
  <2>1. SetInv
    BY DEF IInv
  <2>2. CASE ~ call.destSize > SizeMax
    <3>1. mem = Fill(Initial, call.dest, EndDest - call.dest, call.value)
      BY <2>1, <2>2 DEF SetInv, SetProgress, SetUpTo, SetsUpTo
    <3>2. EndDest - call.dest = call.destSize
      BY <2>1 DEF SetInv, EndDest
    <3> QED
      BY <2>2, <3>1, <3>2
  <2> QED
    BY <2>1, <2>2 DEF SetInv
<1> QED
  BY <1>1, Invariant, PTL

\* ssm_cstring_length() answers the position of the first null byte, or the bound
\* when there is none before, whatever is in the words it reads before and after
\* the string.
THEOREM FindsTheFirstNull == Spec => []FindsFirstNull
<1>1. IInv => FindsFirstNull
  <2> SUFFICES ASSUME IInv, call.op = "length", pc = "done"
               PROVE  IF call.maxSize > SizeMax THEN found = 0
                      ELSE /\ found \in 0 .. call.maxSize
                           /\ \A i \in 0 .. found - 1 : mem[call.str + i] # NUL
                           /\ found < call.maxSize => mem[call.str + found] = NUL
    BY DEF FindsFirstNull
  <2> DEFINE d == call.str
  <2>1. LengthInv /\ d \in Nat /\ call.maxSize \in Nat /\ mem \in [0 .. MemSize - 1 -> Byte]
    BY DEF IInv, LengthInv
  <2>2. CASE call.maxSize > SizeMax
    BY <2>1, <2>2 DEF LengthInv
  <2>3. CASE ~ call.maxSize > SizeMax
    <3>1. /\ StringEnds /\ NoNull(d + found) /\ found \in 0 .. call.maxSize
          /\ found = call.maxSize \/ Load(mem, d + found) = NUL
      BY <2>1, <2>3 DEF LengthInv, LengthProgress
    <3>2. MemSize \in Nat /\ NUL # Stray
      BY WordAccessAssumption DEF NUL, Stray
    <3>3. ASSUME NEW i \in 0 .. found - 1 PROVE mem[d + i] # NUL
      <4>1. d + i \in d .. (d + found) - 1
        BY <2>1, <3>1
      <4>2. Load(mem, d + i) # NUL
        BY <3>1, <4>1 DEF NoNull
      <4>3. d + i \in 0 .. MemSize - 1
        <5>1. CASE EndStr <= MemSize
          BY <2>1, <3>1, <3>2, <5>1 DEF EndStr
        <5>2. ASSUME NEW z \in d .. MemSize - 1, mem[z] = NUL PROVE d + i \in 0 .. MemSize - 1
          <6>1. Load(mem, z) = NUL
            BY <2>1, <3>2, <5>2 DEF Load
          <6>2. z \notin d .. (d + found) - 1
            BY <3>1, <6>1 DEF NoNull
          <6> QED
            BY <2>1, <3>1, <3>2, <5>2, <6>2
        <5> QED
          BY <3>1, <5>1, <5>2 DEF StringEnds
      <4> QED
        BY <2>1, <4>2, <4>3 DEF Load
    <3>4. ASSUME found < call.maxSize PROVE mem[d + found] = NUL
      BY <2>1, <3>1, <3>2, <3>4 DEF Load
    <3> QED
      BY <2>3, <3>1, <3>3, <3>4
  <2> QED
    BY <2>2, <2>3
<1> QED
  BY <1>1, Invariant, PTL

\* ssm_copy() moves its bytes as if it read them all before it wrote any, and
\* writes no other: whatever the two areas share, in whichever of its four loops,
\* although words in its registers have been overwritten in memory and the first
\* and the last one have bytes that are not of the source.
THEOREM MovesAsMemmoveDoes == Spec => []MovesLikeMemmove
<1>1. IInv => MovesLikeMemmove
  <2> SUFFICES ASSUME IInv, call.op = "copy", pc = "done"
               PROVE  mem = Move(Initial, call.dest, Initial, call.src, Copied)
    BY DEF MovesLikeMemmove
  <2>1. CopyInv /\ mem = Moves(call.dest, EndCopy)
    BY DEF IInv, CopyInv
  <2>2. /\ call.src \in Nat /\ call.dest \in Nat /\ Copied \in Nat /\ Delta \in Int
        /\ call.src = call.dest + Delta /\ EndCopy = call.dest + Copied
        /\ MemSize \in Nat /\ call.src + Copied <= MemSize /\ EndCopy <= MemSize
    BY <2>1, CopyNumbers DEF CopyInv
  <2> DEFINE d == call.dest
             s == call.src
             n == Copied
  <2>3. DOMAIN Initial \cup (d .. d + n - 1) = 0 .. MemSize - 1
    BY <2>2 DEF Initial
  <2>4. ASSUME NEW i \in d .. d + n - 1 PROVE Load(Initial, s + (i - d)) = i + Delta
    <3>1. s + (i - d) \in 0 .. MemSize - 1 /\ s + (i - d) = i + Delta
      BY <2>2
    <3> QED
      BY <3>1 DEF Load, Initial
  <2>5. \A i \in 0 .. MemSize - 1 : Initial[i] = i
    BY DEF Initial
  <2>6. Move(Initial, d, Initial, s, n) =
          [i \in 0 .. MemSize - 1 |-> IF i \in d .. d + n - 1 THEN i + Delta ELSE i]
    BY <2>3, <2>4, <2>5 DEF Move
  <2> QED
    BY <2>1, <2>2, <2>6 DEF Moves
<1> QED
  BY <1>1, Invariant, PTL

\* ssm_compare() answers the order of the first bytes that differ, or that of the
\* lengths, although it compares words that were loaded one or two labels before,
\* merges two of them when the first area is not aligned and jumps into the
\* middle of its loops.
THEOREM ComparesAsMemcmpDoes == Spec => []ComparesBytes
<1>1. IInv => ComparesBytes
  BY DEF IInv, CompareInv, Answers, ComparesBytes
<1> QED
  BY <1>1, Invariant, PTL

\* No store of any of the four functions falls outside its destination, in the
\* middle of a call either: the words that are stored never straddle its ends.
THEOREM StoresStayInside == Spec => StoresInDestination
<1> DEFINE A == \A i \in DOMAIN mem' : i \notin Destination => mem'[i] = Load(mem, i)
<1>1. ASSUME IInv, IInv', [Next]_vars PROVE [A]_vars
  <2>1. SUFFICES ASSUME Next PROVE A
    BY <1>1
  <2>2. /\ call' = call
        /\ pc \in LengthLabels => LengthNext
        /\ pc \in CompareLabels => CompareNext
    BY <2>1, StepOfCall
  <2>3. CASE call.op \in {"length", "compare"}
    <3>1. mem' = mem
      BY <1>1, <2>2, <2>3, OthersDoNotStore DEF IInv, LengthInv, CompareInv
    <3> QED
      BY <3>1 DEF Load
  <2>4. CASE call.op \in {"copy", "set"}
    <3>1. Untouched
      BY <1>1, <2>4, CopyLeavesTheRest, SetLeavesTheRest DEF IInv
    <3>2. Untouched'
      <4>1. CASE call.op = "copy"
        <5>1. CopyInv' /\ call'.op = "copy"
          BY <1>1, <2>2, <4>1 DEF IInv
        <5>2. (CopyInv /\ call.op = "copy" => Untouched)'
          BY CopyLeavesTheRest, PTL
        <5> QED
          BY <5>1, <5>2
      <4>2. CASE call.op = "set"
        <5>1. SetInv' /\ call'.op = "set"
          BY <1>1, <2>2, <4>2 DEF IInv
        <5>2. (SetInv /\ call.op = "set" => Untouched)'
          BY SetLeavesTheRest, PTL
        <5> QED
          BY <5>1, <5>2
      <4> QED
        BY <2>4, <4>1, <4>2
    <3>3. Destination' = Destination
      <4>1. CASE call.op = "copy"
        BY <2>2, <4>1 DEF Destination, Copied
      <4>2. CASE call.op = "set"
        BY <2>2, <4>2 DEF Destination, EndDest
      <4> QED
        BY <2>4, <4>1, <4>2
    <3>4. /\ DOMAIN mem = 0 .. MemSize - 1
          /\ \A i \in 0 .. MemSize - 1 : i \notin Destination => mem[i] = i
      BY <3>1 DEF Untouched
    <3>5. /\ DOMAIN mem' = 0 .. MemSize - 1
          /\ \A i \in 0 .. MemSize - 1 : i \notin Destination => mem'[i] = i
      BY <3>2, <3>3 DEF Untouched
    <3> QED
      BY <3>4, <3>5 DEF Load
  <2> QED
    BY <1>1, <2>3, <2>4 DEF IInv
<1> QED
  BY <1>1, Invariant, PTL DEF Spec, StoresInDestination

\* Every word a call loads has a byte it was asked to read, so that no load can
\* reach a page without any: for every bound, every alignment and every place of
\* the null byte.
THEOREM LoadsStayNearSource == Spec => []LoadsTouchSource
<1>1. Init => LoadsTouchSource
  <2>1. ASSUME Init PROVE loaded = {}
    BY <2>1 DEF Init, CopyInit, SetInit, LengthInit, CompareInit, Enters
  <2> QED
    BY <2>1 DEF LoadsTouchSource
<1>2. IInv /\ LoadsTouchSource /\ [Next]_vars => LoadsTouchSource'
  <2>1. ASSUME IInv, LoadsTouchSource, UNCHANGED vars PROVE LoadsTouchSource'
    <3>1. call' = call /\ mem' = mem /\ loaded' = loaded
      BY <2>1 DEF vars
    <3>2. Source' = Source
      BY <2>1, <3>1, SameSource
    <3> QED
      BY <2>1, <3>1, <3>2 DEF LoadsTouchSource
  <2> QED
    BY <2>1, LoadsStep
<1> QED
  BY <1>1, <1>2, Invariant, PTL DEF Spec

=============================================================================
