------------------------------ MODULE WordCopy ------------------------------
(***************************************************************************)
(* ssm_copy() step by step, on areas that may overlap: the choice of the   *)
(* direction, the bytes before the destination is aligned on a word, the   *)
(* four unrolled loops that keep one or two words in registers ahead of    *)
(* their stores, and the bytes of the tail.                                *)
(*                                                                         *)
(* In the loops each word is loaded before the store of the previous one,  *)
(* so that the words in registers may already have been overwritten in     *)
(* memory.                                                                 *)
(***************************************************************************)
EXTENDS WordAccess

CONSTANTS
    Sources,       \* where a source may start,
    Dests,         \* where a destination may start,
    CopySizes,     \* how many bytes a call copies,
    Cuts           \* and how many bytes of the source do not fit

ASSUME WordCopyAssumption == Sources \cup Dests \cup CopySizes \cup Cuts \subseteq Nat

-----------------------------------------------------------------------------
\* The bytes to copy
Copied == Smallest(call.srcSize, call.destSize)

\* Mutant: the two areas are compared the wrong way round
ForwardOnOverlap == call.dest < call.src /\ call.dest + call.srcSize > call.src

\* The copy goes from the end to the beginning
Backward == call.src < call.dest /\ call.src + call.srcSize > call.dest

\* Mutant: the merging loop also serves a source that is aligned
MergesAlways == TRUE

\* The loop for a source that is not aligned merges the two words a word of the
\* destination comes from.  It is unrolled 4 times, the other one 8 times.
Merging == ~ Aligned(from)
Unroll == IF Merging THEN 4 ELSE 8

\* The word stored at index i of the unrolled loop, from the registers
ToStore(a, i) ==
    IF ~ Merging THEN a[(IF Backward THEN i ELSE i + 1) % 2]
    ELSE IF Backward THEN MergeWords(a[(i + 1) % 4], a[(i + 2) % 4])
    ELSE MergeWords(a[(i + 2) % 4], a[(i + 3) % 4])

\* The register loaded at index i
LoadedRegister(i) ==
    IF Merging THEN i ELSE IF Backward THEN (i + 1) % 2 ELSE i % 2

-----------------------------------------------------------------------------
(* One byte of the loops before and after the words.                       *)

MoveByte ==
    /\ IF Backward
       THEN /\ mem' = Move(mem, to - 1, mem, from - 1, 1)
            /\ from' = from - 1 /\ to' = to - 1
       ELSE /\ mem' = Move(mem, to, mem, from, 1)
            /\ from' = from + 1 /\ to' = to + 1
    /\ remain' = remain - 1
    /\ UNCHANGED <<call, pc, answer, loop>>

\* Mutant: the size of the destination is ignored
StartUncut ==
    /\ pc = "start"
    /\ remain' = call.srcSize
    /\ from' = call.src + (IF Backward THEN remain' ELSE 0)
    /\ to' = call.dest + (IF Backward THEN remain' ELSE 0)
    /\ pc' = IF call.src = call.dest THEN "return"
             ELSE IF OptimSpeed THEN "align" ELSE "tail"
    /\ UNCHANGED <<mem, call, answer, loop>>

Start ==
    /\ pc = "start"
    /\ remain' = Copied
    /\ from' = call.src + (IF Backward THEN remain' ELSE 0)
    /\ to' = call.dest + (IF Backward THEN remain' ELSE 0)
    /\ pc' = IF call.src = call.dest THEN "return"
             ELSE IF OptimSpeed THEN "align" ELSE "tail"
    /\ UNCHANGED <<mem, call, answer, loop>>

\* Mutant: the bytes before the first word are not counted
AlignByteUncounted ==
    /\ pc = "align" /\ ~ Aligned(to)
    /\ MoveByte

AlignByte ==
    /\ pc = "align" /\ remain > 0 /\ ~ Aligned(to)
    /\ MoveByte

\* The switch on len % 8 or len % 4 that jumps into the middle of the loop, as
\* one formula over its cases: case 0 counts as Unroll and case 1 as Unroll + 1.
\* The forward loops load the first registers before they move the pointers.
EnterLoop ==
    LET words == remain \div WordSize
        c     == IF words % Unroll < 2 THEN (words % Unroll) + Unroll ELSE words % Unroll
        base  == RoundDown(from)
        sp    == IF Backward
                 THEN IF Merging THEN base + WordSize - (c + 1) * WordSize
                      ELSE base - c * WordSize
                 ELSE IF Merging THEN base - (3 - c) * WordSize
                      ELSE base - (8 - c) * WordSize
        first == IF Backward THEN c - 2 ELSE Unroll + 1 - c
        read  == IF Backward THEN sp + (c - 1) * WordSize ELSE base
    IN  /\ pc = "align" /\ (remain = 0 \/ Aligned(to)) /\ words > 0
        /\ srcp' = sp
        /\ dstp' = to - (IF Backward THEN c - 1 ELSE Unroll + 1 - c) * WordSize
        /\ len' = words + Unroll - c
        /\ slot' = first
        /\ reg' = IF ~ Merging
                  THEN [reg EXCEPT ![(IF Backward THEN first ELSE first + 1) % 2] = Word(read)]
                  ELSE LET r == IF Backward THEN first + 1 ELSE first + 2
                       IN  [reg EXCEPT ![r % 4] = Word(read),
                                       ![(r + 1) % 4] = Word(read + WordSize)]
        /\ loaded' = IF Merging THEN {read, read + WordSize} ELSE {read}
        /\ pc' = IF len' = 0 THEN "last" ELSE "loop"
        /\ UNCHANGED <<mem, call, from, to, remain, answer>>

\* One label of the unrolled loop: a load, and the store of an earlier word
CopyWord ==
    LET read == srcp + slot * WordSize
        end  == slot = (IF Backward THEN 0 ELSE Unroll - 1)
        move == IF ~ end THEN 0 ELSE IF Backward THEN - Unroll ELSE Unroll
    IN  /\ pc = "loop"
        /\ reg' = [reg EXCEPT ![LoadedRegister(slot)] = Word(read)]
        /\ StoreWord(dstp + slot * WordSize, ToStore(reg', slot))
        /\ loaded' = {read}
        /\ srcp' = srcp + move * WordSize
        /\ dstp' = dstp + move * WordSize
        /\ slot' = IF end THEN IF Backward THEN Unroll - 1 ELSE 0
                   ELSE IF Backward THEN slot - 1 ELSE slot + 1
        /\ len' = IF end THEN len - Unroll ELSE len
        /\ pc' = IF len' = 0 THEN "last" ELSE "loop"
        /\ UNCHANGED <<call, from, to, remain, answer>>

\* The pointers of the byte loop that follows the words
LeaveWords ==
    LET bytes == remain - (remain % WordSize)
    IN  /\ from' = IF Backward THEN from - bytes ELSE from + bytes
        /\ to' = IF Backward THEN to - bytes ELSE to + bytes
        /\ remain' = remain % WordSize

\* do0: the word left in the registers
LastWord ==
    LET last == IF Backward THEN Unroll - 1 ELSE 0
    IN  /\ pc = "last"
        /\ StoreWord(dstp + last * WordSize, ToStore(reg, last))
        /\ LeaveWords
        /\ pc' = "tail"
        /\ UNCHANGED <<call, answer, loop>>

\* Fewer bytes than a word remain
SkipLoop ==
    /\ pc = "align" /\ (remain = 0 \/ Aligned(to)) /\ remain < WordSize
    /\ pc' = "tail"
    /\ UNCHANGED <<mem, call, from, to, remain, answer, loop>>

TailByte ==
    /\ pc = "tail" /\ remain > 0
    /\ MoveByte

Return ==
    /\ \/ pc = "tail" /\ remain = 0
       \/ pc = "return"
    /\ status' = IF call.destSize < call.srcSize THEN "SSM_TRUNCATED" ELSE "SSM_OK"
    /\ pc' = "done"
    /\ UNCHANGED <<mem, call, from, to, remain, found, loop>>

-----------------------------------------------------------------------------
CopyInit ==
    \E s \in Sources, d \in Dests, n \in CopySizes, cut \in Cuts :
        /\ s + n + cut <= MemSize /\ d + n <= MemSize
        /\ Enters([op |-> "copy", src |-> s, srcSize |-> n + cut, dest |-> d, destSize |-> n],
                  "start", Initial)

CopyNext == \/ Start \/ AlignByte \/ EnterLoop \/ SkipLoop \/ CopyWord
            \/ LastWord \/ TailByte \/ Return

-----------------------------------------------------------------------------
\* A call that returns has moved the bytes as if it had read them all before it
\* wrote any, whatever the alignments and the overlap, and has written nothing
\* else: this is what the models of the buffers take ssm_copy() for.
MovesLikeMemmove ==
    call.op = "copy" /\ pc = "done" =>
        mem = Move(Initial, call.dest, Initial, call.src, Copied)

=============================================================================
