------------------------------ MODULE WordSet ------------------------------
(***************************************************************************)
(* ssm_set() step by step: the bytes before the destination is aligned,    *)
(* the words, whose end is computed from the end of the area and not from  *)
(* a count, and the bytes of the tail.                                     *)
(***************************************************************************)
EXTENDS WordAccess

CONSTANTS
    SetStarts,     \* where a destination may start
    SetSizes       \* how many bytes a call sets, or more than SizeMax

ASSUME WordSetAssumption == SetStarts \cup SetSizes \subseteq Nat

\* The value that is set, one that no byte of the memory holds before
SetValue == 255

-----------------------------------------------------------------------------
EndDest == call.dest + call.destSize

SetStart ==
    /\ pc = "set"
    /\ IF call.destSize > SizeMax
       THEN status' = "SSM_SIZETOOLARGE" /\ pc' = "done" /\ UNCHANGED to
       ELSE /\ to' = call.dest
            /\ pc' = IF OptimSpeed THEN "set_align" ELSE "set_tail"
            /\ UNCHANGED status
    /\ UNCHANGED <<mem, call, from, remain, found, loop>>

SetByte ==
    /\ mem' = Fill(mem, to, 1, call.value)
    /\ to' = to + 1
    /\ UNCHANGED <<call, pc, from, remain, answer, loop>>

SetAlignByte ==
    /\ pc = "set_align" /\ to < EndDest /\ ~ Aligned(to)
    /\ SetByte

\* Mutant: an area of less than a word is set by words too
SetWordsAlways ==
    /\ pc = "set_align" /\ (to >= EndDest \/ Aligned(to))
    /\ dstp' = to
    /\ to' = RoundDown(EndDest + WordSize - 1)
    /\ pc' = "set_words"
    /\ UNCHANGED <<mem, call, from, remain, answer, srcp, len, slot, reg, loaded>>

\* curDest skips to the end of the words before they are stored.  An area of
\* one word is left to the byte loop.
SetEnterWords ==
    /\ pc = "set_align" /\ (to >= EndDest \/ Aligned(to))
    /\ IF EndDest - to > WordSize
       THEN dstp' = to /\ to' = RoundDown(EndDest) /\ pc' = "set_words"
       ELSE pc' = "set_tail" /\ UNCHANGED <<dstp, to>>
    /\ UNCHANGED <<mem, call, from, remain, answer, srcp, len, slot, reg, loaded>>

SetWord ==
    /\ pc = "set_words" /\ dstp < to
    /\ StoreWord(dstp, [k \in 0 .. WordSize - 1 |-> call.value])
    /\ dstp' = dstp + WordSize
    /\ UNCHANGED <<call, pc, from, to, remain, answer, srcp, len, slot, reg, loaded>>

SetLeaveWords ==
    /\ pc = "set_words" /\ dstp >= to
    /\ pc' = "set_tail"
    /\ UNCHANGED <<mem, call, from, to, remain, answer, loop>>

SetTailByte ==
    /\ pc = "set_tail" /\ to < EndDest
    /\ SetByte

SetReturn ==
    /\ pc = "set_tail" /\ to >= EndDest
    /\ pc' = "done"
    /\ UNCHANGED <<mem, call, from, to, remain, answer, loop>>

-----------------------------------------------------------------------------
SetInit ==
    \E d \in SetStarts, n \in SetSizes :
        /\ n <= SizeMax => d + n <= MemSize
        /\ Enters([op |-> "set", dest |-> d, destSize |-> n, value |-> SetValue],
                  "set", Initial)

SetNext == \/ SetStart \/ SetAlignByte \/ SetEnterWords \/ SetWord
           \/ SetLeaveWords \/ SetTailByte \/ SetReturn

-----------------------------------------------------------------------------
\* A call that returns has set every byte of the area and no other: this is what
\* the models of the buffers take ssm_set() for.
SetsLikeMemset ==
    call.op = "set" /\ pc = "done" =>
        mem = IF call.destSize > SizeMax THEN Initial
              ELSE Fill(Initial, call.dest, call.destSize, call.value)

=============================================================================
