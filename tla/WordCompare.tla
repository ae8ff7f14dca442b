---------------------------- MODULE WordCompare ----------------------------
(***************************************************************************)
(* ssm_compare() step by step: the bytes before the second area is         *)
(* aligned, the two loops of words unrolled 4 times that load the next     *)
(* words before they compare the previous ones, the bytes of the tail, and *)
(* the lengths.                                                            *)
(***************************************************************************)
EXTENDS WordAccess

CONSTANT Comparisons   \* the pairs of areas to compare, with the memory they are in

\* Areas of sizes that are accepted are in the memory
ASSUME WordCompareAssumption ==
    \A c \in Comparisons :
        /\ c.mem \in [0 .. MemSize - 1 -> Byte]
        /\ {c.addr1, c.size1, c.addr2, c.size2} \subseteq Nat
        /\ c.size1 <= SizeMax /\ c.size2 <= SizeMax =>
               c.addr1 + c.size1 <= MemSize /\ c.addr2 + c.size2 <= MemSize

-----------------------------------------------------------------------------
\* The bytes both areas have
Common == Smallest(call.size1, call.size2)

\* Mutant: the words are compared as numbers of a little-endian processor
CompareAsNumbers(w1, w2) ==
    LET last == CHOOSE k \in 0 .. WordSize - 1 :
                    /\ w1[k] # w2[k]
                    /\ \A j \in k + 1 .. WordSize - 1 : w1[j] = w2[j]
    IN  w1[last] - w2[last]

\* CMP_LT_OR_GT, of words that differ
CMP_LT_OR_GT(w1, w2) ==
    LET first == CHOOSE k \in 0 .. WordSize - 1 :
                    /\ w1[k] # w2[k]
                    /\ \A j \in 0 .. k - 1 : w1[j] = w2[j]
    IN  w1[first] - w2[first]

\* The loop for a first area that is not aligned merges two of its words
MergesFirst == ~ Aligned(from)

\* The registers that are compared at index i of the unrolled loop
Compared(i) ==
    IF MergesFirst
    THEN <<MergeWords(reg[(i + 2) % 4], reg[(i + 3) % 4]), reg[4 + ((i + 3) % 4)]>>
    ELSE <<reg[(i + 1) % 2], reg[4 + ((i + 1) % 2)]>>

-----------------------------------------------------------------------------
CompareReturns(st) ==
    /\ status' = st /\ pc' = "done"

\* A null address is an area of size 0
CompareStart ==
    /\ pc = "compare"
    /\ IF call.size1 > SizeMax \/ call.size2 > SizeMax
       THEN CompareReturns("SSM_SIZETOOLARGE") /\ UNCHANGED <<from, to, remain>>
       ELSE IF call.size1 = 0
       THEN /\ CompareReturns(IF call.size2 = 0 THEN "SSM_EQUAL" ELSE "SSM_LOWER")
            /\ UNCHANGED <<from, to, remain>>
       ELSE IF call.size2 = 0
       THEN CompareReturns("SSM_GREATER") /\ UNCHANGED <<from, to, remain>>
       ELSE /\ from' = call.addr1 /\ to' = call.addr2 /\ remain' = Common
            /\ pc' = IF OptimSpeed THEN "compare_align" ELSE "compare_tail"
            /\ UNCHANGED status
    /\ UNCHANGED <<mem, call, found, loop>>

\* One byte of the loops before and after the words
CompareByte ==
    /\ found' = Load(mem, from) - Load(mem, to)
    /\ from' = from + 1 /\ to' = to + 1
    /\ remain' = remain - 1
    /\ UNCHANGED <<mem, call, pc, status, loop>>

CompareAlignByte ==
    /\ pc = "compare_align" /\ found = 0 /\ remain > 0 /\ ~ Aligned(to)
    /\ CompareByte

\* The switch on len % 4 that jumps into the middle of the loop, as one formula
\* over its cases: case 0 counts as 4 and case 1 as 5.
CompareEnterLoop ==
    LET words == remain \div WordSize
        c     == IF words % 4 < 2 THEN (words % 4) + 4 ELSE words % 4
        base  == RoundDown(from)
        first == 5 - c
        back  == (4 - c) * WordSize
    IN  /\ pc = "compare_align" /\ found = 0 /\ remain > 0 /\ Aligned(to)
        /\ IF words = 0
           THEN pc' = "compare_after" /\ UNCHANGED loop
           ELSE /\ reg' = IF MergesFirst
                          THEN [reg EXCEPT ![(first + 2) % 4] = Word(base),
                                           ![(first + 3) % 4] = Word(base + WordSize),
                                           ![4 + ((first + 3) % 4)] = Word(to)]
                          ELSE [reg EXCEPT ![(first + 1) % 2] = Word(base),
                                           ![4 + ((first + 1) % 2)] = Word(to)]
                /\ loaded' = {base, to} \cup (IF MergesFirst THEN {base + WordSize} ELSE {})
                /\ srcp' = base - back + (IF MergesFirst THEN WordSize ELSE 0)
                /\ dstp' = to - back
                /\ len' = words + 4 - c
                /\ slot' = first
                /\ pc' = IF len' = 0 THEN "compare_last" ELSE "compare_loop"
        /\ UNCHANGED <<mem, call, from, to, remain, answer>>

\* One label of the unrolled loop: a load of each area, and the comparison of
\* the words loaded before
CompareWord ==
    LET a == srcp + slot * WordSize
        b == dstp + slot * WordSize
        end == slot = 3
        words == Compared(slot)
        r == IF MergesFirst THEN slot ELSE slot % 2
    IN  /\ pc = "compare_loop"
        /\ reg' = [reg EXCEPT ![r] = Word(a), ![4 + r] = Word(b)]
        /\ loaded' = {a, b}
        /\ IF words[1] # words[2]
           THEN /\ found' = CMP_LT_OR_GT(words[1], words[2])
                /\ pc' = "compare_after"
                /\ UNCHANGED <<srcp, dstp, len, slot>>
           ELSE /\ srcp' = srcp + (IF end THEN 4 * WordSize ELSE 0)
                /\ dstp' = dstp + (IF end THEN 4 * WordSize ELSE 0)
                /\ len' = IF end THEN len - 4 ELSE len
                /\ slot' = (slot + 1) % 4
                /\ pc' = IF len' = 0 THEN "compare_last" ELSE "compare_loop"
                /\ UNCHANGED found
        /\ UNCHANGED <<mem, call, from, to, remain, status>>

\* do0: the words left in the registers
CompareLastWord ==
    LET words == Compared(0)
    IN  /\ pc = "compare_last"
        /\ found' = IF words[1] # words[2] THEN CMP_LT_OR_GT(words[1], words[2]) ELSE 0
        /\ pc' = "compare_after"
        /\ UNCHANGED <<mem, call, from, to, remain, status, loop>>

\* The pointers of the byte loop
CompareAfterWords ==
    /\ pc = "compare_after"
    /\ from' = from + RoundDown(remain) /\ to' = to + RoundDown(remain)
    /\ remain' = remain % WordSize
    /\ pc' = "compare_tail"
    /\ UNCHANGED <<mem, call, answer, loop>>

\* No word: the bytes end, or differ, before the second area is aligned
CompareSkipWords ==
    /\ pc = "compare_align" /\ (remain = 0 \/ found # 0)
    /\ pc' = "compare_tail"
    /\ UNCHANGED <<mem, call, from, to, remain, answer, loop>>

CompareTailByte ==
    /\ pc = "compare_tail" /\ found = 0 /\ remain > 0
    /\ CompareByte

CompareEnd ==
    /\ pc = "compare_tail" /\ (found # 0 \/ remain = 0)
    /\ CompareReturns(IF found < 0 THEN "SSM_LOWER"
                      ELSE IF found > 0 THEN "SSM_GREATER"
                      ELSE IF call.size1 < call.size2 THEN "SSM_LOWER"
                      ELSE IF call.size1 > call.size2 THEN "SSM_GREATER"
                      ELSE "SSM_EQUAL")
    /\ UNCHANGED <<mem, call, from, to, remain, found, loop>>

-----------------------------------------------------------------------------
CompareInit ==
    \E c \in Comparisons :
        Enters([op |-> "compare", addr1 |-> c.addr1, size1 |-> c.size1,
                addr2 |-> c.addr2, size2 |-> c.size2], "compare", c.mem)

CompareNext == \/ CompareStart \/ CompareAlignByte \/ CompareEnterLoop \/ CompareSkipWords
               \/ CompareWord \/ CompareLastWord \/ CompareAfterWords
               \/ CompareTailByte \/ CompareEnd

-----------------------------------------------------------------------------
\* The first area comes before the second: at the first byte that differs, or
\* because it ends there
Before(addr1, size1, addr2, size2) ==
    \E k \in 0 .. size1 :
        /\ \A j \in 0 .. k - 1 : j < size2 /\ mem[addr1 + j] = mem[addr2 + j]
        /\ k < size2
        /\ k < size1 => mem[addr1 + k] < mem[addr2 + k]

\* A call answers the order of the bytes, as unsigned ones and in the order of
\* their addresses, then that of the lengths (ssm_lowlevel.texi: "the comparison
\* is made on the smallest of the two sizes and, if both contents are identical,
\* the area with the smallest size is logically less than the other area").
ComparesBytes ==
    call.op = "compare" /\ pc = "done" =>
        IF call.size1 > SizeMax \/ call.size2 > SizeMax THEN status = "SSM_SIZETOOLARGE"
        ELSE /\ status = "SSM_LOWER" <=>
                    Before(call.addr1, call.size1, call.addr2, call.size2)
             /\ status = "SSM_GREATER" <=>
                    Before(call.addr2, call.size2, call.addr1, call.size1)
             /\ status \in {"SSM_LOWER", "SSM_GREATER", "SSM_EQUAL"}

=============================================================================
