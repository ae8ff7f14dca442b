--------------------------- MODULE CStringLength ---------------------------
(***************************************************************************)
(* ssm_cstring_length() step by step: the bytes before the string is       *)
(* aligned, then words until one may hold a null byte or the bound is      *)
(* passed, and the length computed from where the search stopped.          *)
(***************************************************************************)
EXTENDS WordAccess

CONSTANTS
    StringStarts,  \* where a string may start
    Bounds,        \* the maxSize of a call, or more than SizeMax
    Memories       \* what the memory may hold

ASSUME CStringLengthAssumption ==
    /\ StringStarts \cup Bounds \subseteq Nat
    /\ Memories \subseteq [0 .. MemSize - 1 -> Byte]

-----------------------------------------------------------------------------
EndStr == call.str + call.maxSize

LengthReturns(n) == found' = n /\ pc' = "done"

LengthStart ==
    /\ pc = "length"
    /\ IF call.maxSize > SizeMax
       THEN LengthReturns(0) /\ UNCHANGED from
       ELSE /\ from' = call.str
            /\ pc' = "length_bytes"
            /\ UNCHANGED found
    /\ UNCHANGED <<mem, call, to, remain, status, loop>>

\* One character: until the string is aligned, or all of it with _SSM_OPTIM_SIZE
LengthByte ==
    /\ pc = "length_bytes" /\ (OptimSpeed => ~ Aligned(from))
    /\ IF from >= EndStr \/ Load(mem, from) = NUL
       THEN LengthReturns(from - call.str) /\ UNCHANGED from
       ELSE from' = from + 1 /\ UNCHANGED <<pc, found>>
    /\ UNCHANGED <<mem, call, to, remain, status, loop>>

LengthEnterWords ==
    /\ pc = "length_bytes" /\ OptimSpeed /\ Aligned(from)
    /\ srcp' = from /\ found' = 0 /\ pc' = "length_words"
    /\ UNCHANGED <<mem, call, from, to, remain, status, dstp, len, slot, reg, loaded>>

\* ((word - lomagic) & ~word & himagic) != 0: subtracting 1 from each byte, with
\* the borrow of the byte below, sets a high bit that was not set.  A null byte
\* borrows, and the bytes of value 1 above it pass the borrow on.  The bytes are
\* taken in little-endian order; the other order is the same with the word
\* turned round.
MayHoldNull(word) ==
    LET borrow(k) ==
            IF \E j \in 0 .. k - 1 : word[j] = 0 /\ \A i \in j + 1 .. k - 1 : word[i] <= 1
            THEN 1 ELSE 0
    IN  \E k \in 0 .. WordSize - 1 :
            (word[k] - 1 - borrow(k)) % 256 >= 128 /\ word[k] < 128

\* The search through the bytes of a word that may hold a null one is one step
LengthWord ==
    LET word == Word(srcp)
        null == {k \in 0 .. WordSize - 1 : word[k] = NUL}
        stop == MayHoldNull(word) /\ null # {}
    IN  /\ pc = "length_words" /\ srcp < EndStr
        /\ loaded' = {srcp}
        /\ IF stop
           THEN /\ found' = CHOOSE k \in null : \A j \in null : k <= j
                /\ pc' = "length_end" /\ UNCHANGED srcp
           ELSE srcp' = srcp + WordSize /\ UNCHANGED <<found, pc>>
        /\ UNCHANGED <<mem, call, from, to, remain, status, dstp, len, slot, reg>>

LengthLeaveWords ==
    /\ pc = "length_words" /\ srcp >= EndStr
    /\ pc' = "length_end"
    /\ UNCHANGED <<mem, call, from, to, remain, answer, loop>>

\* Mutant: a null byte past the bound is counted
LengthUncut ==
    /\ pc = "length_end"
    /\ LengthReturns(srcp + found - call.str)
    /\ UNCHANGED <<mem, call, from, to, remain, status, loop>>

\* The null byte, or the end of the words, may be past the bound
LengthEnd ==
    /\ pc = "length_end"
    /\ LengthReturns(Smallest(srcp + found - call.str, call.maxSize))
    /\ UNCHANGED <<mem, call, from, to, remain, status, loop>>

-----------------------------------------------------------------------------
\* A bound that reaches past the memory is for a string that ends in it
LengthInit ==
    \E s \in StringStarts, n \in Bounds, m \in Memories :
        /\ \/ s + n <= MemSize
           \/ n > SizeMax
           \/ \E i \in s .. MemSize - 1 : m[i] = NUL
        /\ Enters([op |-> "length", str |-> s, maxSize |-> n], "length", m)

LengthNext == \/ LengthStart \/ LengthByte \/ LengthEnterWords \/ LengthWord
              \/ LengthLeaveWords \/ LengthEnd

-----------------------------------------------------------------------------
\* A call answers the position of the first null byte, or the bound when there
\* is none before: no null byte is missed by the test on words, none is found
\* past the bound or before the string.  This is IsStringLength of the buffers.
FindsFirstNull ==
    call.op = "length" /\ pc = "done" =>
        IF call.maxSize > SizeMax THEN found = 0
        ELSE /\ found \in 0 .. call.maxSize
             /\ \A i \in 0 .. found - 1 : mem[call.str + i] # NUL
             /\ found < call.maxSize => mem[call.str + found] = NUL

\* ssm_c11k.texi, of strnlen_s, which is this function: "At most the first maxsize
\* characters of s shall be accessed by strnlen_s".
ReadsNotPastBound ==
    call.op = "length" => \A a \in loaded : a + WordSize <= EndStr

=============================================================================
