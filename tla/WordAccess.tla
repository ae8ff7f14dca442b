----------------------------- MODULE WordAccess -----------------------------
(***************************************************************************)
(* What the four primitives that work word by word have in common: the     *)
(* memory, the local variables of a call and the way words are read,       *)
(* merged and stored.                                                      *)
(*                                                                         *)
(* Addresses are those of bytes.  A word is a function from                *)
(* 0 .. WordSize-1 to bytes in the order of their addresses, which makes   *)
(* the models the same for both byte orders.  Each load and each store of  *)
(* a word is a step: what is in a register may have been overwritten in    *)
(* memory.                                                                 *)
(***************************************************************************)
EXTENDS SSMCommon

CONSTANTS
    WordSize,      \* _SSM_WORD_SIZE, 4 or 8 in the code
    MemSize,       \* bound: the bytes of memory, a multiple of WordSize
    OptimSpeed     \* _SSM_OPTIM_SPEED, or else only the byte loops

ASSUME WordAccessAssumption ==
    /\ WordSize \in Nat \ {0} /\ MemSize \in Nat /\ MemSize % WordSize = 0
    /\ OptimSpeed \in BOOLEAN

VARIABLES
    mem,           \* the memory
    call,          \* the function called and its arguments
    pc,            \* where the call is
    from, to,      \* the pointers of the byte loops: curSrc or curStr or cur1,
                   \* and curDest or cur2
    remain,        \* the bytes that remain
    srcp, dstp,    \* the pointers of the word loop,
    len,           \* the words it still counts,
    slot,          \* the index of its next word,
    reg,           \* and its registers: a0 .. a3, then b0 .. b3
    status,        \* the status of the call
    found,         \* size of ssm_cstring_length(), comp of ssm_compare()
    loaded         \* the addresses of the last words loaded (history)

vars == <<mem, call, pc, from, to, remain, srcp, dstp, len, slot, reg,
          status, found, loaded>>

loop == <<srcp, dstp, len, slot, reg, loaded>>
answer == <<status, found>>

-----------------------------------------------------------------------------
Aligned(addr) == addr % WordSize = 0

RoundDown(addr) == addr - (addr % WordSize)

Word(addr) == [k \in 0 .. WordSize - 1 |-> Load(mem, addr + k)]

StoreWord(addr, word) == mem' = Move(mem, addr, word, 0, WordSize)

\* _SSM_MERGE_WORDS (w0, sh_1, w1, sh_2)
MergeWords(w0, w1) ==
    LET shift == from % WordSize
    IN  [k \in 0 .. WordSize - 1 |->
            IF k + shift < WordSize THEN w0[k + shift] ELSE w1[k + shift - WordSize]]

Smallest(m, n) == IF m < n THEN m ELSE n

\* The call c enters its function, at label where, with memory m
Enters(c, where, m) ==
    /\ call = c /\ pc = where /\ mem = m
    /\ from = 0 /\ to = 0 /\ remain = 0
    /\ srcp = 0 /\ dstp = 0 /\ len = 0 /\ slot = 0
    /\ reg = [r \in 0 .. 7 |-> [k \in 0 .. WordSize - 1 |-> 0]]
    /\ status = "SSM_OK" /\ found = 0 /\ loaded = {}

\* Each byte of the memory holds its own address
Initial == [i \in 0 .. MemSize - 1 |-> i]

=============================================================================
