----------------------------- MODULE SSMCommon -----------------------------
(***************************************************************************)
(* What every component of the library shares: status values, the cells    *)
(* memory is made of, and the two primitives all objects are built from,   *)
(* ssm_copy() and ssm_set(), as their callers see them.                     *)
(*                                                                         *)
(* A memory area is a function from 0 .. size-1 to cells.  A store outside *)
(* the area enlarges the domain of the function and a load outside it      *)
(* yields Stray, so that an access out of bounds leaves a trace that the   *)
(* invariants of the components can see.                                   *)
(***************************************************************************)
EXTENDS Integers

CONSTANTS
    SizeMax,     \* SSM_SIZE_MAX, 2^31-1 in the code
    CanarySize   \* _SSM_CANARY_SIZE: the size of a canary, 0 without canaries

ASSUME SizeAssumption == /\ SizeMax \in Nat \ {0}
                         /\ CanarySize \in Nat

-----------------------------------------------------------------------------
(* Status values and their classes.                                        *)

Successes == {"SSM_OK", "SSM_TRUNCATED", "SSM_EQUAL", "SSM_LOWER", "SSM_GREATER"}

NonFatalErrors == {"SSM_NULLOUT", "SSM_SIZETOOLARGE", "SSM_INDEXRANGE",
                   "SSM_SIZEZERO", "SSM_NULLIN"}

FatalErrors == {"SSM_NOMEMORY", "SSM_CORRUPTED", "SSM_BUG"}

Statuses == Successes \cup NonFatalErrors \cup FatalErrors

-----------------------------------------------------------------------------
(* Cells.  A byte is its value.  A cell of a canary holds a token, since   *)
(* the properties only tell an intact canary from a damaged one.           *)

Byte == 0 .. 255
NUL == 0          \* the byte that terminates every object
LEAD == 256       \* _SSM_CANARY_INIT
UPDATE == 257     \* _SSM_CANARY_UPDATE
TRAIL == 258      \* _SSM_CANARY_TRAIL
Undef == 259      \* a byte of an area fresh from malloc()
Stray == 260      \* what is found outside an area

Cell == 0 .. 259

\* What a null pointer gives access to
EmptyArea == [i \in {} |-> Undef]

Load(mem, i) == IF i \in DOMAIN mem THEN mem[i] ELSE Stray

\* memset(mem + at, v, n)
Fill(mem, at, n, v) ==
    [i \in DOMAIN mem \cup (at .. at + n - 1) |->
        IF i \in at .. at + n - 1 THEN v ELSE mem[i]]

\* memmove(mem + at, src + from, n): every load comes before every store
Move(mem, at, src, from, n) ==
    [i \in DOMAIN mem \cup (at .. at + n - 1) |->
        IF i \in at .. at + n - 1 THEN Load(src, from + (i - at)) ELSE mem[i]]

\* The cells of mem at positions at .. at+n-1 all hold v
Holds(mem, at, n, v) == \A i \in at .. at + n - 1 : Load(mem, i) = v

-----------------------------------------------------------------------------
(* ssm_copy() into an area of destSize bytes from one of srcSize bytes.    *)
(* The address arithmetic that clamps an area reaching past the last       *)
(* address is left out: no object of a program does.  A null source is a   *)
(* source of length 0.                                                     *)

CopyStatus(destSize, srcSize) ==
    IF destSize > SizeMax \/ srcSize > SizeMax THEN "SSM_SIZETOOLARGE"
    ELSE IF srcSize > destSize THEN "SSM_TRUNCATED"
    ELSE "SSM_OK"

\* What *copiedSize is given, old being its value before the call
CopiedSize(destSize, srcSize, old) ==
    IF destSize > SizeMax \/ srcSize > SizeMax THEN old
    ELSE IF srcSize > destSize THEN destSize
    ELSE srcSize

=============================================================================
