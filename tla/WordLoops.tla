----------------------------- MODULE WordLoops -----------------------------
(***************************************************************************)
(* A call of any of the four primitives that work word by word: copy, set, *)
(* length of a C string and comparison.  What they promise about the       *)
(* memory they touch is the same for all.                                  *)
(***************************************************************************)
EXTENDS WordCopy, WordSet, CStringLength, WordCompare

Init == CopyInit \/ SetInit \/ LengthInit \/ CompareInit

Next == CopyNext \/ SetNext \/ LengthNext \/ CompareNext

\* A call runs to its end: nothing in it waits
Spec == Init /\ [][Next]_vars /\ WF_vars(Next)

-----------------------------------------------------------------------------
\* The addresses a call may write
Destination ==
    CASE call.op = "copy" -> call.dest .. call.dest + Copied - 1
      [] call.op = "set"  -> call.dest .. EndDest - 1
      [] OTHER            -> {}

\* The addresses a call has to read: of a string, up to its first null byte
Source ==
    CASE call.op = "copy"    -> call.src .. call.src + Copied - 1
      [] call.op = "set"     -> {}
      [] call.op = "length"  ->
            {i \in call.str .. Smallest(EndStr, MemSize) - 1 :
                \A j \in call.str .. i - 1 : mem[j] # NUL}
      [] call.op = "compare" -> call.addr1 .. call.addr1 + Common - 1
                                  \cup call.addr2 .. call.addr2 + Common - 1

\* No store, in the middle of a call either, falls outside the destination.
StoresInDestination ==
    [][\A i \in DOMAIN mem' : i \notin Destination => mem'[i] = Load(mem, i)]_vars

\* Every word that is loaded holds a byte to read, even when the loops read the
\* words that straddle the ends of an area, or look for the end of a string
\* whose bound is far away: no load can reach a page without a byte of the area
\* (ssm_cstring_length.c: "accessing this last word is always physically valid").
\* The other bytes of that word may be past the bound of a string, which is more
\* than the manual allows: see ReadsNotPastBound.
LoadsTouchSource ==
    \A a \in loaded : \E k \in 0 .. WordSize - 1 :
        a + k \in Source

\* Every call ends, although the loops count the words down to exactly zero.
Terminates == <>(pc = "done")

=============================================================================
