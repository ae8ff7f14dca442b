----------------------------- MODULE MCSBuffer -----------------------------
(***************************************************************************)
(* Small instances of SBuffer for TLC.                                     *)
(***************************************************************************)
EXTENDS SBuffer, TLC

CONSTANTS b1, b2

TwoBuffers == {b1, b2}

\* One buffer is smaller than the other
MCCapacity == (b1 :> 2) @@ (b2 :> 3)

\* A text longer than both buffers, with a null byte in its middle, and one
\* without that string imports have to cut
MCTexts == {[i \in 0 .. 3 |-> IF i = 1 THEN NUL ELSE 65], [i \in 0 .. 5 |-> 66]}

\* No step depends on the history of the last call
View == <<buf, damaged>>

=============================================================================
