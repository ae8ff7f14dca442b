----------------------------- MODULE MCDBuffer -----------------------------
(***************************************************************************)
(* Small instances of DBuffer for TLC.                                     *)
(***************************************************************************)
EXTENDS DBuffer, TLC

CONSTANTS b1, b2, a1, a2, a3

\* A text longer than the smallest areas
MCLongTexts == {[i \in 0 .. 19 |-> 65]}

OneBuffer == {b1}
TwoBuffers == {b1, b2}
TwoAreas == {a1, a2}
ThreeAreas == {a1, a2, a3}

\* A text with a null byte in its middle
MCTexts == {[i \in 0 .. 1 |-> IF i = 1 THEN NUL ELSE 65 + i]}

AreaSymmetry == Permutations(Areas)

\* No step depends on the history of the last call
View == <<buf, heap, damaged>>

=============================================================================
