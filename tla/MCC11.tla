------------------------------- MODULE MCC11 -------------------------------
(***************************************************************************)
(* A small instance of C11 for TLC.                                        *)
(***************************************************************************)
EXTENDS C11

\* A value that is not a byte becomes 1
MCValues == {0, 257}

\* A message that fits, and one that never does
MCMessage == [SSM_OK |-> <<1, 1>>, SSM_BUG |-> <<1, 1, 1, 1, 1>>]

MCUnknown == <<1, 1, 1>>

\* Without the long message, for a smaller SizeMax
MCShortMessage == [SSM_OK |-> <<1, 1>>]

=============================================================================
