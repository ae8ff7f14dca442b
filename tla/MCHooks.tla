------------------------------ MODULE MCHooks ------------------------------
(***************************************************************************)
(* A small instance of Hooks for TLC.                                      *)
(***************************************************************************)
EXTENDS Hooks

CONSTANTS malloc, free, m1, f1, m2

\* User mode, and the kernel
MCDefaults == {[malloc |-> malloc, free |-> free, aborts |-> TRUE],
               [malloc |-> NULL, free |-> NULL, aborts |-> FALSE]}

\* An allocator of the application, one that goes with the default free, and
\* the defaults again
MCSettings == {<<m1, f1>>, <<m2, NULL>>, <<NULL, NULL>>}

=============================================================================
