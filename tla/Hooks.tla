------------------------------- MODULE Hooks -------------------------------
(***************************************************************************)
(* The only state the threads of a program share through the library: the  *)
(* two memory management functions and the handler of memory corruptions.  *)
(*                                                                         *)
(* Threads that work on distinct objects allocate, free and report         *)
(* corruptions at the same time, without a lock.  The variables that hold  *)
(* the functions are volatile: each time the source names one is a step.   *)
(* Nothing prevents an application from switching the functions or from    *)
(* exchanging the handler meanwhile, which the manual asks not to do; the  *)
(* properties say what still holds then, and what holds when nobody does.  *)
(***************************************************************************)
EXTENDS Integers

CONSTANTS
    Threads,      \* the threads that use the library
    Areas,        \* the areas the allocation functions return
    NULL,         \* the null pointer
    Defaults,     \* what the builds of the library do by default: the functions
                  \*   SSM_DEFAULT_MALLOC and SSM_DEFAULT_FREE, and whether the
                  \*   default handler aborts the program
    Settings,     \* the pairs of functions the application may set
    MaxSwitches,  \* bound: how many times it does
    Handlers,     \* the handlers of the application; each is set once (bound)
    DefaultHandler

ASSUME HooksAssumption ==
    /\ MaxSwitches \in Nat
    /\ NULL \notin Threads \cup Areas \cup Handlers \cup {DefaultHandler} \cup Settings
    /\ Threads \cap Areas = {} /\ (Threads \cup Areas) \cap Handlers = {}

VARIABLES
    malloc_function, free_function,
    corrupted_handler,
    default,      \* the defaults of this build
    pc,           \* where each thread is: "in_malloc", "in_free" and "in_handler"
                  \*   are inside the function that is called
    func,         \* its variable func, handler or previous
    ptr,          \* the pointer it frees, or the handler it sets
    switch,       \* the arguments of the switch in progress, NULL without one
    heap,         \* the allocated areas: who holds them, and what made them
    setting,      \* the arguments of the last switch that has ended (history)
    switches,     \* how many there were (history)
    disturbed,    \* the calls and the areas a switch has overlapped (history)
    installed,    \* the handlers set so far (history),
    replaced,     \* the ones given back to the application (history)
    overlapped    \* two exchanges of handlers have overlapped (history)

functions == <<malloc_function, free_function, switch, setting, switches>>
handler == <<corrupted_handler, installed, replaced, overlapped>>
vars == <<functions, handler, default, pc, func, ptr, heap, disturbed>>

-----------------------------------------------------------------------------
Goes(t, where) == pc' = [pc EXCEPT ![t] = where]

\* Mutant: the function is called without a test
CallsUntested(t, fn, inside, without) ==
    /\ func' = [func EXCEPT ![t] = fn]
    /\ Goes(t, inside)

\* fn is called, unless it is null
Calls(t, fn, inside, without) ==
    /\ func' = [func EXCEPT ![t] = fn]
    /\ Goes(t, IF fn = NULL THEN without ELSE inside)

\* The call of t ends: its variables are no more
Ends(t) ==
    /\ Goes(t, "idle")
    /\ func' = [func EXCEPT ![t] = NULL]
    /\ ptr' = [ptr EXCEPT ![t] = NULL]
    /\ disturbed' = disturbed \ {t, ptr[t]}

\* The program is aborted: no thread goes on
Aborted == \E t \in Threads : pc[t] = "aborted"

\* A call that starts is disturbed at once when a switch is half done
Starts(t) ==
    disturbed' = IF switch = NULL THEN disturbed \ {t} ELSE disturbed \cup {t}

\* A step of a switch disturbs every call in progress and every area
Disturbs ==
    disturbed' = disturbed \cup {t \in Threads : pc[t] # "idle"} \cup DOMAIN heap

-----------------------------------------------------------------------------
(* ssm_set_memory_management(), by one thread at a time.                   *)

\* Mutant: a null function does not replace the one that is set
SetMallocUnlessNull(s) ==
    /\ ~ Aborted /\ switch = NULL /\ switches < MaxSwitches
    /\ malloc_function' = IF s[1] = NULL THEN malloc_function ELSE s[1]
    /\ switch' = s
    /\ switches' = switches + 1
    /\ Disturbs
    /\ UNCHANGED <<free_function, setting, heap, handler, default, pc, func, ptr>>

SetMalloc(s) ==
    /\ ~ Aborted /\ switch = NULL /\ switches < MaxSwitches
    /\ malloc_function' = s[1]
    /\ switch' = s
    /\ switches' = switches + 1
    /\ Disturbs
    /\ UNCHANGED <<free_function, setting, heap, handler, default, pc, func, ptr>>

SetFree ==
    /\ ~ Aborted /\ switch # NULL
    /\ free_function' = switch[2]
    /\ setting' = switch
    /\ switch' = NULL
    /\ Disturbs
    /\ UNCHANGED <<malloc_function, heap, switches, handler, default, pc, func, ptr>>

-----------------------------------------------------------------------------
(* _ssm_malloc(): malloc_function is read to compare it, then to use it.   *)

MallocTest(t) ==
    /\ pc[t] = "idle"
    /\ IF malloc_function # NULL
       THEN Goes(t, "malloc_use") /\ UNCHANGED func
       ELSE Calls(t, default.malloc, "in_malloc", "no_malloc")
    /\ Starts(t)
    /\ UNCHANGED <<functions, heap, handler, default, ptr>>

\* Mutant: the function is read until there is one
MallocUseSpins(t) ==
    /\ pc[t] = "malloc_use"
    /\ IF malloc_function = NULL THEN UNCHANGED <<pc, func>>
       ELSE Calls(t, malloc_function, "in_malloc", "no_malloc")
    /\ UNCHANGED <<functions, heap, handler, default, disturbed, ptr>>

MallocUse(t) ==
    /\ pc[t] = "malloc_use"
    /\ Calls(t, malloc_function, "in_malloc", "no_malloc")
    /\ UNCHANGED <<functions, heap, handler, default, disturbed, ptr>>

\* The function has no memory, or there is no function: _ssm_malloc() is NULL
MallocFails(t) ==
    /\ pc[t] \in {"in_malloc", "no_malloc"}
    /\ Ends(t)
    /\ UNCHANGED <<functions, heap, handler, default>>

MallocReturns(t, a) ==
    /\ pc[t] = "in_malloc" /\ a \in Areas \ DOMAIN heap
    /\ heap' = [x \in DOMAIN heap \cup {a} |->
                   IF x = a THEN [holder |-> t, by |-> func[t]] ELSE heap[x]]
    /\ Goes(t, "idle")
    /\ func' = [func EXCEPT ![t] = NULL]
    /\ disturbed' = (disturbed \ {t}) \cup (IF t \in disturbed THEN {a} ELSE {})
    /\ UNCHANGED <<functions, handler, default, ptr>>

-----------------------------------------------------------------------------
(* _ssm_free(), of an area the thread holds or of a null pointer.          *)

\* Mutant: the default function is forgotten
FreeTestWithoutDefault(t, p) ==
    /\ pc[t] = "idle" /\ p # NULL
    /\ heap[p].holder = t
    /\ Goes(t, "free_use")
    /\ ptr' = [ptr EXCEPT ![t] = p]
    /\ Starts(t)
    /\ UNCHANGED <<functions, heap, handler, default, func>>

\* Nothing is done with a null pointer
FreeTest(t, p) ==
    /\ pc[t] = "idle"
    /\ IF p = NULL THEN UNCHANGED <<pc, func, ptr, disturbed>>
       ELSE /\ heap[p].holder = t
            /\ IF free_function # NULL
               THEN Goes(t, "free_use") /\ UNCHANGED func
               ELSE Calls(t, default.free, "in_free", "no_free")
            /\ ptr' = [ptr EXCEPT ![t] = p]
            /\ Starts(t)
    /\ UNCHANGED <<functions, heap, handler, default>>

FreeUse(t) ==
    /\ pc[t] = "free_use"
    /\ Calls(t, free_function, "in_free", "no_free")
    /\ UNCHANGED <<functions, heap, handler, default, disturbed, ptr>>

FreeReturns(t) ==
    /\ pc[t] = "in_free"
    /\ heap' = [x \in DOMAIN heap \ {ptr[t]} |-> heap[x]]
    /\ Ends(t)
    /\ UNCHANGED <<functions, handler, default>>

\* Without a function the area is lost: it stays allocated and nobody holds it
FreeLoses(t) ==
    /\ pc[t] = "no_free"
    /\ heap' = [heap EXCEPT ![ptr[t]].holder = NULL]
    /\ Ends(t)
    /\ UNCHANGED <<functions, handler, default>>

-----------------------------------------------------------------------------
(* _ssm_set_canary_corrupted_handler() and _ssm_canary_corruption().       *)

Exchanging == {t \in Threads : pc[t] = "exchange"}

\* h is a handler, or NULL to have the default one back
ReadPrevious(t, h) ==
    /\ pc[t] = "idle" /\ h \notin installed
    /\ func' = [func EXCEPT ![t] = corrupted_handler]
    /\ ptr' = [ptr EXCEPT ![t] = h]
    /\ installed' = installed \cup ({h} \ {NULL})
    /\ overlapped' = (overlapped \/ Exchanging # {})
    /\ Goes(t, "exchange")
    /\ UNCHANGED <<functions, heap, disturbed, corrupted_handler, replaced, default>>

\* Mutant: the handler is set before the previous one is read
SetHandlerThenRead(t) ==
    /\ pc[t] = "exchange"
    /\ corrupted_handler' = ptr[t]
    /\ replaced' = replaced \cup {ptr[t]}
    /\ Ends(t)
    /\ UNCHANGED <<functions, heap, installed, overlapped, default>>

SetHandler(t) ==
    /\ pc[t] = "exchange"
    /\ corrupted_handler' = ptr[t]
    /\ replaced' = replaced \cup {func[t]}
    /\ Ends(t)
    /\ UNCHANGED <<functions, heap, installed, overlapped, default>>

\* A check has found a corruption.  The handler is read once.
ReadHandler(t) ==
    /\ pc[t] = "idle"
    /\ func' = [func EXCEPT ![t] = IF corrupted_handler = NULL THEN DefaultHandler
                                   ELSE corrupted_handler]
    /\ Goes(t, "in_handler")
    /\ UNCHANGED <<functions, heap, disturbed, handler, default, ptr>>

\* The default handler prints a message, and aborts but in the kernel
HandlerReturns(t) ==
    /\ pc[t] = "in_handler"
    /\ IF func[t] = DefaultHandler /\ default.aborts
       THEN pc' = [x \in Threads |-> "aborted"] /\ UNCHANGED <<func, ptr, disturbed>>
       ELSE Ends(t)
    /\ UNCHANGED <<functions, heap, handler, default>>

-----------------------------------------------------------------------------
Init ==
    /\ malloc_function = NULL /\ free_function = NULL
    /\ corrupted_handler = NULL
    /\ default \in Defaults
    /\ pc = [t \in Threads |-> "idle"]
    /\ func = [t \in Threads |-> NULL] /\ ptr = [t \in Threads |-> NULL]
    /\ switch = NULL /\ setting = <<NULL, NULL>> /\ switches = 0
    /\ heap = [a \in {} |-> NULL]
    /\ disturbed = {} /\ installed = {} /\ replaced = {} /\ overlapped = FALSE

\* The steps of a call that has started
Continue(t) ==
    \/ MallocUse(t) \/ MallocFails(t) \/ \E a \in Areas : MallocReturns(t, a)
    \/ FreeUse(t) \/ FreeReturns(t) \/ FreeLoses(t)
    \/ SetHandler(t) \/ HandlerReturns(t)

Next ==
    \/ \E s \in Settings : SetMalloc(s)
    \/ SetFree
    \/ \E t \in Threads :
          \/ MallocTest(t)
          \/ \E p \in DOMAIN heap \cup {NULL} : FreeTest(t, p)
          \/ \E h \in Handlers \cup {NULL} : ReadPrevious(t, h)
          \/ ReadHandler(t)
          \/ Continue(t)
    \/ Aborted /\ UNCHANGED vars

\* A thread in the middle of a call goes on, and the functions of the
\* application return
Spec == Init /\ [][Next]_vars /\ \A t \in Threads : WF_vars(Continue(t))

-----------------------------------------------------------------------------
(* Properties.                                                             *)

\* Although the functions may change between the test and the use, the library
\* never calls a null function, and it never frees a null pointer
\* (ssm_common.texi: "The SSM library never invokes the free function with a
\* NULL pointer").
CallsFunctions ==
    \A t \in Threads :
        /\ pc[t] \in {"in_malloc", "in_free", "in_handler"} => func[t] # NULL
        /\ pc[t] = "in_free" => ptr[t] # NULL

\* The functions of a setting, the defaults of the build included
Effective(s) == <<IF s[1] = NULL THEN default.malloc ELSE s[1],
                  IF s[2] = NULL THEN default.free ELSE s[2]>>

Undisturbed(t) == {t, ptr[t]} \cap disturbed = {}

\* An area whose life no switch overlaps is made and freed by the two functions
\* of one setting, the last one: a switch sets them one after the other, and
\* null ones set the defaults ("If any of the parameters is NULL, then the
\* library reverts to the corresponding default").
FreedByItsPartner ==
    \A t \in Threads :
        pc[t] = "in_free" /\ Undisturbed(t) =>
            <<heap[ptr[t]].by, func[t]>> = Effective(setting)

\* No allocation fails without having been tried and no area is lost, as long
\* as no switch overlaps, unless the build has no default function and none is set.
LostOnlyInSwitch ==
    \A t \in Threads : Undisturbed(t) =>
        /\ pc[t] = "no_malloc" => Effective(setting)[1] = NULL
        /\ pc[t] = "no_free" => Effective(setting)[2] = NULL

\* As long as no two exchanges overlap, no handler is lost, also when the default
\* one (NULL) is set again: each one that was set is in place or has been given
\* back, and so is the default.
NoHandlerLost ==
    ~ Aborted /\ ~ overlapped /\ Exchanging = {} =>
        replaced \cup {corrupted_handler} = installed \cup {NULL}

\* Every call ends, with the program when it is aborted: it waits for nobody.
CallsEnd == \A t \in Threads : pc[t] # "idle" ~> pc[t] \in {"idle", "aborted"}

=============================================================================
