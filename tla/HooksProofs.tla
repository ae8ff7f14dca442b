---------------------------- MODULE HooksProofs ----------------------------
(***************************************************************************)
(* What threads that share the hooks of the library may rely on, for any   *)
(* number of threads, areas, settings and handlers.                        *)
(***************************************************************************)
EXTENDS Hooks, TLAPS

Functions ==
    {NULL, DefaultHandler} \cup Handlers
      \cup {s[1] : s \in Settings} \cup {s[2] : s \in Settings}
      \cup {d.malloc : d \in Defaults} \cup {d.free : d \in Defaults}

InMalloc == {"malloc_use", "in_malloc", "no_malloc"}
InFree == {"free_use", "in_free", "no_free"}
Places == {"idle", "exchange", "in_handler", "aborted"} \cup InMalloc \cup InFree

\* The types of the variables.
Types ==
    /\ malloc_function \in Functions /\ free_function \in Functions
    /\ corrupted_handler \in Handlers \cup {NULL}
    /\ default \in Defaults
    /\ switch \in Settings \cup {NULL}
    /\ pc \in [Threads -> Places]
    /\ func \in [Threads -> Functions]
    /\ ptr \in [Threads -> Areas \cup Handlers \cup {NULL}]
    /\ DOMAIN heap \subseteq Areas
    /\ heap \in [DOMAIN heap -> [holder : Threads \cup {NULL}, by : Functions]]

\* What a thread keeps in ptr: the area it is freeing, which it holds, the
\* handler it is setting, or nothing.
Pointers ==
    \A t \in Threads :
        /\ pc[t] \in InFree => ptr[t] \in DOMAIN heap /\ heap[ptr[t]].holder = t
        /\ pc[t] = "exchange" => ptr[t] \in Handlers \cup {NULL}
        /\ pc[t] \in {"idle", "in_handler"} \cup InMalloc => ptr[t] = NULL

\* A thread calls a function that is not null.
Callees ==
    \A t \in Threads : pc[t] \in {"in_malloc", "in_free", "in_handler"} => func[t] # NULL

AllAborted == Aborted => \A t \in Threads : pc[t] = "aborted"

\* The invariant on the calls of the threads.
CInv == Types /\ Pointers /\ Callees /\ AllAborted

-----------------------------------------------------------------------------
\* The defaults of the builds and the functions of a setting are functions.
LEMMA KnownFunctions ==
    /\ NULL \in Functions /\ DefaultHandler \in Functions /\ Handlers \subseteq Functions
    /\ \A s \in Settings : s[1] \in Functions /\ s[2] \in Functions
    /\ \A d \in Defaults : d.malloc \in Functions /\ d.free \in Functions
  BY DEF Functions

\* The calls of the threads begin well.
LEMMA CInit == Init => CInv
  BY KnownFunctions DEF Init, CInv, Types, Pointers, Callees, AllAborted, Aborted, Places,
     InMalloc, InFree

\* The types survive every step.
LEMMA TypesStep == CInv /\ [Next]_vars => Types'
  <1> SUFFICES ASSUME CInv, [Next]_vars PROVE Types'
    OBVIOUS
  <1> USE KnownFunctions DEF CInv, Types, functions, handler, Goes, Ends, Places, InMalloc, InFree
  <1>1. ASSUME NEW s \in Settings, SetMalloc(s) PROVE Types'
    BY <1>1 DEF SetMalloc, Disturbs
  <1>2. CASE SetFree
    BY <1>2 DEF SetFree, Disturbs
  <1>3. ASSUME NEW t \in Threads, MallocTest(t) PROVE Types'
    BY <1>3 DEF MallocTest, Calls
  <1>4. ASSUME NEW t \in Threads, NEW p \in DOMAIN heap \cup {NULL}, FreeTest(t, p) PROVE Types'
    BY <1>4 DEF FreeTest, Calls
  <1>5. ASSUME NEW t \in Threads, NEW h \in Handlers \cup {NULL}, ReadPrevious(t, h) PROVE Types'
    BY <1>5 DEF ReadPrevious
  <1>6. ASSUME NEW t \in Threads, ReadHandler(t) PROVE Types'
    BY <1>6 DEF ReadHandler
  <1>7. ASSUME NEW t \in Threads, Continue(t) PROVE Types'
    <2>1. CASE MallocUse(t)
      BY <2>1 DEF MallocUse, Calls
    <2>2. CASE MallocFails(t)
      BY <2>2 DEF MallocFails
    <2>3. ASSUME NEW a \in Areas, MallocReturns(t, a) PROVE Types'
      BY <2>3 DEF MallocReturns
    <2>4. CASE FreeUse(t)
      BY <2>4 DEF FreeUse, Calls
    <2>5. CASE FreeReturns(t)
      BY <2>5 DEF FreeReturns
    <2>6. CASE FreeLoses(t)
      BY <2>6 DEF FreeLoses
    <2>7. CASE SetHandler(t)
      BY <2>7 DEF SetHandler, Pointers
    <2>8. CASE HandlerReturns(t)
      BY <2>8 DEF HandlerReturns
    <2> QED
      BY <1>7, <2>1, <2>2, <2>3, <2>4, <2>5, <2>6, <2>7, <2>8 DEF Continue
  <1>8. CASE UNCHANGED vars
    BY <1>8 DEF vars
  <1> QED
    BY <1>1, <1>2, <1>3, <1>4, <1>5, <1>6, <1>7, <1>8 DEF Next

\* A program that is aborted makes no step.
LEMMA AbortedStops == CInv /\ Aborted /\ [Next]_vars => UNCHANGED vars
  BY DEF CInv, AllAborted, Aborted, Next, Continue, SetMalloc, SetFree, MallocTest, MallocUse,
     MallocFails, MallocReturns, FreeTest, FreeUse, FreeReturns, FreeLoses, ReadPrevious,
     SetHandler, ReadHandler, HandlerReturns, Types

\* What the threads keep and call survives every step.
LEMMA CallsStep == CInv /\ [Next]_vars => Pointers' /\ Callees' /\ AllAborted'
  <1> SUFFICES ASSUME CInv, [Next]_vars PROVE Pointers' /\ Callees' /\ AllAborted'
    OBVIOUS
  <1> DEFINE Goal == Pointers' /\ Callees' /\ AllAborted'
  <1> USE HooksAssumption
        DEF CInv, Types, Pointers, Callees, AllAborted, Aborted, functions, handler, Goes, Ends,
            Places, InMalloc, InFree
  <1>1. ASSUME NEW s \in Settings, SetMalloc(s) PROVE Goal
    BY <1>1 DEF SetMalloc
  <1>2. CASE SetFree
    BY <1>2 DEF SetFree
  <1>3. ASSUME NEW t \in Threads, MallocTest(t) PROVE Goal
    BY <1>3 DEF MallocTest, Calls
  <1>4. ASSUME NEW t \in Threads, NEW p \in DOMAIN heap \cup {NULL}, FreeTest(t, p) PROVE Goal
    BY <1>4 DEF FreeTest, Calls
  <1>5. ASSUME NEW t \in Threads, NEW h \in Handlers \cup {NULL}, ReadPrevious(t, h) PROVE Goal
    BY <1>5 DEF ReadPrevious
  <1>6. ASSUME NEW t \in Threads, ReadHandler(t) PROVE Goal
    BY <1>6 DEF ReadHandler
  <1>7. ASSUME NEW t \in Threads, Continue(t) PROVE Goal
    <2>1. CASE MallocUse(t)
      BY <2>1 DEF MallocUse, Calls
    <2>2. CASE MallocFails(t)
      BY <2>2 DEF MallocFails
    <2>3. ASSUME NEW a \in Areas, MallocReturns(t, a) PROVE Goal
      BY <2>3 DEF MallocReturns
    <2>4. CASE FreeUse(t)
      BY <2>4 DEF FreeUse, Calls
    <2>5. CASE FreeReturns(t)
      BY <2>5 DEF FreeReturns
    <2>6. CASE FreeLoses(t)
      BY <2>6 DEF FreeLoses
    <2>7. CASE SetHandler(t)
      BY <2>7 DEF SetHandler
    <2>8. CASE HandlerReturns(t)
      BY <2>8 DEF HandlerReturns
    <2> QED
      BY <1>7, <2>1, <2>2, <2>3, <2>4, <2>5, <2>6, <2>7, <2>8 DEF Continue
  <1>8. CASE UNCHANGED vars
    BY <1>8 DEF vars
  <1> QED
    BY <1>1, <1>2, <1>3, <1>4, <1>5, <1>6, <1>7, <1>8 DEF Next

LEMMA CInvariant == Spec => []CInv
  <1>1. CInv /\ [Next]_vars => CInv'
    BY TypesStep, CallsStep DEF CInv
  <1> QED
    BY CInit, <1>1, PTL DEF Spec

\* Whatever the threads that switch the functions and exchange the handlers do
\* between a test and a call, no null function is called and no null pointer freed.
THEOREM NeverCallsNull == Spec => []CallsFunctions
  <1>1. CInv => CallsFunctions
    <2> SUFFICES ASSUME CInv, NEW t \in Threads
                 PROVE  /\ pc[t] \in {"in_malloc", "in_free", "in_handler"} => func[t] # NULL
                        /\ pc[t] = "in_free" => ptr[t] # NULL
      BY DEF CallsFunctions
    <2>1. pc[t] = "in_free" => ptr[t] \in Areas
      BY DEF CInv, Types, Pointers, InFree
    <2> QED
      BY <2>1, HooksAssumption DEF CInv, Callees
  <1> QED
    BY CInvariant, <1>1, PTL

-----------------------------------------------------------------------------
(* Exchanges of the handler.                                               *)

\* Between its two steps an exchange that overlaps no other one holds, in func,
\* the handler in place: this and the handler it sets complete the account.
Account ==
    ~ Aborted /\ ~ overlapped =>
        /\ \A t, u \in Threads : pc[t] = "exchange" /\ pc[u] = "exchange" => t = u
        /\ (\A t \in Threads : pc[t] # "exchange") =>
               replaced \cup {corrupted_handler} = installed \cup {NULL}
        /\ \A t \in Threads : pc[t] = "exchange" =>
               replaced \cup {func[t], ptr[t]} = installed \cup {NULL}

LEMMA AccountInit == Init => Account
  BY DEF Init, Account

\* The account survives every step.
LEMMA AccountStep == CInv /\ Account /\ [Next]_vars => Account'
  <1> SUFFICES ASSUME CInv, Account, [Next]_vars PROVE Account'
    OBVIOUS
  <1>0. CASE UNCHANGED vars
    BY <1>0 DEF vars, handler, Account, Aborted
  <1>a. CASE Aborted
    BY <1>0, <1>a, AbortedStops
  <1> SUFFICES ASSUME ~ Aborted, Next PROVE Account'
    BY <1>0, <1>a
  <1> USE DEF CInv, Types, Account, Aborted, functions, handler, Goes, Ends, Places, InMalloc, InFree
  <1>1. ASSUME NEW s \in Settings, SetMalloc(s) PROVE Account'
    BY <1>1 DEF SetMalloc
  <1>2. CASE SetFree
    BY <1>2 DEF SetFree
  <1>3. ASSUME NEW t \in Threads, MallocTest(t) PROVE Account'
    BY <1>3 DEF MallocTest, Calls
  <1>4. ASSUME NEW t \in Threads, NEW p \in DOMAIN heap \cup {NULL}, FreeTest(t, p) PROVE Account'
    BY <1>4 DEF FreeTest, Calls
  <1>5. ASSUME NEW t \in Threads, NEW h \in Handlers \cup {NULL}, ReadPrevious(t, h) PROVE Account'
    <2>1. ~ overlapped' => ~ overlapped /\ \A u \in Threads : pc[u] # "exchange"
      BY <1>5 DEF ReadPrevious, Exchanging
    <2> QED
      BY <1>5, <2>1 DEF ReadPrevious
  <1>6. ASSUME NEW t \in Threads, ReadHandler(t) PROVE Account'
    BY <1>6 DEF ReadHandler
  <1>7. ASSUME NEW t \in Threads, Continue(t) PROVE Account'
    <2>1. CASE MallocUse(t)
      BY <2>1 DEF MallocUse, Calls
    <2>2. CASE MallocFails(t)
      BY <2>2 DEF MallocFails
    <2>3. ASSUME NEW a \in Areas, MallocReturns(t, a) PROVE Account'
      BY <2>3 DEF MallocReturns
    <2>4. CASE FreeUse(t)
      BY <2>4 DEF FreeUse, Calls
    <2>5. CASE FreeReturns(t)
      BY <2>5 DEF FreeReturns
    <2>6. CASE FreeLoses(t)
      BY <2>6 DEF FreeLoses
    <2>7. CASE SetHandler(t)
      BY <2>7 DEF SetHandler
    <2>8. CASE HandlerReturns(t)
      BY <2>8 DEF HandlerReturns
    <2> QED
      BY <1>7, <2>1, <2>2, <2>3, <2>4, <2>5, <2>6, <2>7, <2>8 DEF Continue
  <1> QED
    BY <1>1, <1>2, <1>3, <1>4, <1>5, <1>6, <1>7 DEF Next

\* However many handlers the threads of a program set, in turn, none is lost: each
\* is in place or was given back to the application.
THEOREM KeepsHandlers == Spec => []NoHandlerLost
  <1>1. CInv /\ Account /\ [Next]_vars => Account'
    BY AccountStep
  <1>2. Account => NoHandlerLost
    BY DEF Account, NoHandlerLost, Exchanging
  <1> QED
    BY CInvariant, AccountInit, <1>1, <1>2, PTL DEF Spec

-----------------------------------------------------------------------------
(* Switches of the functions.                                              *)

\* A switch that is half done has disturbed every call and every area in use.
HalfDone ==
    switch # NULL =>
        /\ malloc_function = switch[1]
        /\ \A t \in Threads : pc[t] \in InMalloc \cup InFree => t \in disturbed
        /\ \A a \in DOMAIN heap : heap[a].holder # NULL => a \in disturbed

\* Otherwise the functions in place are those of the last setting.
Set == switch = NULL => malloc_function = setting[1] /\ free_function = setting[2]

EffectiveMalloc == IF setting[1] = NULL THEN default.malloc ELSE setting[1]
EffectiveFree == IF setting[2] = NULL THEN default.free ELSE setting[2]

\* A call no switch has disturbed goes by the last setting, and so do the areas.
Consequent ==
    /\ \A t \in Threads : t \notin disturbed =>
          /\ pc[t] = "malloc_use" => setting[1] # NULL
          /\ pc[t] = "free_use" => setting[2] # NULL
          /\ pc[t] \in {"in_malloc", "no_malloc"} => func[t] = EffectiveMalloc
          /\ pc[t] \in {"in_free", "no_free"} => func[t] = EffectiveFree
          /\ pc[t] \in {"no_malloc", "no_free"} => func[t] = NULL
    /\ \A a \in DOMAIN heap :
          heap[a].holder # NULL /\ a \notin disturbed => heap[a].by = EffectiveMalloc

SInv == HalfDone /\ Set /\ Consequent

LEMMA SInit == Init => SInv
  BY DEF Init, SInv, HalfDone, Set, Consequent, InMalloc, InFree

\* The effect of the switches survives every step.
LEMMA SStep == CInv /\ SInv /\ [Next]_vars => SInv'
  <1> SUFFICES ASSUME CInv, SInv, [Next]_vars PROVE SInv'
    OBVIOUS
  <1> USE HooksAssumption
        DEF CInv, Types, Pointers, SInv, HalfDone, Set, Consequent, EffectiveMalloc, EffectiveFree,
            functions, handler, Goes, Ends, Places, InMalloc, InFree
  <1>1. ASSUME NEW s \in Settings, SetMalloc(s) PROVE SInv'
    BY <1>1 DEF SetMalloc, Disturbs
  <1>2. CASE SetFree
    BY <1>2 DEF SetFree, Disturbs
  <1>3. ASSUME NEW t \in Threads, MallocTest(t) PROVE SInv'
    BY <1>3 DEF MallocTest, Calls, Starts
  <1>4. ASSUME NEW t \in Threads, NEW p \in DOMAIN heap \cup {NULL}, FreeTest(t, p) PROVE SInv'
    BY <1>4 DEF FreeTest, Calls, Starts
  <1>5. ASSUME NEW t \in Threads, NEW h \in Handlers \cup {NULL}, ReadPrevious(t, h) PROVE SInv'
    BY <1>5 DEF ReadPrevious
  <1>6. ASSUME NEW t \in Threads, ReadHandler(t) PROVE SInv'
    BY <1>6 DEF ReadHandler
  <1>7. ASSUME NEW t \in Threads, Continue(t) PROVE SInv'
    <2>1. CASE MallocUse(t)
      BY <2>1 DEF MallocUse, Calls
    <2>2. CASE MallocFails(t)
      BY <2>2 DEF MallocFails
    <2>3. ASSUME NEW a \in Areas, MallocReturns(t, a) PROVE SInv'
      BY <2>3 DEF MallocReturns
    <2>4. CASE FreeUse(t)
      BY <2>4 DEF FreeUse, Calls
    <2>5. CASE FreeReturns(t)
      BY <2>5 DEF FreeReturns
    <2>6. CASE FreeLoses(t)
      BY <2>6 DEF FreeLoses
    <2>7. CASE SetHandler(t)
      BY <2>7 DEF SetHandler
    <2>8. CASE HandlerReturns(t)
      BY <2>8 DEF HandlerReturns
    <2> QED
      BY <1>7, <2>1, <2>2, <2>3, <2>4, <2>5, <2>6, <2>7, <2>8 DEF Continue
  <1>8. CASE UNCHANGED vars
    BY <1>8 DEF vars
  <1> QED
    BY <1>1, <1>2, <1>3, <1>4, <1>5, <1>6, <1>7, <1>8 DEF Next

LEMMA SInvariant == Spec => [](CInv /\ SInv)
  <1>1. CInv /\ SInv /\ [Next]_vars => SInv'
    BY SStep
  <1> QED
    BY CInvariant, SInit, <1>1, PTL DEF Spec

\* An area that no switch overlaps goes back to the partner of the function that
\* made it.
THEOREM PartnersMeet == Spec => []FreedByItsPartner
  <1>1. CInv /\ SInv => FreedByItsPartner
    BY HooksAssumption DEF CInv, Types, Pointers, SInv, Consequent, EffectiveMalloc,
       EffectiveFree, FreedByItsPartner, Effective, Undisturbed, InFree
  <1> QED
    BY SInvariant, <1>1, PTL

\* Only a switch can make an allocation fail untried, or an area be lost, in a
\* program that has the functions.
THEOREM LosesOnlyInSwitch == Spec => []LostOnlyInSwitch
  <1>1. SInv => LostOnlyInSwitch
    BY DEF SInv, Consequent, EffectiveMalloc, EffectiveFree, LostOnlyInSwitch, Effective,
       Undisturbed
  <1> QED
    BY SInvariant, <1>1, PTL

=============================================================================
