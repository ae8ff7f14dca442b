# Safe String and Memory library: models and proofs

TLA+ models of the SSM library (`src/`, C), the TLC configurations that check
them, and proofs that TLAPS checks. Paths below are those of the repository.

## The system

The library gives C programs strings and memory buffers that know their size.
It has no thread, no I/O and no lock, and one state of its own: the memory
management functions and the corruption handler, which the threads of a program
share. A program calls it; each call returns a
status: a success (`SSM_OK`, `SSM_TRUNCATED`, ...), a non-fatal error or a fatal
one (`src/include/ssm.h`). It is built in two variants side by side: plain, and
with *canaries*, words written around the data that each call checks.

| Component | State | Operations |
|---|---|---|
| Static buffers and strings (`ssm_sbuffer_*`, `ssm_sstring_*`) | a structure with its area inside: header canary, `_maxSize`, `_curSize`, data, terminator, trailing canary | import, copy, concat, resize, insert, set_range, set, compare, accessors |
| Dynamic buffers and strings (`ssm_dbuffer_*`, `ssm_dstring_*`) | a structure with two canaries, `_maxSize`, `_curSize`, `_data`, and an area in the heap with two canaries | the same, and free |
| Allocation (`ssm_dbuffer_alloc.c`, `ssm_alloc_size.c`) | the area of a dynamic buffer | reallocate for a length, keeping the content or not |
| Canary checks (`ssm_*_check*.c`) | the canaries | check an input, check an output (which sets up the canaries of a static buffer never written before) |
| Memory primitives (`ssm_copy.c`, `ssm_set.c`, `ssm_compare.c`, `ssm_cstring_length.c`) | none | word-at-a-time loops taken from glibc |
| Memory management hooks (`ssm_memory_management.c`) | two function pointers | switch, allocate, free |
| Corruption handler (`ssm_canary_corruption.c`) | a function pointer | exchange, report |
| C11 functions (`ssm_*_s.c`) | none | `memmove_s`, `strcpy_s`, ... over the primitives |

A string is the buffer of the same kind plus imports that look for a null byte.
Every operation on an object checks it, asks the allocation for room (dynamic
objects), moves bytes with `ssm_copy()` or `ssm_set()`, and writes the length and
the terminator again. Components share memory and nothing else: the area of a
buffer, and the structure of a source that may be the destination itself.

What is hard here, and where:

- **Layout arithmetic.** The size asked from `malloc()`, the room given to
  `ssm_copy()`, the place of the terminator and that of the trailing canary are
  written out separately in every function, for both variants.
- **Long sequences.** Areas are reallocated under a policy with a shrink
  threshold and doubling; canaries of static buffers appear at the first write;
  an area must have one owner after any sequence of calls, failed ones included.
- **Aliasing.** `concat(b, b)` reads its source through a structure the
  reallocation has just changed.
- **Failure in the middle.** No memory; a corrupted source after the destination
  was checked; a copy that truncates inside a reallocation.
- **Overruns.** Code outside the library may spoil guards at any time; the
  library must go on seeing it and keep its hands off the object.
- **Numeric edges.** Exact fits, sizes near `SSM_SIZE_MAX`, products that wrap.
- **Word loops.** Alignment, overlap, unrolling, registers that run ahead of the
  stores, words read past a bound, words that differ compared byte by byte.
- **Shared hooks.** Functions and handlers that another thread changes between a
  test and a use, or between two areas.
- **Error paths of the C11 functions.** Each clears or ends its destination under
  conditions of its own, tested in an order of its own.

`PROJECT.json` lists each of these hazards with its line and the properties that
cover it. Four have none, because the code promises nothing of them: an import from
the buffer's own data, areas that buffers hold across a switch of the memory
management functions, exchanges of handlers that overlap, and an address that the
application keeps across a call.

## The modules

| Module | Models |
|---|---|
| `SSMCommon` | status values, memory cells, the effect of `ssm_set()` (`Fill`) and of `ssm_copy()` (`Move`, `CopyStatus`, `CopiedSize`) |
| `AllocPolicy` | `_ssm_alloc_size()` on a `size_t` of `SizeT` values |
| `AllocWalk` | the policy over the requests one buffer makes in its life |
| `DBuffer` | dynamic buffers and strings, byte by byte, with heap, canaries, failing allocator, overruns |
| `DynamicObject` | what dynamic objects promise: byte sequences |
| `SBuffer` | static buffers and strings, byte by byte, with lazy canaries and overruns |
| `BoundedObject` | what static objects promise: byte sequences of bounded length |
| `WordAccess` | addresses, alignment, words and the merge of two of them |
| `WordCopy`, `WordSet`, `CStringLength`, `WordCompare` | `ssm_copy()`, `ssm_set()`, `ssm_cstring_length()`, `ssm_compare()`, one load or store at a time |
| `WordLoops` | one call of one of the four primitives |
| `Hooks` | threads that allocate, free, report corruptions, switch the memory management functions and exchange the corruption handler |
| `C11` | the `_s` functions on a memory of bytes |
| `MemoryProofs` | lemmas about `Move`, `Fill` and the status values, which the proofs about the buffers share |
| `AllocProofs`, `DBufferProofs`, `SBufferProofs`, `HooksProofs` | theorems about `AllocWalk`, `DBuffer`, `SBuffer` and `Hooks` |
| `SBufferRefinement` | the proof that `SBuffer` implements `BoundedObject` |
| `WordProofs` | theorems about `WordLoops` |
| `MCDBuffer`, `MCSBuffer`, `MCWordLoops`, `MCHooks`, `MCC11` | small instances for TLC |

`DBuffer` extends `AllocPolicy`; the buffers and `C11` extend `SSMCommon`. `DBuffer`
and `SBuffer` are each shown to implement their abstract module through a
refinement mapping, `value <- [b \in Bufs |-> Content(b)]`, where `Content` is what
the accessors of a sound object show. The buffers and `C11` take `ssm_copy()`,
`ssm_set()` and `ssm_cstring_length()` for one atomic effect on bytes (`Move`, `Fill`,
`IsStringLength`, `strnlen`); `MovesLikeMemmove`, `SetsLikeMemset` and
`FindsFirstNull` say of the loops that this is what they do.

### How state and actions correspond to the code

- **Memory.** An area is a function from positions to cells: bytes, tokens for
  the cells of the three canaries (one token per cell of a canary; the checks
  only compare whole canaries), or `Undef` for what `malloc()` left there. A store
  outside an area enlarges its domain, a load outside yields `Stray`, so an access
  out of bounds is seen by `InBounds` (`DBuffer`) and `TypeOK` (`SBuffer`).
- **Variants.** `CanarySize = 0` is the build without canaries: every formula of
  the code uses `_SSM_CANARY_SIZE`, which is 0 there. The passing runs of the buffers
  have canaries, which add cells to every layout; the theorems are for any
  `CanarySize`, and three violation runs are on the build without.
- **`buf`** holds the structures, field by field; **`heap`** the allocated areas.
  `malloc()` returns any free address or fails (`AllocOutcomes`).
- **A call is one action.** The library is sequential and an application that
  shares an object between threads has to lock, so the steps of a call are
  visible to nobody. Inside the action, the steps of the code are operators
  applied in its order (check, allocate, copy, terminate), each carrying the
  structure and the heap the next one reads: `AllocOutcomes`, `CopyTo`, `Terminate`.
- **Early returns** are the guards in the order of the code, null objects in
  `NullObject`, null sources as `NULL` or as a source of length 0.
- **`last`, `args` and `damaged` are history**: the last call, its object,
  arguments and status, and the objects overrun. No action but `Overrun` itself
  reads them; the TLC view leaves out the first two.
- **The accessors** change nothing: they are state functions (`ShownBytes`,
  `ShownLength`, `ShownMaxLength`), each with its own check, as in the code.
- **In the buffers the corruption handler** returns. The default one aborts the program, after
  which there is nothing to say; a handler that returns is when the code goes on.
- **Overruns** are the application's: one store, once per object, on a cell of
  a guard or on a canary of a structure. Stores on content or free space are
  those no check can notice, and are left out.
- **The word loops** share a memory and a program counter (`WordLoops`). Each label
  `doN` of the unrolled loops is one step, a load before the store of an earlier
  word, with the registers and the two pointers as in the code. The switch that
  jumps into a loop is one formula over its cases. The two directions of a copy and
  the two kinds of loop are the same actions under `Backward` and `Merging`. The test
  of `ssm_cstring_length()` on the bits of a word is modelled by its borrows: `& ~word`
  rules out bytes of 0x80 or more, and a byte of 1 after a null byte may look
  like one, since it receives the borrow; the bytes of the word are then looked
  at one by one as in the code.
- **`Hooks`** has one action for each access to a volatile variable: `MallocTest` reads
  `malloc_function` to compare it, `MallocUse` reads it again to call it,
  `MallocFails` and `MallocReturns` are the two ends of the function called; the same
  for `_ssm_free()`; `SetMalloc` and `SetFree` are the two assignments of
  `ssm_set_memory_management()`, which one thread calls at a time; `ReadPrevious` and
  `SetHandler` those of an exchange of handlers, which several threads may be in, and
  which sets a handler or has the default one back (`NULL`).
  `func` and `ptr` are the variables of the call a thread is in. The default handler
  aborts the program, but in the kernel. `setting`, `disturbed`, `installed`,
  `replaced` and `overlapped` are history: the last switch that ended, the calls and
  the areas a switch overlaps, the handlers set and given back. `installed` also keeps
  a handler from being set twice, so that each can be counted.
- **`C11`** has one memory, which the arguments of a call are areas of: they may
  overlap, be null, be too large. Each function is one action; its preconditions are
  those of C (`Fits`, `Readable`): the destination has the size it is said to have,
  and a string that is to be read up to its end has one. `Violates` collects the
  constraints of the manual. On `ssm_strncpy_s()` the manual disagrees with itself: the row
  of `s1max` asks for more than `strnlen_s(s2, s1max)` always, the row of `n` only if `n` is
  not less than `s1max`. `Violates` follows the second, as the code does;
  `C11Strncpy` shows that the code does not follow the first. `ssm_memcpy_s()` and
  `ssm_strnlen_s()` are macros for functions that are modelled. The messages of
  `ssm_strerror_s()` are a constant.
- **`AllocWalk`** adds one variable to the policy, `credit`, a history no request reads:
  two bytes for each byte the size asked for moves, less the bytes that
  reallocations have copied. It is cut at `MaxCredit`, which keeps the walk
  finite and forgets credit, so it makes `CopiesArePaid` harder to keep.

### Left out of the data

Texts are short and their values few; the arithmetic on addresses that clamps
an area at the last address is left out (no object of a program is there);
products and sums of sizes other than those of the shrink threshold stay
below 2^32 because sizes above `SSM_SIZE_MAX` = 2^31-1 are rejected first.

## What is checked

| Run | Shows |
|---|---|
| `AllocWalk` | over any sequence of requests: the area suffices, waste is bounded, reallocations copy no more than twice what the requests move, no thrashing around a boundary |
| `DBufferCanary` | two dynamic buffers with canaries: ownership of areas, bounds, guards in place, errors change nothing, damage stays visible and untouched, no false alarm, accessors that agree and show a string; they implement `DynamicObject`, aliasing, reallocation and failures included |
| `SBufferCanary` | two static buffers with canaries: bounds, canaries set up in time, damage visible and untouched, errors keep content, accessors that agree and show a string; they implement `BoundedObject` |
| `WordLoops` | `ssm_copy()` moves like `memmove()`, `ssm_set()` sets like `memset()`, `ssm_cstring_length()` finds the first null byte, `ssm_compare()` orders like `memcmp()` and then by length; stores fall in the destination only, words that are loaded touch the source, every call ends |
| `Hooks` | whatever overlaps: no null function called, no null pointer freed, every call ends; without a switch that overlaps: an area goes back to the partner of its maker, none is lost; without exchanges that overlap: no handler is lost, resets to the default one included |
| `C11` | a call is rejected exactly if it violates a constraint or cuts a message; after a violation it leaves its destination empty or cleared; a call that succeeds has the result of a call on areas apart, overlaps included; stores fall in the destination; a message cut short ends in periods and a terminator |

Six runs end in a violation, each of a sentence of the manual or of a comment:

| Run | The code | The text |
|---|---|---|
| `DBufferResize` | a resize far below the length stops at the room of the new area, with `SSM_TRUNCATED` | `ssm_dbuffer.texi:265`: truncated, status `SSM_OK` |
| `DBufferSizeMax` | doubling goes above `SSM_SIZE_MAX`; the next check calls the buffer corrupted, and the copy of the same call may refuse the room when the old content is gone | `ssm_common.texi:311`: never allocates more |
| `SBufferInsert` | a hole that ends exactly at the capacity reports `SSM_TRUNCATED` | `ssm_sbuffer.texi:398`: only what would exceed |
| `StrnlenBound` | `ssm_strnlen_s()` loads the word its bound falls in, up to a word less one byte past the bound; an aligned word never crosses a page | `ssm_c11k.texi:419`: accesses the first `maxsize` characters at most |
| `C11Strncpy` | `ssm_strncpy_s()` measures the source up to `n` only, and accepts a destination shorter than the source when `n` is smaller | `ssm_c11k.texi:291`: `s1max` greater than `strnlen_s(s2, s1max)` |
| `AllocWalk32` | on a 32-bit `size_t`, `100 * newSize` wraps | `ssm_alloc_size.c:33`: the larger buffer is kept |

`DynamicObject` carries the first and `BoundedObject` the third as weaker promises,
and say so.

One remark of the models contradicts no sentence. A second read of a function
pointer that finds NULL makes an allocation fail, or leaks an area, although a
default function exists; only in a race, and the manual asks to switch the
functions before any use.

### Bounds

- Dynamic buffers: contents up to `MaxLength = 2` bytes plus one size above
  `SizeMax` (the guard `Requested`), one cell for each canary, and a policy of the same
  shape as the code's: `SmallestAllocation = 4`, a threshold of 60 percent. A length of 0
  or 1 takes an area of 4; a length of 2 one of 5 if there is none, of 8 if there is
  one of 4, which doubles; an area of 8 goes back to 4 for a length of 0 or 1, one of 5
  for a length of 0, and what they hold is cut to the room; other areas are kept. So
  each of the five answers of `_ssm_alloc_size()` is given, and areas that hold something
  are reallocated: by a resize that truncates, by a concatenation of a buffer with
  itself, by an insertion; `malloc()` may fail in each. A growth to more than twice the
  area, or a shrink to more than the smallest one, needs longer contents and is left to
  `AllocWalk` and to the theorems. `SizeMax = 8` is the largest
  area reached, so the comparison of a check with the limit is at its boundary.
  Three areas for two buffers is the least at which both can hold one while one is
  replaced. Past the limit `NoFalseAlarm` fails, as `DBufferSizeMax` shows, and
  the theorem assumes `SmallRequests`. `DBufferResize` and `DBufferSizeMax` have the
  constants of the code and texts of 20 bytes.
- Static buffers: capacities 2 and 3, so that a source may be larger or smaller
  than its destination, and sizes that fit one exactly, exceed the other, or
  exceed `SizeMax`.
- Word loops: words of 4 bytes, starts of source and destination of every alignment
  and at every distance up to two words, with destinations shorter than the source
  too; lengths under a word, and those with which each of the four unrolled loops
  is entered at each label and runs for two rounds. The loops treat words as wholes,
  so words of 8 bytes only add shifts of the same form. Strings have up to two null
  bytes among bytes 1 (which pass a borrow on) and 128 (which must not be taken for one), and
  bounds below and past them. Compared areas have every alignment, the same or
  different sizes, and differ at one place, with the opposite difference after it.
- Hooks: two threads, one area, two switches among an allocator of the application,
  one with the default `free()`, and the defaults; one handler and the default one,
  which is set again any number of times; a build with defaults and one without. A
  race needs two threads and one switch; a second switch is what undoes the first. The theorems are for any number of each.
- C11: a memory of five bytes (four in `C11Strncpy`), a bound of five on sizes and one
  above it, every content of two bytes, every place of the two strings, messages
  shorter and longer than the area.
- Policy: sizes up to 60 with a wide `size_t`, up to 511 with a narrow one.
  `MaxCredit` is twice `SizeMax`, the least the theorem needs.

`CHECK_DEADLOCK FALSE`: a loop ends; a policy walk stops when an area has outgrown
`SizeMax`; an application may stop calling. `Hooks` and `C11` are checked for deadlock.

Areas are symmetric: no order on them is used. The symmetry is used with safety
properties and the safety part of a refinement only.

### Fairness

`WordLoops` has `WF_vars(Next)`: a call waits for nothing, so a processor that runs
the program takes its next step. `Hooks` has `WF_vars(Continue(t))` for each thread: a
scheduler runs the thread that is in a call, and the functions and handlers of the
application return; no fairness on switches, exchanges and new calls. Nothing in
the buffers must eventually happen: the application is free to stop.

## What is proved

**`AllocProofs`.** The inductive invariant `IInv` is the types and `Suffices`: the
area is at least what the last request asked for, which is what the next one is
answered from. `AlwaysSuffices` follows from it with no assumption on `size_t`.
`WasteIsBounded`, `DoesNotThrash` and `CopiesStayPaid` assume `Wide`, that 200
times `SizeMax` fits in `size_t` (true of 64-bit builds): then `NoWrap` removes the
modulo of `KeepsArea`, and `Threshold` and `OtherSizes` say what the policy answers.
Without `Wide`, `AllocWalk32` is a counterexample to what the comment of the code says.
`BoundedWaste` is inductive together with `IInv`. `DoesNotThrash` also needs a threshold
below 50 percent: above, a doubled area would be below it at once. `CopiesStayPaid`
is the amortized cost of the policy, by the potential `PaysFor`: at any time the credit
pays for the next growth past the end of the area, and for the next shrink below
the threshold, from the length asked for last. It needs a threshold of 25 percent at
most, half of what a doubled area is filled to.

**`SBufferProofs`.** For any set of buffers, capacities, canary size, texts and
sizes. The inductive invariant is `TypeOK /\ NoFalseAlarm /\ DamageStaysVisible`:
a call relies on the checks being right about soundness to know that its stores
stay inside (`NoFalseAlarm`), and on the checks refusing damaged objects to leave
their guards alone (`DamageStaysVisible`); types alone are not inductive. Every
operation is reduced to the same facts about the structure it leaves (`Effect`:
same outside the content, a terminator after it, the trailing canary as
`CheckedOut` left it), so one lemma closes all of them. `TypeCorrect`,
`NeverAccusesASoundBuffer`, `NeverHealsADamagedBuffer` follow as invariants;
`LeavesDamagedAlone`, `GuardsForEver` and `ErrorsKeepContent` as properties of
every step from a state of the invariant, and `ShowsAStringAlways` of the accessors.
The assumption is `SBufferAssumption`: capacities for which the whole object stays
within `SSM_SIZE_MAX`.

**`SBufferRefinement`.** `ImplementsBoundedObject`: the refinement that the run
checks on two buffers, for any number and size of them. `ContentOf` is the content of
a structure as a sequence. One lemma says that setting up the canaries keeps it;
three say how the copy, the assignment and the store of length and terminator
change it, in the terms of the abstract module (`SubSeq`, concatenation, a cut at
`Capacity`); the rest takes the operations one at a time, each to an action of
`BoundedObject` or a stutter. The invariant of `SBufferProofs` is what makes the
checks tell exactly the damaged buffers, which is how the abstract module says it.

**`DBufferProofs`.** For any set of buffers and of addresses, canary size, policy,
texts and sizes. The inductive invariant is the five invariants that `DBufferCanary`
checks: `TypeOK`, `Ownership`, `InBounds`, `IntactUnlessDamaged`, `DamageStaysVisible`.
None is inductive alone: a call writes inside its area because the area has the
size its structure says, which holds because nobody else owns it; it leaves an
intact area because it found one; and it found one because a damaged one is refused.
A call is reduced to a pair of a structure and an area, *sound* if both canaries and
the terminator are in place, *shielded* if the canaries are: each operation starts
from a sound pair and ends in one, all in between being shielded, and touches one
area at most (`Ownership` then says that the other buffers keep theirs). What needs a bound on
requests (`SmallRequests`: texts and sizes for which twice the area stays within
`SSM_SIZE_MAX`) follows from a second invariant, `Bounded`: `NeverAccusesASoundBuffer`
and `ErrorsChangeNothing`. Without it both are false, as `DBufferSizeMax` shows.

**`WordProofs`.** For any size of a word, alignment, size, memory and overlap; it
covers every property of `WordLoops` but `Terminates`. One invariant per function:

- `ssm_set()`: the bytes up to the pointer of the current loop are set and no other
  is; the word loop ends exactly at its bound because both are multiples of a word.
- `ssm_cstring_length()`: no byte before the position is null. The test of bits has
  no false negative (`NullIsSeen`): a null byte sets its own high bit whether or not
  it receives a borrow. Its false positives only cost time.
- `ssm_copy()`: the bytes on one side of the pointer are moved; those still to be
  read, on the side of the other end, are as they were at first (`UnreadIsInitial`),
  which is why the direction is chosen as it is; the registers hold the words of the
  source that the next store straddles, as far as their bytes were to be moved when
  the loop was entered: the others may have been overwritten, and no store uses
  them. `Rest` counts the stores that are left from the index of the label and `len`,
  so that the loop, entered in the middle, ends with less than a word.
- `ssm_compare()`: the bytes before the pointer are the same, or the first that
  differs has been found; the registers hold the words the next label compares.

`SetsAsMemsetDoes`, `FindsTheFirstNull`, `MovesAsMemmoveDoes` and `ComparesAsMemcmpDoes`
are what is left of these invariants at the end of a call. `StoresStayInside`: at
every label the memory outside the destination is the first one. `LoadsStayNearSource`:
a word that is loaded is straddled by a word of bytes to read, or starts with one.
The assumptions are those of the models: addresses and sizes are numbers, and the
areas compared are in the memory.


**`HooksProofs`.** For any threads, areas, settings and handlers; the assumptions
(`HooksAssumption`) only keep those sets and NULL apart. Three invariants, one on
top of another. `CInv`: types, what each thread keeps in `ptr` (the area it frees,
which it holds), and that the function it is in is not null; `NeverCallsNull` follows.
`Account`: an exchange between its two steps holds in `func` the handler that will be
given back, so that with the one it sets the account is complete; `KeepsHandlers`
follows. `SInv`: a switch that is half done has disturbed every call and area in
use, so a call that is undisturbed runs under the last setting; `PartnersMeet` and
`LosesOnlyInSwitch` follow. None of the four is inductive by itself: the second read
of a function is safe only because of what the first one saw, in the absence of a
switch.

**Only model-checked:** that `DBuffer` implements `DynamicObject` (`DBufferCanary`),
the properties of `C11`, and what must eventually happen
(`Terminates`, `CallsEnd`): liveness is out of the prover's reach.

## Not modelled, and the plan

Not modelled:

- The build system, demos and unit tests, which are no part of the library.
- The comparison functions of the buffers: two checks and a call of
  `ssm_compare()`, which is modelled; they change no state.
- The import of a buffer from its own data. A dynamic buffer that reallocates frees
  the area and then copies from it: the bytes read are those of a freed area, so no
  property of the content can hold after it, and the manual does not say whether
  such a source is allowed.
- The wording of the status messages.

Next, proofs:

1. `DBuffer` implements `DynamicObject`, as `SBufferRefinement` does for static
   buffers, on the lemmas of `DBufferProofs`.
2. `C11`: its properties are about one step from any memory, so they need no more
   than the type invariant and the lemmas of `MemoryProofs`.
