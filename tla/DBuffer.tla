------------------------------ MODULE DBuffer ------------------------------
(***************************************************************************)
(* Dynamic memory buffers (ssm_dbuffer_t) and the dynamic strings that are  *)
(* built on them (ssm_dstring_t), byte by byte: the structures, the areas  *)
(* they own in the heap, the canaries around their content, an allocator   *)
(* that may fail, and an application that may overrun an area.             *)
(*                                                                         *)
(* The library has no thread of its own and does not lock: a call on a      *)
(* buffer is one action.  Each action records its outcome in last.         *)
(***************************************************************************)
EXTENDS AllocPolicy

CONSTANTS
    Bufs,        \* the dynamic buffers and strings of the application
    Areas,       \* the addresses malloc() may return
    NULL,        \* the null pointer
    Texts,       \* what the application imports: areas of bytes
    Sizes,       \* the sizes and positions it passes
    Values,      \* the byte values it fills buffers with
    MaxLength    \* bound: the application asks for no content longer than
                 \* this, except for sizes the library rejects

VARIABLES
    buf,         \* the ssm_dbuffer_t structures
    heap,        \* the allocated areas
    damaged,     \* the buffers the application has overrun (history)
    last,        \* the last call, its object and its status (history)
    args         \* the other arguments of the last call (history)

vars == <<buf, heap, damaged, last, args>>

ASSUME DBufferAssumption ==
    /\ NULL \notin Bufs \cup Areas
    /\ Sizes \subseteq Nat
    /\ Values \subseteq Byte
    /\ MaxLength \in Nat
    /\ \A text \in Texts : \A i \in DOMAIN text : text[i] \in Byte

-----------------------------------------------------------------------------
(* Layout of a buffer: leading canary, content, terminator, free space,    *)
(* trailing canary.                                                        *)

EmptyBuffer == [canary1 |-> LEAD, data |-> NULL, maxSize |-> 0,
                curSize |-> 0, canary2 |-> TRAIL]

\* The area a structure points to, in a heap
AreaOf(h, hp) == IF h.data = NULL THEN EmptyArea ELSE hp[h.data]

\* The room for bytes of content from position at on
Room(h, at) == h.maxSize - at - 2 * CanarySize - 1

AreaIntact(h, mem) ==
    /\ h.maxSize > 2 * CanarySize
    /\ h.curSize < h.maxSize - 2 * CanarySize
    /\ Load(mem, CanarySize + h.curSize) = NUL
    /\ Holds(mem, 0, CanarySize, LEAD)
    /\ Holds(mem, h.maxSize - CanarySize, CanarySize, TRAIL)

\* Mutant: an area of exactly SSM_SIZE_MAX is taken for a corrupted one
CheckBelowLimit(b) ==
    /\ CanarySize > 0 => buf[b].canary1 = LEAD /\ buf[b].canary2 = TRAIL
    /\ IF buf[b].data = NULL
       THEN buf[b].maxSize = 0 /\ buf[b].curSize = 0
       ELSE /\ buf[b].maxSize < SizeMax
            /\ AreaIntact(buf[b], heap[buf[b].data])

\* _ssm_dbuffer_check().  The build without canaries is the one where
\* CanarySize is 0.
Check(b) ==
    /\ CanarySize > 0 => buf[b].canary1 = LEAD /\ buf[b].canary2 = TRAIL
    /\ IF buf[b].data = NULL
       THEN buf[b].maxSize = 0 /\ buf[b].curSize = 0
       ELSE /\ buf[b].maxSize <= SizeMax
            /\ AreaIntact(buf[b], heap[buf[b].data])

\* An argument that is only read may also be NULL: it is then empty
CheckIn(s) == s = NULL \/ Check(s)

-----------------------------------------------------------------------------
(* A call in progress: its status so far, the structure it works on and    *)
(* the heap.                                                               *)

Untouched(b, st) == [status |-> st, hdr |-> buf[b], heap |-> heap]

\* ssm_copy(data + at, Room(at), src + from, n, &copied)
CopyTo(r, at, src, from, n) ==
    LET room == Room(r.hdr, at)
    IN  [r EXCEPT !.status = CopyStatus(room, n),
                  !.heap[r.hdr.data] =
                      Move(@, CanarySize + at, src, from, CopiedSize(room, n, 0))]

\* _curSize = n, and the terminator after the content
Terminate(r, n) ==
    [r EXCEPT !.hdr.curSize = n,
              !.heap[r.hdr.data] = Fill(@, CanarySize + n, 1, NUL)]

\* Mutant: the trailing canary is not written
AreaWithoutTrail(h, size, kept, cur) ==
    LET fresh == [i \in 0 .. size - 1 |-> Undef]
        moved == IF kept
                 THEN Move(fresh, CanarySize, heap[h.data], CanarySize,
                           CopiedSize(size - 2 * CanarySize - 1, h.curSize, 0))
                 ELSE fresh
    IN  Fill(Fill(moved, CanarySize + cur, 1, NUL), 0, CanarySize, LEAD)

\* The new area: the content to keep, the terminator, both canaries
NewArea(h, size, kept, cur) ==
    LET room  == size - 2 * CanarySize - 1
        fresh == [i \in 0 .. size - 1 |-> Undef]
        moved == IF kept
                 THEN Move(fresh, CanarySize, heap[h.data], CanarySize,
                           CopiedSize(room, h.curSize, 0))
                 ELSE fresh
    IN  Fill(Fill(Fill(moved, CanarySize + cur, 1, NUL),
                  0, CanarySize, LEAD),
             size - CanarySize, CanarySize, TRAIL)

\* Mutant: the old area is not freed
ReallocatedWithoutFree(b, size, keep, a) ==
    LET h    == buf[b]
        room == size - 2 * CanarySize - 1
        kept == keep /\ h.data # NULL
        cur  == IF kept THEN CopiedSize(room, h.curSize, h.curSize) ELSE 0
    IN  [status |-> IF kept THEN CopyStatus(room, h.curSize) ELSE "SSM_OK",
         hdr |-> [h EXCEPT !.data = a, !.maxSize = size, !.curSize = cur],
         heap |-> [x \in DOMAIN heap \cup {a} |->
                      IF x = a THEN NewArea(h, size, kept, cur) ELSE heap[x]]]

\* The end of _ssm_dbuffer_alloc(): the new area a replaces the old one
Reallocated(b, size, keep, a) ==
    LET h    == buf[b]
        room == size - 2 * CanarySize - 1
        kept == keep /\ h.data # NULL
        cur  == IF kept THEN CopiedSize(room, h.curSize, h.curSize) ELSE 0
    IN  [status |-> IF kept THEN CopyStatus(room, h.curSize) ELSE "SSM_OK",
         hdr |-> [h EXCEPT !.data = a, !.maxSize = size, !.curSize = cur],
         heap |-> [x \in (DOMAIN heap \ {h.data}) \cup {a} |->
                      IF x = a THEN NewArea(h, size, kept, cur) ELSE heap[x]]]

\* Mutant: the result of malloc() is not tested
AllocWithoutNullTest(b, n, keep) ==
    LET size == AllocSize(buf[b].maxSize, n + 1 + 2 * CanarySize)
    IN  IF ~ Check(b) \/ n > SizeMax \/ size = buf[b].maxSize
        THEN {Untouched(b, IF ~ Check(b) THEN "SSM_CORRUPTED"
                           ELSE IF n > SizeMax THEN "SSM_SIZETOOLARGE" ELSE "SSM_OK")}
        ELSE {Reallocated(b, size, keep, a) : a \in (Areas \cup {NULL}) \ DOMAIN heap}

\* Mutant: the buffer is not checked before it is reallocated
AllocWithoutCheck(b, n, keep) ==
    LET size == AllocSize(buf[b].maxSize, n + 1 + 2 * CanarySize)
    IN  IF n > SizeMax \/ size = buf[b].maxSize
        THEN {Untouched(b, IF n > SizeMax THEN "SSM_SIZETOOLARGE" ELSE "SSM_OK")}
        ELSE {Untouched(b, "SSM_NOMEMORY")} \cup
             {Reallocated(b, size, keep, a) : a \in Areas \ DOMAIN heap}

\* Mutant: the size does not count the canaries
AllocWithoutCanaries(b, n, keep) ==
    LET size == AllocSize(buf[b].maxSize, n + 1)
    IN  IF ~ Check(b) \/ n > SizeMax \/ size = buf[b].maxSize
        THEN {Untouched(b, IF ~ Check(b) THEN "SSM_CORRUPTED"
                           ELSE IF n > SizeMax THEN "SSM_SIZETOOLARGE" ELSE "SSM_OK")}
        ELSE {Untouched(b, "SSM_NOMEMORY")} \cup
             {Reallocated(b, size, keep, a) : a \in Areas \ DOMAIN heap}

\* Mutant: the length is reset before the allocation that may fail
AllocResetsFirst(b, n, keep) ==
    LET size == AllocSize(buf[b].maxSize, n + 1 + 2 * CanarySize)
    IN  IF ~ Check(b) \/ n > SizeMax \/ size = buf[b].maxSize
        THEN {Untouched(b, IF ~ Check(b) THEN "SSM_CORRUPTED"
                           ELSE IF n > SizeMax THEN "SSM_SIZETOOLARGE" ELSE "SSM_OK")}
        ELSE {[Untouched(b, "SSM_NOMEMORY") EXCEPT !.hdr.curSize = 0]} \cup
             {Reallocated(b, size, keep, a) : a \in Areas \ DOMAIN heap}

\* The possible outcomes of _ssm_dbuffer_alloc(b, n, keep)
AllocOutcomes(b, n, keep) ==
    LET size == AllocSize(buf[b].maxSize, n + 1 + 2 * CanarySize)
    IN  CASE ~ Check(b) -> {Untouched(b, "SSM_CORRUPTED")}
          [] Check(b) /\ n > SizeMax -> {Untouched(b, "SSM_SIZETOOLARGE")}
          [] Check(b) /\ n <= SizeMax /\ size = buf[b].maxSize ->
                {Untouched(b, "SSM_OK")}
          [] OTHER ->
                {Untouched(b, "SSM_NOMEMORY")} \cup
                {Reallocated(b, size, keep, a) : a \in Areas \ DOMAIN heap}

-----------------------------------------------------------------------------
(* How a call ends.                                                        *)

Report(op, b, n, st) == last' = [op |-> op, obj |-> b, want |-> n, status |-> st]

Return(op, b, st) ==
    /\ Report(op, b, 0, st)
    /\ UNCHANGED <<buf, heap, damaged>>

\* n is the length of content the call asks for
Commit(op, b, n, r) ==
    /\ buf' = [buf EXCEPT ![b] = r.hdr]
    /\ heap' = r.heap
    /\ Report(op, b, n, r.status)
    /\ UNCHANGED damaged

\* The lengths of content the application asks for
Requested(n) == n <= MaxLength \/ n > SizeMax

-----------------------------------------------------------------------------
(* The operations.  A null source is a source of length 0.                 *)

ImportBytes(op, b, src, n) ==
    \E r \in AllocOutcomes(b, n, FALSE) :
        IF r.status # "SSM_OK" THEN Commit(op, b, n, r)
        ELSE LET c == CopyTo(r, 0, src, 0, n)
             IN  Commit(op, b, n, Terminate(c, CopiedSize(Room(r.hdr, 0), n, r.hdr.curSize)))

\* The n first bytes of text.  A size above SSM_SIZE_MAX is never read.
Import(b, text, n) ==
    /\ Requested(n)
    /\ n <= SizeMax => 0 .. n - 1 \subseteq DOMAIN text
    /\ ImportBytes("import", b, text, n)

\* len is ssm_cstring_length(text, n): the position of the first null byte,
\* n when there is none before
IsStringLength(text, n, len) ==
    /\ len \in 0 .. n /\ 0 .. len - 1 \subseteq DOMAIN text
    /\ \A i \in 0 .. len - 1 : text[i] # NUL
    /\ len = n \/ (len \in DOMAIN text /\ text[len] = NUL)

\* ssm_dstring_import_size()
ImportString(b, text, n) ==
    IF n > SizeMax THEN Return("import_size", b, "SSM_SIZETOOLARGE")
    ELSE \E len \in 0 .. n :
            /\ IsStringLength(text, n, len)
            /\ Requested(len)
            /\ ImportBytes("import_size", b, text, len)

Copy(b, s) ==
    LET n == IF s = NULL THEN 0 ELSE buf[s].curSize
    IN  IF ~ Check(b) \/ ~ CheckIn(s) THEN Return("copy", b, "SSM_CORRUPTED")
        ELSE IF s = b THEN Return("copy", b, "SSM_OK")
        ELSE \E r \in AllocOutcomes(b, n, FALSE) :
                IF r.status # "SSM_OK" THEN Commit("copy", b, n, r)
                ELSE IF s = NULL THEN Commit("copy", b, n, Terminate(r, 0))
                ELSE LET c == CopyTo(r, 0, AreaOf(buf[s], r.heap), CanarySize, n)
                     IN  Commit("copy", b, n,
                            Terminate(c, CopiedSize(Room(r.hdr, 0), n, r.hdr.curSize)))

\* Mutant: the reallocation does not keep the content
ConcatDropsContent(b, s) ==
    IF ~ Check(b) \/ ~ CheckIn(s) THEN Return("concat", b, "SSM_CORRUPTED")
    ELSE IF s = NULL \/ buf[s].curSize = 0 THEN Return("concat", b, "SSM_OK")
    ELSE LET total == buf[b].curSize + buf[s].curSize
         IN  /\ Requested(total)
             /\ \E r \in AllocOutcomes(b, total, FALSE) :
                   IF r.status # "SSM_OK" THEN Commit("concat", b, total, r)
                   ELSE LET src == IF s = b THEN r.hdr ELSE buf[s]
                            cur == r.hdr.curSize
                            c   == CopyTo(r, cur, AreaOf(src, r.heap), CanarySize, src.curSize)
                        IN  Commit("concat", b, total,
                               Terminate(c, cur + CopiedSize(Room(r.hdr, cur), src.curSize, 0)))

\* When s is b, its structure is read again after the reallocation
Concat(b, s) ==
    IF ~ Check(b) \/ ~ CheckIn(s) THEN Return("concat", b, "SSM_CORRUPTED")
    ELSE IF s = NULL \/ buf[s].curSize = 0 THEN Return("concat", b, "SSM_OK")
    ELSE LET total == buf[b].curSize + buf[s].curSize
         IN  /\ Requested(total)
             /\ \E r \in AllocOutcomes(b, total, TRUE) :
                   IF r.status # "SSM_OK" THEN Commit("concat", b, total, r)
                   ELSE LET src == IF s = b THEN r.hdr ELSE buf[s]
                            cur == r.hdr.curSize
                            c   == CopyTo(r, cur, AreaOf(src, r.heap), CanarySize, src.curSize)
                        IN  Commit("concat", b, total,
                               Terminate(c, cur + CopiedSize(Room(r.hdr, cur), src.curSize, 0)))

Resize(b, n) ==
    /\ Requested(n)
    /\ \E r \in AllocOutcomes(b, n, TRUE) :
          Commit("resize", b, n, IF r.status = "SSM_OK" THEN Terminate(r, n) ELSE r)

\* The content from start on moves n bytes up
OpenGap(r, start, n) ==
    LET tail  == r.hdr.curSize - start
        moved == CopyTo(r, start + n, r.heap[r.hdr.data], CanarySize + start, tail)
    IN  IF moved.status \in Successes
        THEN Terminate(moved, start + n + CopiedSize(Room(r.hdr, start + n), tail, 0))
        ELSE moved

Insert(b, start, n) ==
    /\ Requested(buf[b].curSize + n)
    /\ IF ~ Check(b) THEN Return("insert", b, "SSM_CORRUPTED")
       ELSE IF n > SizeMax THEN Return("insert", b, "SSM_SIZETOOLARGE")
       ELSE IF start > buf[b].curSize THEN Return("insert", b, "SSM_INDEXRANGE")
       ELSE IF n = 0 THEN Return("insert", b, "SSM_OK")
       ELSE \E r \in AllocOutcomes(b, buf[b].curSize + n, TRUE) :
               Commit("insert", b, buf[b].curSize + n,
                      IF r.status = "SSM_OK" THEN OpenGap(r, start, n) ELSE r)

SetRange(b, start, n, v) ==
    LET h      == buf[b]
        actual == IF start + n > h.curSize THEN h.curSize - start ELSE n
    IN  IF start > SizeMax \/ n > SizeMax THEN Return("set_range", b, "SSM_SIZETOOLARGE")
        ELSE IF ~ Check(b) THEN Return("set_range", b, "SSM_CORRUPTED")
        ELSE IF start = h.curSize /\ n = 0 THEN Return("set_range", b, "SSM_OK")
        ELSE IF start >= h.curSize THEN Return("set_range", b, "SSM_TRUNCATED")
        ELSE Commit("set_range", b, h.curSize,
               [status |-> IF actual < n THEN "SSM_TRUNCATED" ELSE "SSM_OK",
                hdr |-> h,
                heap |-> [heap EXCEPT ![h.data] = Fill(@, CanarySize + start, actual, v)]])

\* Mutant: the buffer is freed without a check
FreeWithoutCheck(b) ==
    Commit("free", b, 0,
           [status |-> "SSM_OK",
            hdr |-> [buf[b] EXCEPT !.data = NULL, !.maxSize = 0, !.curSize = 0],
            heap |-> [x \in DOMAIN heap \ {buf[b].data} |-> heap[x]]])

\* A corrupted buffer is not freed: its area is left allocated
FreeBuffer(b) ==
    IF ~ Check(b) THEN Return("free", b, "SSM_CORRUPTED")
    ELSE Commit("free", b, 0,
           [status |-> "SSM_OK",
            hdr |-> [buf[b] EXCEPT !.data = NULL, !.maxSize = 0, !.curSize = 0],
            heap |-> [x \in DOMAIN heap \ {buf[b].data} |-> heap[x]]])

\* Every operation on a null object
NullObject ==
    \/ \E op \in {"import", "import_size", "copy", "concat", "resize", "insert", "set_range"} :
          Return(op, NULL, "SSM_NULLOUT")
    \/ Return("free", NULL, "SSM_OK")

-----------------------------------------------------------------------------
(* The application overruns a buffer, at most once (bound), and spoils a    *)
(* byte of a canary of the area, the terminator, or a canary of the         *)
(* structure.                                                              *)

Spoilt == 1

GuardCells(h) ==
    (0 .. CanarySize - 1) \cup {CanarySize + h.curSize}
        \cup (h.maxSize - CanarySize .. h.maxSize - 1)

OverrunArea(b) ==
    /\ b \notin damaged /\ buf[b].data # NULL
    /\ \E i \in GuardCells(buf[b]) :
          heap' = [heap EXCEPT ![buf[b].data] = Fill(@, i, 1, Spoilt)]
    /\ damaged' = damaged \cup {b}
    /\ Report("overrun", b, 0, "SSM_OK")
    /\ UNCHANGED buf

OverrunStructure(b) ==
    /\ b \notin damaged /\ CanarySize > 0
    /\ \/ buf' = [buf EXCEPT ![b].canary1 = Spoilt]
       \/ buf' = [buf EXCEPT ![b].canary2 = Spoilt]
    /\ damaged' = damaged \cup {b}
    /\ Report("overrun", b, 0, "SSM_OK")
    /\ UNCHANGED heap

-----------------------------------------------------------------------------
Init ==
    /\ buf = [b \in Bufs |-> EmptyBuffer]
    /\ heap = [a \in {} |-> EmptyArea]
    /\ damaged = {}
    /\ last = [op |-> "init", obj |-> NULL, want |-> 0, status |-> "SSM_OK"]
    /\ args = <<>>

Called(arguments) == args' = arguments

Operation(b) ==
    \/ \E text \in Texts, n \in Sizes : Import(b, text, n) /\ Called(<<text, n>>)
    \* ssm_dstring_import() passes SSM_SIZE_MAX
    \/ \E text \in Texts, n \in Sizes \cup {SizeMax} :
          ImportString(b, text, n) /\ Called(<<text, n>>)
    \/ \E s \in Bufs \cup {NULL} : Copy(b, s) /\ Called(<<s>>)
    \/ \E s \in Bufs \cup {NULL} : Concat(b, s) /\ Called(<<s>>)
    \/ \E n \in Sizes : Resize(b, n) /\ Called(<<n>>)
    \/ \E start, n \in Sizes : Insert(b, start, n) /\ Called(<<start, n>>)
    \/ \E start, n \in Sizes, v \in Values :
          SetRange(b, start, n, v) /\ Called(<<start, n, v>>)
    \* ssm_dbuffer_set()
    \/ \E v \in Values :
          SetRange(b, 0, buf[b].curSize, v) /\ Called(<<0, buf[b].curSize, v>>)
    \/ FreeBuffer(b) /\ Called(<<>>)

Overrun(b) == OverrunArea(b) \/ OverrunStructure(b)

Next == \/ NullObject /\ Called(<<>>)
        \/ \E b \in Bufs : Operation(b)
        \/ \E b \in Bufs : Overrun(b) /\ Called(<<>>)

Spec == Init /\ [][Next]_vars

-----------------------------------------------------------------------------
(* Properties.                                                             *)

\* What ssm_dbuffer_data() and ssm_dbuffer_length() show of a sound buffer
Content(b) ==
    [i \in 1 .. buf[b].curSize |-> Load(AreaOf(buf[b], heap), CanarySize + i - 1)]

\* The build with canaries checks an object before it shows it: a corrupted one
\* shows an empty string
Hidden(b) == CanarySize > 0 /\ ~ Check(b)

\* ssm_dbuffer_data(): what can be read from the address it returns
ShownBytes(b) ==
    IF buf[b].data = NULL \/ Hidden(b) THEN [i \in {0} |-> NUL]
    ELSE LET area == heap[buf[b].data]
         IN  [i \in 0 .. buf[b].maxSize - CanarySize - 1 |-> area[CanarySize + i]]

\* Mutant: the length is not checked, as in the build without canaries
LengthUnchecked(b) == buf[b].curSize

\* ssm_dbuffer_length()
ShownLength(b) == IF Hidden(b) THEN 0 ELSE buf[b].curSize

Structure == [canary1 : Cell, data : Areas \cup {NULL}, maxSize : Nat,
              curSize : Nat, canary2 : Cell]

Calls == {"init", "import", "import_size", "copy", "concat", "resize", "insert",
          "set_range", "free", "overrun"}

Outcome == [op : Calls, obj : Bufs \cup {NULL}, want : Nat, status : Statuses]

\* Every variable has its type.
TypeOK ==
    /\ buf \in [Bufs -> Structure]
    /\ DOMAIN heap \subseteq Areas
    /\ damaged \subseteq Bufs
    /\ last \in Outcome

\* Every area the library has allocated belongs to one buffer, and every
\* buffer that points to an area points to an allocated one: reallocation in
\* _ssm_dbuffer_alloc() and _ssm_dbuffer_free() neither leak an area nor leave
\* a pointer to a freed one, on the failure paths and with a corrupted buffer
\* included.
Ownership ==
    /\ DOMAIN heap = {buf[b].data : b \in Bufs} \ {NULL}
    /\ \A b, c \in Bufs : buf[b].data = buf[c].data /\ buf[b].data # NULL => b = c

\* No call of ssm_copy(), ssm_set() or store of a terminator or canary has left
\* the area of its buffer or read outside another: areas have the size malloc()
\* was asked for and hold nothing that was loaded from outside.
InBounds ==
    \A b \in Bufs : buf[b].data # NULL =>
        /\ heap[buf[b].data] \in [0 .. buf[b].maxSize - 1 -> Cell]
        /\ buf[b].curSize < buf[b].maxSize - 2 * CanarySize

\* A buffer the application has not overrun is sound after every call, whatever
\* its outcome: canaries in place around the area, terminator after the
\* content; one without an area is empty.
Intact(b) ==
    /\ buf[b].canary1 = LEAD /\ buf[b].canary2 = TRAIL
    /\ IF buf[b].data = NULL
       THEN buf[b].maxSize = 0 /\ buf[b].curSize = 0
       ELSE AreaIntact(buf[b], heap[buf[b].data])

IntactUnlessDamaged == \A b \in Bufs \ damaged : Intact(b)

\* An overrun stays visible: no call rewrites the canaries or the terminator of
\* a damaged buffer, so that _ssm_dbuffer_check() goes on reporting it.
DamageStaysVisible == \A b \in damaged : ~ Check(b)

\* _ssm_dbuffer_check() never accuses a buffer nobody has overrun.  This needs
\* the application to stay below half of SSM_SIZE_MAX (SmallRequests).
NoFalseAlarm == \A b \in Bufs \ damaged : Check(b)

SmallRequests ==
    /\ 2 * (MaxLength + 2 * CanarySize) <= SizeMax
    /\ MaxLength + 1 + 2 * CanarySize <= SizeMax
    /\ SmallestAllocation <= SizeMax

\* Once damaged, a buffer and its area are left exactly as they are: they are
\* not modified, reallocated or freed (the comment of ssm_dbuffer_free.c
\* prefers the leak), and a call that names it reports the corruption.
DamagedIsLeftAlone ==
    [][\A b \in damaged :
          /\ buf'[b] = buf[b]
          /\ buf[b].data # NULL =>
                buf[b].data \in DOMAIN heap' /\ heap'[buf[b].data] = heap[buf[b].data]
          /\ last'.obj = b => last'.status \in {"SSM_CORRUPTED", "SSM_SIZETOOLARGE"}]_vars

\* Two calls show an object, one its address and one its length.  Together they
\* show bytes of its area followed by a null byte, at any time: of an object the
\* application has overrun too, when there are canaries.
ShowsAString ==
    \A b \in Bufs : CanarySize > 0 \/ b \notin damaged =>
        /\ 0 .. ShownLength(b) \subseteq DOMAIN ShownBytes(b)
        /\ ShownBytes(b)[ShownLength(b)] = NUL

\* A call that reports an error, NOMEMORY included, has changed no object and
\* allocated or freed nothing (ssm.h: "result is unchanged"; ssm_common.texi:
\* "the output objects (if any) are not modified").
ErrorChangesNothing ==
    [][last'.status \notin Successes => UNCHANGED <<buf, heap>>]_vars

\* ssm_common.texi: "The SSM library never allocates memory areas larger that
\* SSM_SIZE_MAX".
AllocatesAtMostSizeMax == \A b \in Bufs : buf[b].maxSize <= SizeMax

\* ssm_dbuffer.texi: "If the new length is shorter than the previous length,
\* the buffer content is truncated and the returned status is SSM_OK".
ResizeShrinks ==
    [][\A b \in Bufs :
          ( /\ last'.op = "resize" /\ last'.obj = b /\ last'.status \in Successes
            /\ last'.want < buf[b].curSize )
          => last'.status = "SSM_OK" /\ buf'[b].curSize = last'.want]_vars

-----------------------------------------------------------------------------
(* What a dynamic buffer promises.                                         *)

Abstract == INSTANCE DynamicObject WITH value <- [b \in Bufs |-> Content(b)]

\* Every call does to the content of the buffers what DynamicObject says.
Implements == Abstract!Spec

=============================================================================
