------------------------------ MODULE SBuffer ------------------------------
(***************************************************************************)
(* Static memory buffers (ssm_sbuffer_t) and the static strings that are   *)
(* built on them (ssm_sstring_t), byte by byte: structures declared once    *)
(* with a fixed capacity, the canaries a call sets up when it first writes  *)
(* to one, truncation, and an application that may overrun them.           *)
(*                                                                         *)
(* A call on a buffer is one action.  Each action records its outcome in    *)
(* last.                                                                   *)
(***************************************************************************)
EXTENDS SSMCommon

CONSTANTS
    Bufs,        \* the static buffers and strings of the application
    Capacity,    \* the size each is declared with
    NULL,        \* the null pointer
    Texts,       \* what the application imports: areas of bytes
    Sizes,       \* the sizes and positions it passes
    Values       \* the byte values it fills buffers with

VARIABLES
    buf,         \* the structures, with the area that follows each header
    damaged,     \* the buffers the application has overrun (history)
    last,        \* the last call, its object and its status (history)
    args         \* the other arguments of the last call (history)

vars == <<buf, damaged, last, args>>

ASSUME SBufferAssumption ==
    /\ NULL \notin Bufs
    /\ Capacity \in [Bufs -> Nat]
    /\ \A b \in Bufs : Capacity[b] + CanarySize + 1 <= SizeMax
    /\ Sizes \subseteq Nat
    /\ Values \subseteq Byte
    /\ \A text \in Texts : \A i \in DOMAIN text : text[i] \in Byte

-----------------------------------------------------------------------------
(* Layout of a buffer: header with a canary, content, terminator, free     *)
(* space, trailing canary.  The trailing canary is not set in a structure  *)
(* that was only initialised.                                              *)

\* ssm_sbuffer_init(size)
Declared(size) ==
    [canary |-> LEAD, maxSize |-> size + CanarySize + 1, curSize |-> 0,
     data |-> [i \in 0 .. size + CanarySize |-> NUL]]

\* The room for bytes of content from position at on
Room(h, at) == h.maxSize - at - CanarySize - 1

Consistent(h) ==
    /\ h.maxSize > CanarySize /\ h.maxSize <= SizeMax
    /\ h.curSize < h.maxSize - CanarySize
    /\ Load(h.data, h.curSize) = NUL

Pristine(h) == h.canary = LEAD /\ h.curSize = 0

\* Mutant: only the canary of the header is compared
GuardedByHeader(h) == h.canary = UPDATE

Guarded(h) ==
    h.canary = UPDATE /\ Holds(h.data, h.maxSize - CanarySize, CanarySize, TRAIL)

\* _ssm_sbuffer_check_in(), and what _ssm_sbuffer_check_out() answers.  The
\* build without canaries is the one where CanarySize is 0.
Check(b) ==
    /\ Consistent(buf[b])
    /\ CanarySize > 0 => Pristine(buf[b]) \/ Guarded(buf[b])

CheckIn(s) == s = NULL \/ Check(s)

\* Mutant: the trailing canary is not set up
CheckedOutHeaderOnly(b) ==
    IF CanarySize > 0 /\ Check(b) /\ Pristine(buf[b])
    THEN [buf[b] EXCEPT !.canary = UPDATE]
    ELSE buf[b]

\* Mutant: an output buffer is checked like an input one
CheckedOutAsInput(b) == buf[b]

\* What _ssm_sbuffer_check_out() leaves: the first call that may write to a
\* buffer sets up its canaries
CheckedOut(b) ==
    IF CanarySize > 0 /\ Check(b) /\ Pristine(buf[b])
    THEN [buf[b] EXCEPT !.canary = UPDATE,
                        !.data = Fill(@, buf[b].maxSize - CanarySize, CanarySize, TRAIL)]
    ELSE buf[b]

-----------------------------------------------------------------------------
(* How a call ends.                                                        *)

Return(op, b, n, st) ==
    /\ last' = [op |-> op, obj |-> b, want |-> n, status |-> st]
    /\ UNCHANGED <<buf, damaged>>

\* The structure of b becomes h
Commit(op, b, n, h, st) ==
    /\ buf' = [buf EXCEPT ![b] = h]
    /\ last' = [op |-> op, obj |-> b, want |-> n, status |-> st]
    /\ UNCHANGED damaged

\* ssm_copy(data + at, Room(at), src + from, n, &copied)
CopyTo(h, at, src, from, n) ==
    [h EXCEPT !.data = Move(@, at, src, from, CopiedSize(Room(h, at), n, 0))]

\* _curSize = n, and the terminator after the content
Terminate(h, n) == [h EXCEPT !.curSize = n, !.data = Fill(@, n, 1, NUL)]

-----------------------------------------------------------------------------
(* The operations.  A null source is a source of length 0.                 *)

ImportBytes(op, b, src, n) ==
    IF n > SizeMax THEN Return(op, b, n, "SSM_SIZETOOLARGE")
    ELSE IF ~ Check(b) THEN Return(op, b, n, "SSM_CORRUPTED")
    ELSE LET h == CheckedOut(b)
         IN  Commit(op, b, n,
                    Terminate(CopyTo(h, 0, src, 0, n), CopiedSize(Room(h, 0), n, h.curSize)),
                    CopyStatus(Room(h, 0), n))

\* The n first bytes of text.  A size above SSM_SIZE_MAX is never read.
Import(b, text, n) ==
    /\ n <= SizeMax => 0 .. n - 1 \subseteq DOMAIN text
    /\ ImportBytes("import", b, text, n)

\* len is ssm_cstring_length(text, n): the position of the first null byte,
\* n when there is none before
IsStringLength(text, n, len) ==
    /\ len \in 0 .. n /\ 0 .. len - 1 \subseteq DOMAIN text
    /\ \A i \in 0 .. len - 1 : text[i] # NUL
    /\ len = n \/ (len \in DOMAIN text /\ text[len] = NUL)

\* ssm_sstring_import_size()
ImportString(b, text, n) ==
    IF n > SizeMax THEN Return("import_size", b, n, "SSM_SIZETOOLARGE")
    ELSE \E len \in 0 .. n : /\ IsStringLength(text, n, len)
                             /\ ImportBytes("import_size", b, text, len)

\* Mutant: the source is checked once the destination has been emptied
CopyChecksLate(b, s) ==
    IF ~ Check(b) THEN Return("copy", b, 0, "SSM_CORRUPTED")
    ELSE LET h == Terminate(CheckedOut(b), 0)
             n == IF s = NULL THEN 0 ELSE buf[s].curSize
         IN  IF ~ CheckIn(s) THEN Commit("copy", b, 0, h, "SSM_CORRUPTED")
             ELSE IF s = NULL \/ s = b THEN Commit("copy", b, 0, h, "SSM_OK")
             ELSE Commit("copy", b, n,
                         Terminate(CopyTo(h, 0, buf[s].data, 0, n),
                                   CopiedSize(Room(h, 0), n, h.curSize)),
                         CopyStatus(Room(h, 0), n))

Copy(b, s) ==
    IF ~ Check(b) THEN Return("copy", b, 0, "SSM_CORRUPTED")
    ELSE LET h == CheckedOut(b)
         IN  IF ~ CheckIn(s) THEN Commit("copy", b, 0, h, "SSM_CORRUPTED")
             ELSE IF s = NULL THEN Commit("copy", b, 0, Terminate(h, 0), "SSM_OK")
             ELSE IF s = b THEN Commit("copy", b, h.curSize, h, "SSM_OK")
             ELSE LET n == buf[s].curSize
                  IN  Commit("copy", b, n,
                             Terminate(CopyTo(h, 0, buf[s].data, 0, n),
                                       CopiedSize(Room(h, 0), n, h.curSize)),
                             CopyStatus(Room(h, 0), n))

Concat(b, s) ==
    IF ~ Check(b) THEN Return("concat", b, 0, "SSM_CORRUPTED")
    ELSE LET h   == CheckedOut(b)
             cur == h.curSize
         IN  IF ~ CheckIn(s) THEN Commit("concat", b, 0, h, "SSM_CORRUPTED")
             ELSE IF s = NULL THEN Commit("concat", b, cur, h, "SSM_OK")
             ELSE LET src == IF s = b THEN h ELSE buf[s]
                      n   == src.curSize
                  IN  Commit("concat", b, cur + n,
                             Terminate(CopyTo(h, cur, src.data, 0, n),
                                       cur + CopiedSize(Room(h, cur), n, 0)),
                             CopyStatus(Room(h, cur), n))

\* Mutant: the length may reach the place of the terminator
ResizePastEnd(b, n) ==
    IF n > SizeMax THEN Return("resize", b, n, "SSM_SIZETOOLARGE")
    ELSE IF ~ Check(b) THEN Return("resize", b, n, "SSM_CORRUPTED")
    ELSE LET h == CheckedOut(b)
         IN  IF n > h.maxSize - CanarySize
             THEN Commit("resize", b, n, Terminate(h, Room(h, 0)), "SSM_TRUNCATED")
             ELSE Commit("resize", b, n, Terminate(h, n), "SSM_OK")

\* Mutant: the buffer is not checked
ResizeWithoutCheck(b, n) ==
    LET h == CheckedOut(b)
    IN  IF n > SizeMax THEN Return("resize", b, n, "SSM_SIZETOOLARGE")
        ELSE IF n >= h.maxSize - CanarySize
        THEN Commit("resize", b, n, Terminate(h, Room(h, 0)), "SSM_TRUNCATED")
        ELSE Commit("resize", b, n, Terminate(h, n), "SSM_OK")

Resize(b, n) ==
    IF n > SizeMax THEN Return("resize", b, n, "SSM_SIZETOOLARGE")
    ELSE IF ~ Check(b) THEN Return("resize", b, n, "SSM_CORRUPTED")
    ELSE LET h == CheckedOut(b)
         IN  IF n >= h.maxSize - CanarySize
             THEN Commit("resize", b, n, Terminate(h, Room(h, 0)), "SSM_TRUNCATED")
             ELSE Commit("resize", b, n, Terminate(h, n), "SSM_OK")

\* Mutant: a hole that pushes some of the content out loses all of the tail
InsertDropsTail(b, start, n) ==
    IF ~ Check(b) THEN Return("insert", b, n, "SSM_CORRUPTED")
    ELSE LET h == CheckedOut(b)
         IN  IF n > SizeMax THEN Commit("insert", b, n, h, "SSM_SIZETOOLARGE")
             ELSE IF start > h.curSize THEN Commit("insert", b, n, h, "SSM_INDEXRANGE")
             ELSE IF n = 0 THEN Commit("insert", b, h.curSize, h, "SSM_OK")
             ELSE IF h.curSize + n + CanarySize + 1 >= h.maxSize
             THEN Commit("insert", b, h.curSize + n, Terminate(h, Room(h, 0)), "SSM_TRUNCATED")
             ELSE Commit("insert", b, h.curSize + n,
                         Terminate(CopyTo(h, start + n, h.data, start, h.curSize - start),
                                   h.curSize + n),
                         "SSM_OK")

Insert(b, start, n) ==
    IF ~ Check(b) THEN Return("insert", b, n, "SSM_CORRUPTED")
    ELSE LET h    == CheckedOut(b)
             tail == h.curSize - start
             room == Room(h, start + n)
         IN  IF n > SizeMax THEN Commit("insert", b, n, h, "SSM_SIZETOOLARGE")
             ELSE IF start > h.curSize THEN Commit("insert", b, n, h, "SSM_INDEXRANGE")
             ELSE IF n = 0 THEN Commit("insert", b, h.curSize, h, "SSM_OK")
             ELSE IF start + n + CanarySize + 1 >= h.maxSize
             THEN Commit("insert", b, h.curSize + n, Terminate(h, Room(h, 0)), "SSM_TRUNCATED")
             ELSE Commit("insert", b, h.curSize + n,
                         Terminate(CopyTo(h, start + n, h.data, start, tail),
                                   start + n + CopiedSize(room, tail, 0)),
                         CopyStatus(room, tail))

SetRange(b, start, n, v) ==
    IF start > SizeMax \/ n > SizeMax THEN Return("set_range", b, n, "SSM_SIZETOOLARGE")
    ELSE IF ~ Check(b) THEN Return("set_range", b, n, "SSM_CORRUPTED")
    ELSE LET h      == CheckedOut(b)
             actual == IF start + n > h.curSize THEN h.curSize - start ELSE n
         IN  IF start = h.curSize /\ n = 0 THEN Commit("set_range", b, n, h, "SSM_OK")
             ELSE IF start >= h.curSize THEN Commit("set_range", b, n, h, "SSM_TRUNCATED")
             ELSE Commit("set_range", b, n, [h EXCEPT !.data = Fill(@, start, actual, v)],
                         IF actual < n THEN "SSM_TRUNCATED" ELSE "SSM_OK")

\* Every operation on a null object
NullObject ==
    \E op \in {"import", "import_size", "copy", "concat", "resize", "insert", "set_range"} :
        Return(op, NULL, 0, "SSM_NULLOUT")

-----------------------------------------------------------------------------
(* The application overruns a buffer, at most once (bound), and spoils a    *)
(* byte of its header canary, the terminator, or a byte of the trailing    *)
(* canary once there is one.                                               *)

Spoilt == 1

GuardCells(h) ==
    {h.curSize} \cup (IF Pristine(h) THEN {} ELSE h.maxSize - CanarySize .. h.maxSize - 1)

Overrun(b) ==
    /\ b \notin damaged
    /\ \/ \E i \in GuardCells(buf[b]) : buf' = [buf EXCEPT ![b].data = Fill(@, i, 1, Spoilt)]
       \/ CanarySize > 0 /\ buf' = [buf EXCEPT ![b].canary = Spoilt]
    /\ damaged' = damaged \cup {b}
    /\ last' = [op |-> "overrun", obj |-> b, want |-> 0, status |-> "SSM_OK"]

-----------------------------------------------------------------------------
Init ==
    /\ buf = [b \in Bufs |-> Declared(Capacity[b])]
    /\ damaged = {}
    /\ last = [op |-> "init", obj |-> NULL, want |-> 0, status |-> "SSM_OK"]
    /\ args = <<>>

Called(arguments) == args' = arguments

Operation(b) ==
    \/ \E text \in Texts, n \in Sizes : Import(b, text, n) /\ Called(<<text, n>>)
    \/ \E text \in Texts, n \in Sizes : ImportString(b, text, n) /\ Called(<<text, n>>)
    \* ssm_sstring_import()
    \/ \E text \in Texts : ImportString(b, text, buf[b].maxSize) /\ Called(<<text, NULL>>)
    \/ \E s \in Bufs \cup {NULL} : Copy(b, s) /\ Called(<<s>>)
    \/ \E s \in Bufs \cup {NULL} : Concat(b, s) /\ Called(<<s>>)
    \/ \E n \in Sizes : Resize(b, n) /\ Called(<<n>>)
    \/ \E start, n \in Sizes : Insert(b, start, n) /\ Called(<<start, n>>)
    \/ \E start, n \in Sizes, v \in Values :
          SetRange(b, start, n, v) /\ Called(<<start, n, v>>)
    \* ssm_sbuffer_set()
    \/ \E v \in Values :
          SetRange(b, 0, buf[b].curSize, v) /\ Called(<<0, buf[b].curSize, v>>)

Next == \/ NullObject /\ Called(<<>>)
        \/ \E b \in Bufs : Operation(b)
        \/ \E b \in Bufs : Overrun(b) /\ Called(<<>>)

Spec == Init /\ [][Next]_vars

-----------------------------------------------------------------------------
(* Properties.                                                             *)

\* What ssm_sbuffer_data() and ssm_sbuffer_length() show of a sound buffer
Content(b) == [i \in 1 .. buf[b].curSize |-> Load(buf[b].data, i - 1)]

\* The build with canaries checks an object before it shows it
Hidden(b) == CanarySize > 0 /\ ~ Check(b)

\* ssm_sbuffer_data(): what can be read from the address it returns
ShownBytes(b) == IF Hidden(b) THEN [i \in {0} |-> NUL] ELSE buf[b].data

\* Mutant: the length is not checked, as in the build without canaries
LengthUnchecked(b) == buf[b].curSize

\* ssm_sbuffer_length()
ShownLength(b) == IF Hidden(b) THEN 0 ELSE buf[b].curSize

\* ssm_sbuffer_max_length()
ShownMaxLength(b) == IF Hidden(b) THEN 0 ELSE Room(buf[b], 0)

Calls == {"init", "import", "import_size", "copy", "concat", "resize", "insert",
          "set_range", "overrun"}

Outcome == [op : Calls, obj : Bufs \cup {NULL}, want : Nat, status : Statuses]

\* The structures a buffer may be
Structure(b) ==
    [canary : Cell, maxSize : {Capacity[b] + CanarySize + 1}, curSize : 0 .. Capacity[b],
     data : [0 .. Capacity[b] + CanarySize -> Cell]]

\* Every variable has its type; an area has the size it was declared with for
\* ever and holds nothing that was loaded from outside an area: no ssm_copy(),
\* ssm_set() or store of a terminator or canary leaves its area.
TypeOK ==
    /\ DOMAIN buf = Bufs
    /\ \A b \in Bufs : buf[b] \in Structure(b)
    /\ damaged \subseteq Bufs
    /\ last \in Outcome

\* A buffer the application has not overrun is sound after every call, whatever
\* its outcome, so the checks never accuse it.
NoFalseAlarm == \A b \in Bufs \ damaged : Check(b)

\* An overrun stays visible: no call rewrites the canaries or the terminator of
\* a damaged buffer, not even the set-up of the canaries in
\* _ssm_sbuffer_check_out().
DamageStaysVisible == \A b \in damaged : ~ Check(b)

\* Three calls show an object: its address, its length and its maximum length.
\* Together they show bytes of its area followed by a null byte, at any time: of
\* an object the application has overrun too, when there are canaries.
ShowsAString ==
    \A b \in Bufs : CanarySize > 0 \/ b \notin damaged =>
        /\ 0 .. ShownLength(b) \subseteq DOMAIN ShownBytes(b)
        /\ ShownBytes(b)[ShownLength(b)] = NUL
        /\ ShownLength(b) <= ShownMaxLength(b)
        /\ ShownMaxLength(b) \in {0, Capacity[b]}

\* Once damaged, a buffer is left exactly as it is.
DamagedIsLeftAlone == [][\A b \in damaged : buf'[b] = buf[b]]_vars

\* A buffer is guarded from the first call that succeeds on it, and for ever
\* unless the application overruns it: no buffer with content is left in the
\* state in which _ssm_sbuffer_check_out() trusts it without a trailing canary.
StaysGuarded ==
    [][CanarySize > 0 =>
          \A b \in Bufs \ damaged' :
              Guarded(buf[b]) \/ (last'.obj = b /\ last'.status \in Successes)
                  => Guarded(buf'[b])]_vars

\* A call that reports an error has not changed the content of any buffer, nor
\* the size or length it shows (ssm_common.texi: "the output objects (if any)
\* are not modified").
ErrorKeepsContent ==
    [][last'.status \notin Successes => \A b \in Bufs : Content(b)' = Content(b)]_vars

\* ssm_sbuffer.texi, of an insertion: "If the new size of the buffer would
\* exceed its maximum size, it truncated to its maximum size and SSM_TRUNCATED is
\* returned".
InsertTruncatesOnlyWhatExceeds ==
    [][(last'.op = "insert" /\ last'.status = "SSM_TRUNCATED") =>
          last'.want > Capacity[last'.obj]]_vars

-----------------------------------------------------------------------------
(* What a static buffer promises.                                          *)

Abstract == INSTANCE BoundedObject WITH value <- [b \in Bufs |-> Content(b)]

\* Every call does to the content of the buffers what BoundedObject says.
Implements == Abstract!Spec

=============================================================================
