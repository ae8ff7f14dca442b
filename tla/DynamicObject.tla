--------------------------- MODULE DynamicObject ---------------------------
(***************************************************************************)
(* What a dynamic buffer or string promises: each object is a sequence of   *)
(* bytes, a call either does all of its work or none of it, and an object   *)
(* the application has overrun is reported and left alone.  Areas, sizes,  *)
(* canaries and reallocation do not appear.                                *)
(*                                                                         *)
(* One promise is weaker than the manual's: a resize to a shorter length    *)
(* may stop before reaching it and report SSM_TRUNCATED.                          *)
(***************************************************************************)
EXTENDS Integers, Sequences

CONSTANTS Bufs, NULL, Texts, Sizes, Values, MaxLength, SizeMax

VARIABLES value, damaged, last, args

vars == <<value, damaged, last, args>>

Requested(n) == n <= MaxLength \/ n > SizeMax

Outcome(op, b, n, st) == last' = [op |-> op, obj |-> b, want |-> n, status |-> st]

Init == /\ value = [b \in Bufs |-> <<>>]
        /\ damaged = {}
        /\ last = [op |-> "init", obj |-> NULL, want |-> 0, status |-> "SSM_OK"]
        /\ args = <<>>

\* b gets a value of the requested length
Becomes(op, b, v) ==
    /\ b \notin damaged
    /\ Outcome(op, b, Len(v), "SSM_OK")
    /\ value' = [value EXCEPT ![b] = v]
    /\ UNCHANGED damaged

\* A call without effect on the objects
Unchanged(op, b, n, st) ==
    /\ Outcome(op, b, n, st)
    /\ UNCHANGED <<value, damaged>>

\* A prefix of a text, counted from position 0
Prefix(text, n) == [i \in 1 .. n |-> text[i - 1]]

Import(b, text, n) == Becomes("import", b, Prefix(text, n))

\* The bytes of a string before its null byte, bound at most
ImportString(b, text, bound) ==
    \E len \in {0} \cup {i + 1 : i \in DOMAIN text} :
        /\ \A i \in 0 .. len - 1 : text[i] # 0
        /\ len = bound \/ (len \in DOMAIN text /\ text[len] = 0)
        /\ Becomes("import_size", b, Prefix(text, len))

Copy(b, s) ==
    /\ s \notin damaged
    /\ IF s = b THEN Unchanged("copy", b, 0, "SSM_OK") /\ b \notin damaged
       ELSE Becomes("copy", b, IF s = NULL THEN <<>> ELSE value[s])

Concat(b, s) ==
    /\ s \notin damaged
    /\ IF s = NULL \/ value[s] = <<>>
       THEN Unchanged("concat", b, 0, "SSM_OK") /\ b \notin damaged
       ELSE Becomes("concat", b, value[b] \o value[s])

\* Bytes past the old length have any value
Resize(b, n) ==
    LET old == value[b]
        new == value'[b]
    IN  \/ /\ Becomes("resize", b, new) /\ Len(new) = n
           /\ \A i \in 1 .. n : i <= Len(old) => new[i] = old[i]
        \/ \E k \in n .. Len(old) - 1 :
              /\ b \notin damaged
              /\ Outcome("resize", b, n, "SSM_TRUNCATED")
              /\ value' = [value EXCEPT ![b] = SubSeq(old, 1, k)]
              /\ UNCHANGED damaged

\* The bytes from start on move n up.  The hole keeps the bytes it covers, and
\* has any value past the old length.
Insert(b, start, n) ==
    LET old == value[b]
        new == value'[b]
    IN  IF n = 0 THEN Unchanged("insert", b, 0, "SSM_OK") /\ b \notin damaged
        ELSE /\ start <= Len(old) /\ Len(new) = Len(old) + n
             /\ Becomes("insert", b, new)
             /\ \A i \in 1 .. Len(new) :
                   LET from == IF i <= start + n THEN i ELSE i - n
                   IN  from <= Len(old) => new[i] = old[from]

\* The part of the range that lies in the value is set
SetRange(b, start, n, v) ==
    LET old  == value[b]
        past == start >= Len(old)
    IN  /\ b \notin damaged
        /\ Outcome("set_range", b, IF past THEN 0 ELSE Len(old),
                   IF start + n > Len(old) THEN "SSM_TRUNCATED" ELSE "SSM_OK")
        /\ value' = [value EXCEPT ![b] =
                [i \in 1 .. Len(old) |-> IF i - 1 \in start .. start + n - 1 THEN v ELSE old[i]]]
        /\ UNCHANGED damaged

Free(b) == Becomes("free", b, <<>>)

\* Errors.  A length is too large only when the application could not expect
\* it to be granted, and only a call that needs memory can lack it.
Fail(b) ==
    \/ \E op \in {"import", "copy", "concat", "resize", "insert", "import_size"}, n \in 0 .. MaxLength :
          b \notin damaged /\ Unchanged(op, b, n, "SSM_NOMEMORY")
    \/ \E op \in {"import", "copy", "concat", "resize", "insert"} :
          /\ b \notin damaged /\ last'.want > SizeMax
          /\ Unchanged(op, b, last'.want, "SSM_SIZETOOLARGE")
    \/ \E op \in {"import_size", "insert", "set_range"} :
          Unchanged(op, b, 0, "SSM_SIZETOOLARGE")
    \/ b \notin damaged /\ Unchanged("insert", b, 0, "SSM_INDEXRANGE")

\* A call that names a damaged object, as its target or its source
Corrupted(b) ==
    \E op \in {"import", "import_size", "copy", "concat", "resize", "insert", "set_range", "free"} :
        /\ b \in damaged \/ (op \in {"copy", "concat"} /\ damaged # {})
        /\ Unchanged(op, b, last'.want, "SSM_CORRUPTED")

NullObject ==
    \/ \E op \in {"import", "import_size", "copy", "concat", "resize", "insert", "set_range"} :
          Unchanged(op, NULL, 0, "SSM_NULLOUT")
    \/ Unchanged("free", NULL, 0, "SSM_OK")

Overrun(b) == /\ damaged' = damaged \cup {b}
              /\ Outcome("overrun", b, 0, "SSM_OK")
              /\ UNCHANGED value

Called(op, arguments) == last'.op = op /\ args' = arguments

Succeed(b) ==
    \/ \E text \in Texts :
          \/ \E n \in {k \in Sizes : 0 .. k - 1 \subseteq DOMAIN text} :
                Called("import", <<text, n>>) /\ Import(b, text, n)
          \/ \E bound \in Sizes \cup {SizeMax} :
                Called("import_size", <<text, bound>>) /\ ImportString(b, text, bound)
    \/ \E s \in Bufs \cup {NULL} :
          \/ Called("copy", <<s>>) /\ Copy(b, s)
          \/ Called("concat", <<s>>) /\ Concat(b, s)
    \/ \E n \in Sizes : Called("resize", <<n>>) /\ Resize(b, n)
    \/ \E start, n \in Sizes : Called("insert", <<start, n>>) /\ Insert(b, start, n)
    \/ \E start \in Sizes \cup {0}, n \in Sizes \cup {Len(value[b])}, v \in Values :
          Called("set_range", <<start, n, v>>) /\ SetRange(b, start, n, v)
    \/ Free(b)

Next ==
    \/ NullObject
    \/ \E b \in Bufs : Succeed(b) \/ Fail(b) \/ Corrupted(b) \/ Overrun(b)

Spec == Init /\ [][Next]_vars

=============================================================================
