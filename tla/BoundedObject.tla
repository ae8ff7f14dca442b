--------------------------- MODULE BoundedObject ---------------------------
(***************************************************************************)
(* What a static buffer or string promises: each object is a sequence of    *)
(* at most Capacity bytes; a result that does not fit is cut to the         *)
(* capacity and reported as truncated; a call that reports an error leaves *)
(* the object alone.  Terminators and canaries do not appear.              *)
(*                                                                         *)
(* One promise is weaker than the manual's: an insertion whose hole ends    *)
(* exactly at the capacity may be reported as truncated although nothing   *)
(* was lost.                                                               *)
(***************************************************************************)
EXTENDS Integers, Sequences

CONSTANTS Bufs, Capacity, NULL, Texts, Sizes, Values, SizeMax

VARIABLES value, damaged, last, args

vars == <<value, damaged, last, args>>

Operations == {"import", "import_size", "copy", "concat", "resize", "insert", "set_range"}

Outcome(op, b, n, st) == last' = [op |-> op, obj |-> b, want |-> n, status |-> st]

Init == /\ value = [b \in Bufs |-> <<>>]
        /\ damaged = {}
        /\ last = [op |-> "init", obj |-> NULL, want |-> 0, status |-> "SSM_OK"]
        /\ args = <<>>

Fits(b, n) == n <= Capacity[b]

Cut(b, v) == IF Fits(b, Len(v)) THEN v ELSE SubSeq(v, 1, Capacity[b])

\* b gets the value v, or the part of it that fits
Becomes(op, b, v) ==
    /\ b \notin damaged
    /\ Outcome(op, b, Len(v), IF Fits(b, Len(v)) THEN "SSM_OK" ELSE "SSM_TRUNCATED")
    /\ value' = [value EXCEPT ![b] = Cut(b, v)]
    /\ UNCHANGED damaged

Unchanged(op, b, n, st) ==
    /\ Outcome(op, b, n, st)
    /\ UNCHANGED <<value, damaged>>

\* A prefix of a text, counted from position 0
Prefix(text, n) == [i \in 1 .. n |-> text[i - 1]]

Import(b, text, n) == Becomes("import", b, Prefix(text, n))

\* The bytes of a string before its null byte.  Its length may be cut to any
\* bound, or by ssm_sstring_import() to one that does not fit.
ImportString(b, text, bound) ==
    \E len \in {0} \cup {i + 1 : i \in DOMAIN text} :
        /\ \A i \in 0 .. len - 1 : text[i] # 0
        /\ \/ len \in DOMAIN text /\ text[len] = 0
           \/ len = bound
           \/ bound = NULL /\ ~ Fits(b, len)
        /\ Becomes("import_size", b, Prefix(text, len))

Copy(b, s) ==
    /\ s \notin damaged
    /\ Becomes("copy", b, IF s = NULL THEN <<>> ELSE value[s])

Concat(b, s) ==
    /\ s \notin damaged
    /\ Becomes("concat", b, value[b] \o (IF s = NULL THEN <<>> ELSE value[s]))

\* Bytes past the old length have any value
Resize(b, n) ==
    LET new == value'[b]
    IN  /\ b \notin damaged
        /\ Outcome("resize", b, n, IF Fits(b, n) THEN "SSM_OK" ELSE "SSM_TRUNCATED")
        /\ Len(new) = IF Fits(b, n) THEN n ELSE Capacity[b]
        /\ \A i \in 1 .. Len(new) : i <= Len(value[b]) => new[i] = value[b][i]
        /\ value' = [value EXCEPT ![b] = new]
        /\ UNCHANGED damaged

\* The bytes from start on move n up.  The hole keeps the bytes it covers, and
\* has any value past the old length.
Insert(b, start, n) ==
    LET old  == value[b]
        new  == value'[b]
        want == Len(old) + n
    IN  /\ b \notin damaged /\ start <= Len(old)
        /\ \/ Outcome("insert", b, want, IF Fits(b, want) THEN "SSM_OK" ELSE "SSM_TRUNCATED")
           \/ n > 0 /\ start + n = Capacity[b] /\ Outcome("insert", b, want, "SSM_TRUNCATED")
        /\ Len(new) = IF Fits(b, want) THEN want ELSE Capacity[b]
        /\ \A i \in 1 .. Len(new) :
              LET from == IF i <= start + n THEN i ELSE i - n
              IN  from <= Len(old) => new[i] = old[from]
        /\ value' = [value EXCEPT ![b] = new]
        /\ UNCHANGED damaged

\* The part of the range that lies in the value is set
SetRange(b, start, n, v) ==
    LET old == value[b]
    IN  /\ b \notin damaged
        /\ Outcome("set_range", b, n,
                   IF start + n > Len(old) THEN "SSM_TRUNCATED" ELSE "SSM_OK")
        /\ value' = [value EXCEPT ![b] =
                [i \in 1 .. Len(old) |-> IF i - 1 \in start .. start + n - 1 THEN v ELSE old[i]]]
        /\ UNCHANGED damaged

\* Errors: a size above the maximum, a position past the end
Fail(b) ==
    \/ \E op \in Operations \ {"copy", "concat"} :
          Unchanged(op, b, last'.want, "SSM_SIZETOOLARGE")
    \/ b \notin damaged /\ Unchanged("insert", b, last'.want, "SSM_INDEXRANGE")

\* A call that names a damaged object, as its target or its source
Corrupted(b) ==
    \E op \in Operations :
        /\ b \in damaged \/ (op \in {"copy", "concat"} /\ damaged # {})
        /\ Unchanged(op, b, last'.want, "SSM_CORRUPTED")

NullObject == \E op \in Operations : Unchanged(op, NULL, 0, "SSM_NULLOUT")

Overrun(b) == /\ damaged' = damaged \cup {b}
              /\ Outcome("overrun", b, 0, "SSM_OK")
              /\ UNCHANGED value

Called(op, arguments) == last'.op = op /\ args' = arguments

Succeed(b) ==
    \/ \E text \in Texts :
          \/ \E n \in {k \in Sizes : 0 .. k - 1 \subseteq DOMAIN text} :
                Called("import", <<text, n>>) /\ Import(b, text, n)
          \/ \E bound \in Sizes \cup {NULL} :
                Called("import_size", <<text, bound>>) /\ ImportString(b, text, bound)
    \/ \E s \in Bufs \cup {NULL} :
          \/ Called("copy", <<s>>) /\ Copy(b, s)
          \/ Called("concat", <<s>>) /\ Concat(b, s)
    \/ \E n \in Sizes : Called("resize", <<n>>) /\ Resize(b, n)
    \/ \E start, n \in Sizes : Called("insert", <<start, n>>) /\ Insert(b, start, n)
    \/ \E start \in Sizes \cup {0}, n \in Sizes \cup {Len(value[b])}, v \in Values :
          Called("set_range", <<start, n, v>>) /\ SetRange(b, start, n, v)

Next ==
    \/ NullObject
    \/ \E b \in Bufs : Succeed(b) \/ Fail(b) \/ Corrupted(b) \/ Overrun(b)

Spec == Init /\ [][Next]_vars

=============================================================================
