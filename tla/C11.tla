-------------------------------- MODULE C11 --------------------------------
(***************************************************************************)
(* The subset of C11 Annex K: the bounds-checking functions on areas given *)
(* by an address and a size.                                               *)
(*                                                                         *)
(* A program calls them one after the other on areas of one memory, which  *)
(* may overlap.  Each function tests its parameters in an order of its own *)
(* and, on a violation, clears or terminates its destination under         *)
(* conditions of its own.  The action of a function has its name.          *)
(***************************************************************************)
EXTENDS SSMCommon, FiniteSets, Sequences

CONSTANTS
    MemSize,    \* the size of the memory the program works on
    Chars,      \* what its bytes hold at first
    Values,     \* the values given to ssm_memset_s(), which are not all bytes
    Message,    \* the messages of ssm_status_string(), by status,
    Unknown,    \* and the one of any other number
    NULL        \* the null pointer, and no call

ASSUME C11Assumption ==
    /\ MemSize \in Nat \ {0}
    /\ Len(Unknown) <= SizeMax /\ \A e \in DOMAIN Message : Len(Message[e]) <= SizeMax
    /\ Chars \subseteq Byte /\ Values \subseteq Int
    /\ NULL \notin Nat

VARIABLES
    mem,        \* the memory, a function from addresses to bytes
    call        \* the call that has just been made and the status it returns

vars == <<mem, call>>

PERIOD == 46

Pointers == (0 .. MemSize - 1) \cup {NULL}

Sizes == 0 .. SizeMax + 1       \* RSIZE_MAX is SSM_SIZE_MAX

\* size bytes at p belong to the program, when a size can be meant
Fits(p, size) == p # NULL /\ size <= SizeMax => p + size <= MemSize

\* The address p is the one of a string, or of size bytes
Readable(p, size) ==
    ~ Fits(p, size) => \E i \in p .. MemSize - 1 : mem[i] = NUL

Returns(fn, s1, s1max, s2, n, status) ==
    call' = [fn |-> fn, s1 |-> s1, s1max |-> s1max, s2 |-> s2, n |-> n, status |-> status]

-----------------------------------------------------------------------------
(* What the functions call.                                                *)

\* ssm_cstring_length()
strnlen(p, max) ==
    IF p = NULL \/ max > SizeMax THEN 0
    ELSE CHOOSE k \in 0 .. max : /\ \A i \in p .. p + k - 1 : mem[i] # NUL
                                 /\ k = max \/ mem[p + k] = NUL

\* Mutant: a string that fills the area is accepted
NoRoomForMore(len, size) == len > size

\* There is no room for len bytes and a null one
NoRoom(len, size) == len >= size

\* What ssm_copy() returns
Copies(s1, s1max, n) == IF s1 = NULL THEN "SSM_NULLOUT" ELSE CopyStatus(s1max, n)

-----------------------------------------------------------------------------
(* Areas of bytes.                                                         *)

\* Mutant: the destination is made an empty string, as by the other functions
ZeroedFirst(s1, s1max) ==
    IF s1 # NULL /\ s1max \in 1 .. SizeMax THEN Fill(mem, s1, 1, 0) ELSE mem

\* The memory after an error
Zeroed(s1, s1max) ==
    IF s1 # NULL /\ s1max <= SizeMax THEN Fill(mem, s1, s1max, 0) ELSE mem

memmove_s(s1, s1max, s2, n) ==
    LET status == IF s2 = NULL THEN "SSM_NULLIN"
                  ELSE IF n > SizeMax THEN "SSM_SIZETOOLARGE"
                  ELSE IF n > s1max THEN "SSM_INDEXRANGE"
                  ELSE Copies(s1, s1max, n)
    IN  /\ Fits(s1, s1max) /\ Fits(s2, n)
        /\ mem' = IF status = "SSM_OK" THEN Move(mem, s1, mem, s2, n)
                  ELSE Zeroed(s1, s1max)
        /\ Returns("memmove_s", s1, s1max, s2, n, status)

\* c is converted to a byte
memset_s(s, smax, c, n) ==
    LET size == IF n > smax THEN smax ELSE n
    IN  /\ Fits(s, smax)
        /\ mem' = IF smax > SizeMax \/ s = NULL THEN mem ELSE Fill(mem, s, size, c % 256)
        /\ Returns("memset_s", s, smax, c, n,
               IF smax > SizeMax THEN "SSM_SIZETOOLARGE"
               ELSE IF s = NULL THEN "SSM_NULLOUT"
               ELSE IF n <= smax THEN "SSM_OK"
               ELSE IF n > SizeMax THEN "SSM_SIZETOOLARGE"
               ELSE "SSM_TRUNCATED")

-----------------------------------------------------------------------------
(* Copy of a string.                                                       *)

\* Mutant: the end of the destination is not compared with its size
CopyStringAnySize(status, s1, s1max, s2, len) ==
    LET copied == IF status = "SSM_OK" THEN Move(mem, s1, mem, s2, len) ELSE mem
        end == IF status = "SSM_OK" THEN len ELSE 0
    IN  mem' = IF s1 # NULL /\ s1max <= SizeMax THEN Fill(copied, s1 + end, 1, NUL)
               ELSE copied

\* len bytes are copied on success, and the destination is terminated there or
\* made an empty string
CopyString(status, s1, s1max, s2, len) ==
    LET copied == IF status = "SSM_OK" THEN Move(mem, s1, mem, s2, len) ELSE mem
        end == IF status = "SSM_OK" THEN len ELSE 0
    IN  mem' = IF s1 # NULL /\ s1max > end /\ s1max <= SizeMax
               THEN Fill(copied, s1 + end, 1, NUL)
               ELSE copied

strcpy_s(s1, s1max, s2) ==
    LET len == strnlen(s2, s1max)
        status == IF s2 = NULL THEN "SSM_NULLIN"
                  ELSE IF s1max < 1 THEN "SSM_SIZEZERO"
                  ELSE IF NoRoom(len, s1max) THEN "SSM_INDEXRANGE"
                  ELSE Copies(s1, s1max, len)
    IN  /\ Fits(s1, s1max) /\ Readable(s2, s1max)
        /\ CopyString(status, s1, s1max, s2, len)
        /\ Returns("strcpy_s", s1, s1max, s2, s1max, status)

strncpy_s(s1, s1max, s2, n) ==
    LET len == strnlen(s2, n)
        status == IF s2 = NULL THEN "SSM_NULLIN"
                  ELSE IF s1max < 1 THEN "SSM_SIZEZERO"
                  ELSE IF n > SizeMax THEN "SSM_SIZETOOLARGE"
                  ELSE IF NoRoom(len, s1max) THEN "SSM_INDEXRANGE"
                  ELSE Copies(s1, s1max, len)
    IN  /\ Fits(s1, s1max) /\ Readable(s2, n)
        /\ CopyString(status, s1, s1max, s2, len)
        /\ Returns("strncpy_s", s1, s1max, s2, n, status)

-----------------------------------------------------------------------------
(* Concatenation.                                                          *)

\* What both functions reject before they read the destination
Rejected(s1, s1max) ==
    IF s1 = NULL THEN "SSM_NULLOUT"
    ELSE IF s1max < 1 THEN "SSM_SIZEZERO"
    ELSE IF s1max > SizeMax THEN "SSM_SIZETOOLARGE"
    ELSE "SSM_OK"

\* Mutant: the end of the second string is counted from the destination
ConcatenateAtLength2(status, s1, len1, s2, len2) ==
    IF status = "SSM_OK"
    THEN mem' = Fill(Move(mem, s1 + len1, mem, s2, len2), s1 + len2, 1, NUL)
    ELSE mem' = Fill(mem, s1, 1, NUL)

\* len2 bytes are copied at the end of the first string on success, and the
\* destination is terminated there or made an empty string
Concatenate(status, s1, len1, s2, len2) ==
    IF status = "SSM_OK"
    THEN mem' = Fill(Move(mem, s1 + len1, mem, s2, len2), s1 + len1 + len2, 1, NUL)
    ELSE mem' = Fill(mem, s1, 1, NUL)

strcat_s(s1, s1max, s2) ==
    LET len1 == strnlen(s1, s1max)
        m == s1max - len1
        len2 == strnlen(s2, m)
        status == IF s2 = NULL THEN "SSM_NULLIN"
                  ELSE IF m = 0 \/ NoRoom(len2, m) THEN "SSM_INDEXRANGE"
                  ELSE Copies(s1 + len1, m, len2)
    IN  /\ Fits(s1, s1max)
        /\ IF Rejected(s1, s1max) # "SSM_OK"
           THEN /\ UNCHANGED mem
                /\ Returns("strcat_s", s1, s1max, s2, s1max, Rejected(s1, s1max))
           ELSE /\ Readable(s2, m)
                /\ Concatenate(status, s1, len1, s2, len2)
                /\ Returns("strcat_s", s1, s1max, s2, s1max, status)

strncat_s(s1, s1max, s2, n) ==
    LET len1 == strnlen(s1, s1max)
        m == s1max - len1
        bound == IF n < m THEN n ELSE m
        len2 == strnlen(s2, bound)
        status == IF s2 = NULL THEN "SSM_NULLIN"
                  ELSE IF n > SizeMax THEN "SSM_SIZETOOLARGE"
                  ELSE IF m = 0 \/ NoRoom(len2, m) THEN "SSM_INDEXRANGE"
                  ELSE Copies(s1 + len1, m, len2)
    IN  /\ Fits(s1, s1max)
        /\ IF Rejected(s1, s1max) # "SSM_OK"
           THEN /\ UNCHANGED mem
                /\ Returns("strncat_s", s1, s1max, s2, n, Rejected(s1, s1max))
           ELSE /\ Readable(s2, bound)
                /\ Concatenate(status, s1, len1, s2, len2)
                /\ Returns("strncat_s", s1, s1max, s2, n, status)

-----------------------------------------------------------------------------
(* Messages.                                                               *)

status_string(errnum) == IF errnum \in DOMAIN Message THEN Message[errnum] ELSE Unknown

strerrorlen_s(errnum) == Len(status_string(errnum))

\* Mutant: the periods are written after the message
EllipsisAtEnd(m, s, maxsize) == Fill(m, s + maxsize - 3, 3, PERIOD)

\* The last characters of a message cut in an area of this size
Ellipsis(m, s, maxsize) == Fill(m, s + maxsize - 4, 3, PERIOD)

strerror_s(s, maxsize, errnum) ==
    LET msg == [i \in 0 .. strerrorlen_s(errnum) - 1 |-> status_string(errnum)[i + 1]]
        len == strerrorlen_s(errnum)
        copied == CopiedSize(maxsize - 1, len, 0)
        text == Fill(Move(mem, s, msg, 0, copied), s + copied, 1, NUL)
        error == IF s = NULL THEN "SSM_NULLOUT"
                 ELSE IF maxsize > SizeMax THEN "SSM_SIZETOOLARGE"
                 ELSE IF maxsize < 1 THEN "SSM_SIZEZERO"
                 ELSE "SSM_OK"
    IN  /\ Fits(s, maxsize)
        /\ mem' = IF error # "SSM_OK" THEN mem
                  ELSE IF len >= maxsize /\ maxsize > 3 THEN Ellipsis(text, s, maxsize)
                  ELSE text
        /\ Returns("strerror_s", s, maxsize, errnum, 0,
               IF error # "SSM_OK" THEN error ELSE CopyStatus(maxsize - 1, len))

-----------------------------------------------------------------------------
Init == /\ mem \in [0 .. MemSize - 1 -> Chars]
        /\ call = NULL

\* The program looks at the result and goes on
GoesOn == /\ call # NULL
          /\ call' = NULL
          /\ UNCHANGED mem

Calls ==
    /\ call = NULL
    /\ \E s1 \in Pointers, s1max \in Sizes :
          \/ \E s2 \in Pointers, n \in Sizes :
                \/ memmove_s(s1, s1max, s2, n)
                \/ strncpy_s(s1, s1max, s2, n)
                \/ strncat_s(s1, s1max, s2, n)
          \/ \E s2 \in Pointers : strcpy_s(s1, s1max, s2) \/ strcat_s(s1, s1max, s2)
          \/ \E c \in Values, n \in Sizes : memset_s(s1, s1max, c, n)
          \* NULL is a number that is no status
          \/ \E e \in DOMAIN Message \cup {NULL} : strerror_s(s1, s1max, e)

Next == Calls \/ GoesOn

Spec == Init /\ [][Next]_vars

-----------------------------------------------------------------------------
(* Properties: what doc/ssm_c11k.texi says of each function, of a call and  *)
(* the memory before and after it.                                         *)

\* The string in the max bytes at p of the memory m, or all of them when none of
\* these is null
StringIn(m, p, max) ==
    LET size == IF p + max <= MemSize THEN max ELSE MemSize - p
        lengths == {k \in 0 .. size : \A i \in p .. p + k - 1 : m[i] # NUL}
    IN  [i \in 1 .. Cardinality(lengths) - 1 |-> m[p + i - 1]]

\* The part of the first string a concatenation leaves to the second
Room(c) == c.s1max - Len(StringIn(mem, c.s1, c.s1max))

\* A runtime-constraint violation, in the words of the manual.  Of strncpy_s it says
\* two different things: that s1max shall be greater than strnlen_s(s2, s1max), and, in
\* the row of n, that it shall be so if n is not less than s1max.  This is the second
\* one, and ShortDestinationIsRejected the first.
Violates(c) ==
    \/ c.s1 = NULL
    \/ c.s1max > SizeMax
    \/ c.fn \notin {"memset_s", "strerror_s"} /\ c.s2 = NULL
    \/ c.fn \in {"strncpy_s", "strncat_s"} /\ c.n > SizeMax
    \/ c.fn \in {"memmove_s", "memset_s"} /\ c.n > c.s1max
    \/ c.fn \notin {"memmove_s", "memset_s"} /\ c.s1max = 0
    \/ c.fn = "strcpy_s" /\ Len(StringIn(mem, c.s2, c.s1max)) >= c.s1max
    \/ c.fn = "strncpy_s" /\ c.n >= c.s1max /\ Len(StringIn(mem, c.s2, c.s1max)) >= c.s1max
    \/ c.fn \in {"strcat_s", "strncat_s"} /\ Room(c) = 0
    \/ c.fn = "strcat_s" /\ Len(StringIn(mem, c.s2, Room(c))) >= Room(c)
    \/ c.fn = "strncat_s" /\ c.n >= Room(c) /\ Len(StringIn(mem, c.s2, Room(c))) >= Room(c)

Called == call' # NULL

\* The message a call of strerror_s is for
MessageOf(c) == IF c.s2 \in DOMAIN Message THEN Message[c.s2] ELSE Unknown

\* A message is cut when the area has no room for it and a null byte
CutsMessage(c) == c.fn = "strerror_s" /\ Len(MessageOf(c)) >= c.s1max

\* A call reports an error exactly when it violates a constraint of its function,
\* whatever the order of the tests, or when it cuts a message.
RejectsViolations ==
    [][Called =>
          (call'.status # "SSM_OK" <=> Violates(call') \/ CutsMessage(call'))]_vars

\* ssm_c11k.texi, of the s1max of strncpy_s: "Shall be greater than strnlen_s(s2,
\* s1max)".  A call that is otherwise valid is then rejected.
ShortDestinationIsRejected ==
    [][Called /\ call'.fn = "strncpy_s" =>
        LET c == call'
        IN  ( /\ c.s1 # NULL /\ c.s2 # NULL
              /\ c.s1max \in 1 .. SizeMax /\ c.n <= SizeMax
              /\ Len(StringIn(mem, c.s2, c.s1max)) >= c.s1max )
            => c.status # "SSM_OK"]_vars

\* After a violation, the destination is in the state the manual prescribes:
\* zeroed, filled with the value, an empty string, or left alone for a message.
ClearsOnViolation ==
    [][Called /\ Violates(call') =>
        LET c == call'
            clears == c.s1 # NULL /\ c.s1max <= SizeMax
        IN  CASE c.fn = "memmove_s" -> clears => Holds(mem', c.s1, c.s1max, 0)
              [] c.fn = "memset_s" -> clears => Holds(mem', c.s1, c.s1max, c.s2 % 256)
              [] c.fn = "strerror_s" -> mem' = mem
              [] OTHER -> clears /\ c.s1max > 0 => mem'[c.s1] = NUL]_vars

\* The areas may overlap: after a success, the destination holds what the source
\* and the first string held before the call.
ResultAsIfCopiedApart ==
    [][Called /\ ~ Violates(call') =>
        LET c == call'
            result == StringIn(mem', c.s1, c.s1max)
        IN  CASE c.fn = "memmove_s" ->
                    \A i \in 0 .. c.n - 1 : mem'[c.s1 + i] = mem[c.s2 + i]
              [] c.fn = "memset_s" -> Holds(mem', c.s1, c.n, c.s2 % 256)
              [] c.fn \in {"strcpy_s", "strncpy_s"} ->
                    result = StringIn(mem, c.s2, c.n) /\ Len(result) < c.s1max
              [] c.fn \in {"strcat_s", "strncat_s"} ->
                    /\ result = StringIn(mem, c.s1, c.s1max) \o StringIn(mem, c.s2, c.n)
                    /\ Len(result) < c.s1max
              [] OTHER -> TRUE]_vars

\* Nothing is written outside the destination, and nothing at all when it is null
\* or its size is too large.
StaysInDestination ==
    [][Called => \A i \in DOMAIN mem' :
          i \notin DOMAIN mem \/ mem'[i] # mem[i] =>
              /\ call'.s1 # NULL /\ call'.s1max <= SizeMax
              /\ i \in call'.s1 .. call'.s1 + call'.s1max - 1]_vars

\* A message is a terminated string whatever the size of the area; one that does
\* not fit ends with periods when there is room for them.
MessageIsReadable ==
    [][Called /\ call'.fn = "strerror_s" /\ ~ Violates(call') =>
        LET c == call'
            msg == MessageOf(c)
            result == StringIn(mem', c.s1, c.s1max)
        IN  IF Len(msg) < c.s1max THEN result = msg
            ELSE /\ Len(result) = c.s1max - 1
                 /\ \A i \in DOMAIN result :
                       result[i] = IF c.s1max > 3 /\ i > c.s1max - 4 THEN PERIOD ELSE msg[i]
    ]_vars

=============================================================================
