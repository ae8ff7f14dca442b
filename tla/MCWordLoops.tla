---------------------------- MODULE MCWordLoops ----------------------------
(***************************************************************************)
(* Small instances of WordLoops for TLC, for words of 4 bytes.             *)
(***************************************************************************)
EXTENDS WordLoops

\* Copy: every alignment of both, and distances from none to two words
Starts == 0 .. 8

\* No word and one, two rounds of the loop unrolled 4 times and two of the one
\* unrolled 8 times, each with every entry of its switch and some tails
MCSizes == 0 .. 8 \cup 20 .. 35 \cup {39, 40, 43, 47, 51, 55, 59, 63, 67, 70}

\* Set: every alignment, sizes up to four words, and one above SizeMax
Alignments == 0 .. 3
MCSetSizes == 0 .. 17 \cup {SizeMax + 1}

\* Strings: within three words, up to two null bytes among bytes of 1, on which
\* a borrow of the null byte below makes the test on words err, and of 128, whose
\* high bit it has to leave out.
Nulls == {{i, j} : i, j \in 0 .. 13} \cup {{}}
MCMemories ==
    {[i \in 0 .. MemSize - 1 |-> IF i \in n THEN NUL ELSE IF i % 3 = 0 THEN u ELSE v] :
        n \in Nulls, u, v \in {1, 128}}
MCBounds == 0 .. 9 \cup {12, SizeMax, SizeMax + 1}

\* Comparisons: the second area 44 bytes after the first.  Their bytes are the
\* same up to the position d; there one area has the smaller byte and after it,
\* the other one.
Second == 44
MCLengths == 0 .. 9 \cup {12, 15, 18, 20, 23, 24, 28, 31, 33, 36, 39}

TwoAreas(s1, s2, d, up) ==
    [i \in 0 .. MemSize - 1 |->
        LET second == i >= Second
            k == IF second THEN i - (Second + s2) ELSE i - s1
            first == 100 + (k % 50)
        IN  IF k < 0 \/ k >= 40 THEN (IF second THEN 9 ELSE 7)
            ELSE IF ~ second \/ k \notin {d, d + 1} THEN first
            ELSE IF up <=> (k = d) THEN first + 100
            ELSE 0]

Pair(s1, n1, s2, n2, d, up) ==
    [addr1 |-> s1, size1 |-> n1, addr2 |-> Second + s2, size2 |-> n2,
     mem |-> TwoAreas(s1, s2, d, up)]

MCComparisons ==
    {Pair(s1, n, s2, n, d, up) :
        s1, s2 \in Alignments, n \in {1, 4, 9}, d \in 0 .. 9, up \in BOOLEAN}
    \cup
    {Pair(s1, n, s2, n, d, up) :
        s1, s2 \in Alignments, n \in MCLengths, d \in {5, 10, 15, 17, 22, 27, 32, 35, 38, 39},
        up \in BOOLEAN}
    \cup
    {Pair(s1, n[1], s2, n[2], 39, TRUE) :
        s1, s2 \in Alignments, n \in MCLengths \X {0, 7, 16, 33, SizeMax + 1}}

=============================================================================
