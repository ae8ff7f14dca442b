\* Strings of any alignment in words of 4 bytes, searched up to a bound inside the
\* first three words.
CONSTANTS
    SizeMax = 1000
    CanarySize = 0
    WordSize = 4
    MemSize = 88
    OptimSpeed = TRUE
    Sources = {}
    Dests = {}
    CopySizes = {}
    Cuts = {}
    SetStarts = {}
    SetSizes = {}
    StringStarts <- Alignments
    Bounds <- MCBounds
    Memories <- MCMemories
    Comparisons = {}
SPECIFICATION Spec
INVARIANTS
    ReadsNotPastBound
CHECK_DEADLOCK FALSE
