\* Words of 4 bytes: all sizes up to two rounds of every unrolled loop.
CONSTANTS
    SizeMax = 1000
    CanarySize = 0
    WordSize = 4
    MemSize = 88
    OptimSpeed = TRUE
    Sources <- Starts
    Dests <- Starts
    CopySizes <- MCSizes
    Cuts = {0, 3}
    SetStarts <- Alignments
    SetSizes <- MCSetSizes
    StringStarts <- Alignments
    Bounds <- MCBounds
    Memories <- MCMemories
    Comparisons <- MCComparisons
SPECIFICATION Spec
INVARIANTS
    MovesLikeMemmove
    SetsLikeMemset
    FindsFirstNull
    ComparesBytes
    LoadsTouchSource
PROPERTIES
    StoresInDestination
    Terminates
CHECK_DEADLOCK FALSE
