\* An insertion that fits exactly.
CONSTANTS
    b1 = b1
    b2 = b2
    NULL = NULL
    Bufs <- TwoBuffers
    Capacity <- MCCapacity
    Texts <- MCTexts
    Sizes = {0, 1, 2, 4, 21}
    Values = {65}
    SizeMax = 20
    CanarySize = 0
SPECIFICATION Spec
PROPERTIES
    InsertTruncatesOnlyWhatExceeds
CHECK_DEADLOCK FALSE
