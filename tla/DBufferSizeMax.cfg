\* One buffer without canaries: application sizes up to SizeMax itself.
CONSTANTS
    b1 = b1
    b2 = b2
    a1 = a1
    a2 = a2
    a3 = a3
    NULL = NULL
    Bufs <- OneBuffer
    Areas <- TwoAreas
    Texts <- MCLongTexts
    Sizes = {0, 2, 10, 20}
    Values = {66}
    MaxLength = 20
    SizeMax = 20
    CanarySize = 0
    SmallestAllocation = 8
    ShrinkPercent = 20
    SizeT = 1000000
SPECIFICATION Spec
INVARIANTS
    AllocatesAtMostSizeMax
CHECK_DEADLOCK FALSE
