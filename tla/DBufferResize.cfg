\* One buffer without canaries: what a shrinking resize answers.
CONSTANTS
    b1 = b1
    b2 = b2
    a1 = a1
    a2 = a2
    a3 = a3
    NULL = NULL
    Bufs <- OneBuffer
    Areas <- TwoAreas
    Texts <- MCLongTexts
    Sizes = {0, 2, 20}
    Values = {66}
    MaxLength = 50
    SizeMax = 1000
    CanarySize = 0
    SmallestAllocation = 8
    ShrinkPercent = 20
    SizeT = 1000000
SPECIFICATION Spec
PROPERTIES
    ResizeShrinks
CHECK_DEADLOCK FALSE
