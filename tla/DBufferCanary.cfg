\* Two buffers with canaries of one cell.  A length of 0 or 1 takes an area of 4
\* cells and one of 2 an area of 5 on the first call, of 8 where 4 are doubled;
\* from 8 cells a length of 0 or 1 goes back to 4.  The areas reach SizeMax.
CONSTANTS
    b1 = b1
    b2 = b2
    a1 = a1
    a2 = a2
    a3 = a3
    NULL = NULL
    Bufs <- TwoBuffers
    Areas <- ThreeAreas
    Texts <- MCTexts
    Sizes = {0, 1, 2, 9}
    Values = {65}
    MaxLength = 2
    SizeMax = 8
    CanarySize = 1
    SmallestAllocation = 4
    ShrinkPercent = 60
    SizeT = 10000
SPECIFICATION Spec
SYMMETRY AreaSymmetry
VIEW View
INVARIANTS
    TypeOK
    Ownership
    InBounds
    IntactUnlessDamaged
    DamageStaysVisible
    ShowsAString
    NoFalseAlarm
PROPERTIES
    DamagedIsLeftAlone
    Implements
    ErrorChangesNothing
CHECK_DEADLOCK FALSE
