\* A memory of five bytes, sizes up to one more than SSM_SIZE_MAX.
CONSTANTS
    NULL = NULL
    MemSize = 5
    SizeMax = 5
    CanarySize = 0
    Chars = {0, 1}
    Values <- MCValues
    Message <- MCMessage
    Unknown <- MCUnknown
SPECIFICATION Spec
PROPERTIES
    RejectsViolations
    ClearsOnViolation
    ResultAsIfCopiedApart
    StaysInDestination
    MessageIsReadable
