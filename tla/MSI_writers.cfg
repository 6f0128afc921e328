SPECIFICATION WriteSpec
CONSTANTS
    PageCount = 2
    PageLen = 2
    Chars <- AB
    Texts <- OneText
    FreshBufs <- Zeros
    UninitPages <- NoPages
    MaxOps = 2
INVARIANTS OneModified
CHECK_DEADLOCK FALSE
