SPECIFICATION FairSpec
CONSTANTS
    PageCount = 1
    PageLen = 2
    Chars <- AB
    Texts <- OneText
    FreshBufs <- Zeros
    UninitPages <- NoPages
    MaxOps = 2
INVARIANTS PageNumInRange
PROPERTIES QuitPropagates
CHECK_DEADLOCK FALSE
