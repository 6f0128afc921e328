SPECIFICATION SeqFairSpec
CONSTANTS
    PageCount = 2
    PageLen = 2
    Chars <- AB
    Texts <- TwoTexts
    FreshBufs <- Zeros
    UninitPages = {0}
    MaxOps = 3
INVARIANTS TypeOK LatestSurvives
PROPERTIES Coherent ReadGetsLatest ReadReturns
CHECK_DEADLOCK FALSE
