SPECIFICATION FairSpec
CONSTANTS
    NewPids = {3, 4}
    InfoLen <- OneLength
    MaxCount = 1
    ExitInWalk = TRUE
PROPERTIES MountReturns
CHECK_DEADLOCK FALSE
