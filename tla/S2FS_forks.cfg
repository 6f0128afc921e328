SPECIFICATION FairSpec
CONSTANTS
    NewPids = {3, 4}
    InfoLen <- ShortOrLong
    MaxCount = 2
    ExitInWalk = FALSE
INVARIANTS TreeComplete NamesUnique ReadWhole
PROPERTIES MountReturns
