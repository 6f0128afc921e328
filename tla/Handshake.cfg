SPECIFICATION FairSpec
CONSTANTS
    Counts = {1, 2}
    Timings <- EveryTiming
INVARIANTS StaggeredRoles MenuReady SecondFollowsFirst
PROPERTIES BothStart
CHECK_DEADLOCK FALSE
