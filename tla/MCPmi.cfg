CONSTANTS
    p0 = p0
    p1 = p1
    p2 = p2
    k1 = k1
SPECIFICATION FairSpec
CHECK_DEADLOCK FALSE
INVARIANTS PmiInv FenceShows ClientsRight LifecycleRight
PROPERTIES EveryProcessEnds
