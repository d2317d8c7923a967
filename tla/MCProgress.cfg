SPECIFICATION PSpec
CONSTANTS
    p1 = p1
    p2 = p2
    p3 = p3
    Procs = {p1, p2, p3}
    Keys = {"root", "src"}
    FileOf <- MCFileOf
    Temps = {"t1", "t2"}
    Capacity = 1
    StoreCapacity = 1
    PruneInterval = 2
INVARIANTS
    OneComputation
    NoHalfFile
    WaitersAreServed
    LruMatches
    PushesHold
PROPERTIES
    
    WorkEnds
CHECK_DEADLOCK FALSE
