SPECIFICATION Spec
CONSTANTS
    StableLimit = 2
    Hashes = {1, 2, 3, 4, 5}
    Difficulties = {20, 50}
    TipsLimit = 2
    MaxInterruptions = 0
INVARIANTS TopoheightCounts
CHECK_DEADLOCK FALSE
