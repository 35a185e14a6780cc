SPECIFICATION Spec
CONSTANTS
    StableLimit = 2
    Hashes = {1, 2, 3, 4, 5}
    Difficulties = {1}
    TipsLimit = 2
    MaxInterruptions = 0
PROPERTIES StableOrderKept
CHECK_DEADLOCK FALSE
