SPECIFICATION MCSpec
CONSTANTS
    StableLimit = 2
    Hashes = {1, 2, 3, 4, 5}
    Difficulties = {20, 50}
    TipsLimit = 2
    MaxInterruptions = 1
INVARIANTS TypeOK CumulativeIsPastWork CachedBaseIsFresh
PROPERTIES OrderedAfterParents OrderIsCanonical
CHECK_DEADLOCK FALSE
