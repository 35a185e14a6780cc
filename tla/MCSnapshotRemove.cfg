SPECIFICATION Spec
CONSTANTS
    k1 = k1
    k2 = k2
    v1 = v1
    v2 = v2
    None = None
    Untouched = Untouched
    CountKey = CountKey
    CountBound = 3
    Keys <- MCKeys
    Values <- MCValues

PROPERTY RemoveDeletes
