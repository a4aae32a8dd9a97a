\* Expected violation: replacing a key subtracts its size, then evictToFitMemory may delete and subtract it again.
CONSTANTS
    k1 = k1
    k2 = k2
    k3 = k3
    Keys <- MCKeys
    Values <- LargeValues
    DefaultTTL = 2
    TTLs = {0, 1}
    MaxItems = 10000
    MaxMemory = 100
    MaxTime = 3
SPECIFICATION Spec
SYMMETRY Symmetry
INVARIANT MemoryBound
