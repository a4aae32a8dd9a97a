\* Expected violation: Get still returns an entry at the instant of its expiration.
CONSTANTS
    k1 = k1
    k2 = k2
    k3 = k3
    Keys <- MCKeys
    Values <- SmallValues
    DefaultTTL = 2
    TTLs = {0, 1}
    MaxItems = 2
    MaxMemory <- MiB100
    MaxTime = 2
SPECIFICATION Spec
SYMMETRY Symmetry
INVARIANT ExpiredNeverReturned
