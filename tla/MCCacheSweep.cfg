\* NewWithMaxItems(2 ticks, 2) with its cleanup goroutine under weak fairness.
CONSTANTS
    k1 = k1
    k2 = k2
    k3 = k3
    Keys <- MCKeys
    Values <- SmallValues
    DefaultTTL = 2
    TTLs = {0, 1}
    MaxItems = 2
    MaxMemory <- MiB100
    MaxTime = 3
SPECIFICATION FairSpec
PROPERTY ExpiredEventuallySwept
