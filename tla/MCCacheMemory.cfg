\* NewWithMemoryLimit, scaled: the memory bound binds, the item count does not.
CONSTANTS
    k1 = k1
    k2 = k2
    k3 = k3
    Keys <- MCKeys
    Values <- LargeValues
    DefaultTTL = 0
    TTLs = {0, 1}
    MaxItems = 10000
    MaxMemory = 100
    MaxTime = 3
SPECIFICATION Spec
SYMMETRY Symmetry
PROPERTY ImplementsAbstract
