CONSTANTS
    s1 = s1
    s2 = s2
    k1 = k1
    k2 = k2
    k3 = k3
    Sessions <- MCSessions
    Keys <- MCKeys
    Capacity = 2
    MaxReads = 6
SYMMETRY MCCacheSymmetry
SPECIFICATION Spec
INVARIANT CacheBounded LruTracksCache
PROPERTY DeletesOnlyUnmapped
PROPERTY CacheRefined
