\* Two metrics, two calls, two samples, two incidents.
SPECIFICATION FairSpec
CONSTANTS
    NKeys = 2
    Prefetch = {p1, p2}
    Initial = p1
    Variants = {v1, v2}
    MaxTime = 2
    LastDay = 2
    ChunkSize = 2
    MaxIncidents = 2
    MaxBlobs = 4
    CacheConfigured = TRUE
    None = None
    Torn = Torn
PROPERTIES
    CatchesUp
