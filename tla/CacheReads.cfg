\* One metric, two calls and one reader, blobs of two rows; the day moves on, the
\* variants change, and one failure or crash.  The dates, in thirds of a minute, are
\* the samples 1 and 3, and dates rounded up and down to 2 and up to 3.
SPECIFICATION SpecReads
CONSTANTS
    NKeys = 1
    Prefetch = {p1, p2}
    Initial = p1
    Variants = {v1, v2}
    MaxTime = 3
    LastDay = 2
    MaxBlobs = 3
    ChunkSize = 2
    MaxIncidents = 1
    Dates = {3, 5, 7, 8, 9}
    CacheConfigured = TRUE
    None = None
    Torn = Torn
SYMMETRY Symmetry
INVARIANTS
    LockHasOneOwner
    FilesAgree
    QuietReadsAreExact
    RacingReadsHaveNoHoles
