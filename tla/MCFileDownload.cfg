CONSTANTS
    ChunkSize = 2
    Sizes = {3, 5}
    RangeSets <- MCRangeSets
    LongSuffixes = TRUE
    MaxUploads = 3
    MaxClock = 2
SPECIFICATION FSpec
INVARIANTS LengthIsTheBody
CHECK_DEADLOCK FALSE
