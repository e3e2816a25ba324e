SPECIFICATION FairSpec
CONSTANTS
    large = large
    small = small
    private = private
    d1 = d1
    d2 = d2
    d3 = d3
    Wings = {large, small, private}
    Excluded = {private}
    Migrated = large
    Stored <- MCStored
    Fresh = {n}
    None = None
    PageSize = 1
    MaxRetries = 2
    MaxRuns = 2
    MaxFaults = 2
    MaxWrites = 2
INVARIANTS LossBounded RecordsFaithful
PROPERTIES ManifestLast RunEnds ComesNearer
CHECK_DEADLOCK FALSE
