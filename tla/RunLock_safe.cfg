SPECIFICATION FairSpec
CONSTANTS
    Runs = {a, b, f}
    Flatteners = {f}
    None = None
    TTL = 3
    Timeout = 2
    Overlap = FALSE
    Lost = {"put", "steal"}
INVARIANTS MutualExclusion HolderOwnsObject
PROPERTIES RefusedOnlyByAnother StaleLockIsTaken RefinesMutex
