SPECIFICATION Spec
CONSTANTS
    Runs = {a, b, f}
    Flatteners = {f}
    None = None
    TTL = 3
    Timeout = 2
    Overlap = TRUE
    Lost = {}
INVARIANT MutualExclusion
