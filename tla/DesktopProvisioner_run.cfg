SPECIFICATION Spec
CONSTANTS
    Reqs = {r1, r2, r3}
    Users = {u1, u2}
    None = None
    Ips = {a}
    RateLimit = 1
    MaxInst = 3
    MaxFaults = 1
    MaxOverlaps = 1
SYMMETRY Symmetry
INVARIANTS RecordSound NoOrphans OneDesktop
CHECK_DEADLOCK FALSE
