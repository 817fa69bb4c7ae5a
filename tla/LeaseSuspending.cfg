SPECIFICATION Spec
CONSTANTS
    Leases = {l1, l2, l3}
    Requests = {r1, r2}
    Priorities = {0, 1, 2}
    Ttls = {0, 1, 3}
    DefaultTtl = 2
    MaxTtl = 2
    PublishSuspends = TRUE
    NoLease = NoLease
    NoTakeover = NoTakeover
SYMMETRY Symmetry
INVARIANTS TypeOK PreemptedHasSuccessor CurrentIsLive
PROPERTIES NoResurrection KeepsView OverwrittenByTakeoverOnly
CHECK_DEADLOCK FALSE
