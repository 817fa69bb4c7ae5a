SPECIFICATION FairSpec
CONSTANTS
    Leases = {l1, l2, l3}
    Requests = {r1, r2}
    Priorities = {0, 1, 2}
    Ttls = {0, 1, 3}
    DefaultTtl = 2
    MaxTtl = 2
    PublishSuspends = FALSE
    NoLease = NoLease
    NoTakeover = NoTakeover
INVARIANTS OneHolder AnnouncedIsTrue
PROPERTIES KeepsPromise UnrenewedLeaseEnds
CHECK_DEADLOCK FALSE
