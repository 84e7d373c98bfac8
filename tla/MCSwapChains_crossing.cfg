SPECIFICATION Spec
CONSTANTS
    a = a
    b = b
    c = c
    w1 = w1
    w2 = w2
    t1 = t1
    u1 = u1
    u2 = u2
    Null = Null
    Listings <- Two
    Owner <- TwoOwners
    Compatible <- Pair
    Unlocks = {}
    Workers = {w1, w2}
    Timers = {t1}
    Swept <- NothingSwept
    AcceptTtl = 1
    ExpireLimit = 1
    MaxClock = 2
    MaxFails = 1
    Restless = {}
SYMMETRY TwoWorkers
INVARIANTS
    LockedByAll
    MatchedLeavesChains
PROPERTIES
    ProposedOnce
    ChainsConsented
