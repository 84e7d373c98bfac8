SPECIFICATION Spec
CONSTANTS
    a = a
    b = b
    c = c
    w1 = w1
    w2 = w2
    t1 = t1
    Null = Null
    Listings <- MCListings
    Owner <- MCOwner
    Compatible <- Rivals
    Seeded <- MCListings
    Chains = {}
    Workers = {w1, w2}
    Timers = {}
    ListingTtl = 1
    InterestTtl = 1
    DayLength = 2
    ListingSweepLimit = 1
    InterestSweepLimit = 1
    MaxOpen = 9
    MaxDaily = 9
    MaxClock = 0
    MaxFails = 0
SYMMETRY TwoWorkers
INVARIANTS
    OneRenter
