SPECIFICATION FairSpec
CONSTANTS
    a = a
    b = b
    c = c
    w1 = w1
    w2 = w2
    t1 = t1
    Null = Null
    Listings <- PairOf
    Owner <- PairOwner
    Compatible <- Pair
    Seeded <- PairOf
    Chains = {}
    Workers = {w1}
    Timers = {t1}
    ListingTtl = 1
    InterestTtl = 1
    DayLength = 3
    ListingSweepLimit = 1
    InterestSweepLimit = 1
    MaxOpen = 1
    MaxDaily = 9
    MaxClock = 2
    MaxFails = 0
INVARIANTS
    TypeOK
    MatchSettled
    BothSidesMatched
PROPERTIES
    ExpiryEndsOnlyOpen
    SweepClosesOnlyOverdue
    OverdueRequestsEnd
