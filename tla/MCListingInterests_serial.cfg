SPECIFICATION Spec
CONSTANTS
    a = a
    b = b
    c = c
    w1 = w1
    w2 = w2
    t1 = t1
    Null = Null
    Listings <- MCListings
    Owner <- MCOwner
    Compatible <- Triangle
    Seeded = {a, b}
    Chains <- OnePair
    Workers = {w1}
    Timers = {}
    ListingTtl = 1
    InterestTtl = 1
    DayLength = 2
    ListingSweepLimit = 1
    InterestSweepLimit = 1
    MaxOpen = 2
    MaxDaily = 1
    MaxClock = 2
    MaxFails = 0
INVARIANTS
    RivalsReleased
    DailyWithinCap
PROPERTIES
    MatchedStays
    ExclusiveRentings
