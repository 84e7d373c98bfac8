SPECIFICATION Spec
CONSTANTS
    a = a
    b = b
    c = c
    w1 = w1
    w2 = w2
    t1 = t1
    u1 = u1
    u2 = u2
    Null = Null
    Listings <- Three
    Owner <- ThreeOwners
    Compatible <- Ring
    Unlocks = {u1}
    Workers = {w1}
    Timers = {}
    Swept <- OneSwept
    AcceptTtl = 1
    ExpireLimit = 1
    MaxClock = 2
    MaxFails = 1
    Restless = {a}
INVARIANTS
    ContactsNeedAll
    MatchedLeavesChains
PROPERTIES
    ChainsConsented
