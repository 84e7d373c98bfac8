SPECIFICATION Spec
CONSTANTS
    w1 = w1
    w2 = w2
    u1 = u1
    r1 = r1
    r2 = r2
    e1 = e1
    e2 = e2
    e3 = e3
    e4 = e4
    e5 = e5
    e6 = e6
    Null = Null
    Users = {u1}
    References = {r1, r2}
    Checkouts = {r1}
    Events = {e1, e2, e3, e4, e5, e6}
    Anonymous = {e3, e6}
    Testers = {}
    Workers = {w1, w2}
    Payer <- OnePayer
    Type <- EventTypes
    Reference <- EventReferences
    EndsAt <- EventEnds
    Duration = 1
    MaxClock = 2
    MaxDeliveries = 4
    MaxFails = 1
SYMMETRY TwoWorkers
INVARIANTS
    RecordedWasApplied
    AccessIsPaid
    CanceledEndsAccess
    SoleDeliveryAppliesOnce
    TablesAgree
