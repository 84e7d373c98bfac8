SPECIFICATION Spec
CONSTANTS
    w1 = w1
    w2 = w2
    u1 = u1
    Null = Null
    Users = {u1}
    Workers = {w1, w2}
    CancelPenalty = 30
    NoShowPenalty = 50
    ManualPenalties = {40}
    CooldownAfter = 2
    CooldownHours = 2
    BlockAfter = 1
    BlockHours = 1
    ManualHours = {1, 3}
    MaxClock = 4
    MaxCalls = 3
    MaxFails = 1
SYMMETRY TwoWorkers
INVARIANTS
    NeverOverPenalised
    RestrictionsEnd
    SoleCallsAddUp
PROPERTIES
    OnlyStaffShortens
    NoCancellationWhileRestricted
