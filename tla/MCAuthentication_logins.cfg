SPECIFICATION Spec
CONSTANTS
    w1 = w1
    w2 = w2
    p1 = p1
    p2 = p2
    m1 = m1
    a1 = a1
    Null = Null
    Phones = {p1, p2}
    Emails = {m1}
    Addresses = {a1}
    Workers = {w1, w2}
    MaxAttempts = 2
    Window = 1
    Lock = 1
    TokenTtl = 1
    MaxClock = 3
    MaxTokens = 3
SYMMETRY Alike
INVARIANTS
    AttemptsBounded
    SessionNeedsVerified
    LinkWorksOnce
PROPERTIES
    AnswerTellsLock
