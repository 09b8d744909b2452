SPECIFICATION MCSpec
CONSTANTS
    h1 = h1
    h2 = h2
    a1 = a1
    a2 = a2
    r1 = r1
    r2 = r2
    r3 = r3
    Hooks = {h1, h2}
    Addresses = {a1}
    Requests = {r1, r2, r3}
    Optional <- ThirdOptional
    Threshold = 2
    BlockTime = 3
    StaleAfter = 3
    RequestTime = 1
    MaxClock = 5
    MaxPolicy = 4
    MaxKey = 2
    MaxEvents = 3
INVARIANTS
    TypeOK
    SequenceIsDense
    IssuedKeyIsKnown
    AuthenticWhenReceived
SYMMETRY RequestSymmetry
PROPERTIES BlockedIsRejected
CHECK_DEADLOCK FALSE
