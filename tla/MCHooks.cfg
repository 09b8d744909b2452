SPECIFICATION MCSpec
CONSTANTS
    Scenarios = {"creation", "secrets", "limit"}
    h1 = h1
    h2 = h2
    h3 = h3
    c1 = c1
    c2 = c2
    k1 = k1
    NoHook = NoHook
    NoKey = NoKey
    Hooks <- MCHooks
    Clients <- MCClients
    Keys <- MCKeys
    Limit = 2
    Lag = 1
    Ahead = 0
    MaxClock = 2
    MaxSecret = 2
    Recovery = 1
    KeyLife = 2
    SecretReplay = 0
SYMMETRY SymmetryTwo
CHECK_DEADLOCK FALSE
INVARIANTS
    TypeOK
    NoDuplicateCreation
    ToldSecretVerifies
    RetainedLimit
