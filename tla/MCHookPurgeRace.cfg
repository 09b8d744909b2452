SPECIFICATION MCSpec
CONSTANTS
    Scenarios = {"free"}
    h1 = h1
    h2 = h2
    h3 = h3
    c1 = c1
    c2 = c2
    k1 = k1
    NoHook = NoHook
    NoKey = NoKey
    Hooks <- MCOneHook
    Clients <- MCOneClient
    Keys <- MCKeys
    Limit = 1
    Lag = 1
    Ahead = 0
    MaxClock = 2
    MaxSecret = 2
    Recovery = 1
    KeyLife = 2
    SecretReplay = 1
CHECK_DEADLOCK FALSE
PROPERTIES
    PurgeTakesDeletedHooks
