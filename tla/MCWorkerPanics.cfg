SPECIFICATION MCSpec
CONSTANTS
    p1 = p1
    p2 = p2
    w1 = w1
    w2 = w2
    Parts = {"worker"}
    Workers <- MCWorkers
    Classes = {1, 2}
    BatchSize = 1
    Rounds = 2
    MaxDue = 2
    MaxStops = 2
    NoCall = NoCall
    Calls <- MCCalls
    MaxProofs = 3
    Life = 1
    FirstPause = 1
    MaxPause = 2
INVARIANTS
    RunReturns
CHECK_DEADLOCK FALSE
