SPECIFICATION MCSpec
CONSTANTS
    i1 = i1
    i2 = i2
    c1 = c1
    l1 = l1
    k1 = k1
    r1 = r1
    r2 = r2
    p1 = p1
    p2 = p2
    a1 = a1
    u1 = u1
    Nobody = Nobody
    PublicIds <- MCPublicIds
    Carbons <- MCCarbons
    Lookups <- MCLookups
    Second = 2
    MaxChanges = 3
    Tokens <- MCTokens
    Requests <- MCRequests
    SecondLength = 3
    Refetch = 2
    MaxKeys = 2
    MaxInstant = 5
    NoSession = NoSession
    Processes <- MCProcesses
    Holders <- MCHolders
    Urls <- MCUrls
    BusyAfterRotation = FALSE
    MaxTokens = 3
    SlowStep = 2
    MaxInterval = 3
    MaxExpires = 10
    GivenIntervals <- MCIntervals
    GivenExpires <- MCExpires
    MaxLatency = 1
SYMMETRY MCSymmetry
CHECK_DEADLOCK FALSE
INVARIANTS
    DirectoryConverges
    RowIsConsistent
    AcceptedIsSignedIn
    RefusedRightly
    SpentTokenNotPresented
    SignInsAccounted
    PollsAsTold
