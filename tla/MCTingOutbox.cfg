SPECIFICATION Spec
CONSTANTS
    s1 = s1
    s2 = s2
    s3 = s3
    p1 = p1
    p2 = p2
    l1 = l1
    l2 = l2
    NoLease = NoLease
    NoSend = NoSend
    Sends <- MCTwo
    Observed <- MCObserved
    Parked <- MCNone
    Publishers <- MCPublishers
    Leases <- MCLeases
    LeaseTime = 4
    SendTimeout = 1
    CallTime = 1
    BaseDelay = 1
    MaxDelay = 2
    MaxExponent = 1
    AskedDelays <- MCAskedDelays
SYMMETRY Symmetry
INVARIANTS
    OneSender
    AcceptanceRecordable
    NoWorkAfterAcceptance
PROPERTIES
    ImplementsNotifications
