SPECIFICATION FairSpec
CONSTANTS
    s1 = s1
    s2 = s2
    s3 = s3
    p1 = p1
    p2 = p2
    l1 = l1
    l2 = l2
    NoLease = NoLease
    NoSend = NoSend
    Sends <- MCSends
    Observed <- MCNone
    Parked <- MCParked
    Publishers <- MCOnePublisher
    Leases <- MCOneLease
    LeaseTime = 2
    SendTimeout = 1
    CallTime = 0
    BaseDelay = 1
    MaxDelay = 1
    MaxExponent = 0
    AskedDelays <- MCAskedDelays
PROPERTIES
    Delivered
