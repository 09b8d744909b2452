SPECIFICATION MCSpec
CONSTANTS
    c1 = c1
    c2 = c2
    q1 = q1
    r1 = r1
    r2 = r2
    s1 = s1
    s2 = s2
    h1 = h1
    h2 = h2
    l1 = l1
    i1 = i1
    i2 = i2
    i3 = i3
    u1 = u1
    u2 = u2
    u3 = u3
    o1 = o1
    o2 = o2
    e1 = e1
    e2 = e2
    Owner = Owner
    NoOne = NoOne
    Observers <- MCObservers
    Others <- MCOthers
    Callers <- MCCallers
    MaxObservers = 1
    MaxSubscriptions = 2
    MaxAccepted = 2
    Holders <- MCHolders
    Receivers <- MCReceivers
    AnyHook = AnyHook
    NoCursor = NoCursor
    Listers <- MCListers
    Limits = {0, 1, 2}
    MaxLimit = 2
    Weights = {1, 3}
    PageBudget = 2
    LogRetention = 2
    HookRecovery = 0
    PurgeBatch = 1
    MaxRows = 3
    MaxPresent = 2
    MaxBatch = 2
    Alien = Alien
    IamIds <- MCIamIds
    Uuids <- MCUuids
    NoLink = NoLink
    IsSilicon <- MCSilicons
    OldHooks <- MCOldHooks
    IamOwner <- MCIamOwner
    IamCreator <- MCIamCreator
    Editors <- MCEditors
    Patches <- MCPatches
    Unset = Unset
SYMMETRY MCSymmetry
CHECK_DEADLOCK FALSE
INVARIANTS
    
    ListingIsExact
    OutcomesAreTrue
    FilesDecide
    PolicyIsUsable
    
