SPECIFICATION FairSpec
CONSTANTS
    t1 = t1
    t2 = t2
    t3 = t3
    h1 = h1
    h2 = h2
    a1 = a1
    a2 = a2
    Task <- MCTask
    Host = {h1, h2}
    HostOf <- MCHostOf
    Address = {a1, a2}
    NoAddress = NoAddress
    Limit = 2
    Window = 2
    MaxConcurrency = 2
    Timeout = 2
    Expiry = 3
    MaxTime = 5
INVARIANTS
    GrantsAreSpaced
    OneAddressPerHost
PROPERTY
    AssessmentEnds
CHECK_DEADLOCK FALSE
