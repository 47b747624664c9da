SPECIFICATION FairSpec
CONSTANTS
    root = root
    s1 = s1
    Subject = {root, s1}
    SeedUser = root
    Client = {p1, p2}
    p1 = p1
    p2 = p2
    Boot = {b1, b2}
    b1 = b1
    b2 = b2
    Registered = {s1}
    MaxRequests = 3
INVARIANTS
    GrantedByHolders
    BootstrapOnce
PROPERTIES
    SuperadminRemains
    Answered
CHECK_DEADLOCK FALSE
