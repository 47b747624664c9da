SPECIFICATION FairSpec
CONSTANTS
    j1 = j1
    j2 = j2
    Job = {j1, j2}
    CreatedAt <- Ages
    Worker = {w1, w2}
    None = None
    BatchSize = 1
    MaxAttempts = 2
    Lease = 3
    Backoff = 1
    MaxFaults = 1
PROPERTY EveryJobSettles
CHECK_DEADLOCK FALSE
