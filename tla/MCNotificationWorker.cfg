SPECIFICATION Spec
CONSTANTS
    j1 = j1
    j2 = j2
    Job = {j1, j2}
    CreatedAt <- Ages
    Worker = {w1, w2}
    None = None
    BatchSize = 2
    MaxAttempts = 2
    Lease = 3
    Backoff = 1
    MaxFaults = 2
SYMMETRY Symmetry
INVARIANTS
    HeldWhileTicking
    SentOnceUnlessExcused
PROPERTY ImplementsQueue
CHECK_DEADLOCK FALSE
