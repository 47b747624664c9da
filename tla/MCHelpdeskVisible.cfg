SPECIFICATION Spec
CONSTANTS
    Ticket = {t1}
    Member = {m1}
    Chair = {h1}
    User = {u1, u2}
    Admin = {u1}
    Client = {c1}
    None = None
    MaxCalls = 4
    MaxFaults = 1
    MaxLost = 0
    MaxLinks = 1
INVARIANT NeverPowerfulInvisible
CHECK_DEADLOCK FALSE
