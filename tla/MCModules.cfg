\* Docs: two documents, one member, two users, two requests at once.
\* Timesheet: one week of two entries, two requests at once.
\* Notification: one channel besides the events', two payloads for one key.
\* Lists: three rows, pages of one and two rows, one change during the walk.
\* Helpdesk: one ticket, one member and one chair, two users, two requests at
\* once, a failing call, a lost answer and a changed link.
CONSTANTS
    None = None
    Client = {c1, c2}
    Key = {k}
    Doc = {d1, d2}
    Member = {m}
    User = {o, u}
    Owner = o
    DocCalls = 4
    Week = {w}
    Slot <- MCSlot
    Hours = {1, 2}
    Config <- MCConfig
    Approver = {a}
    Channel = {ch}
    Bearer = {s}
    Admin = {o}
    Ticket = {t}
    Chair = {h}
    HelpdeskCalls = 4
    MaxCalls = 6
    MaxFaults = 1
    MaxLost = 1
    MaxLinks = 1
    Payload = {p, q}
    MaxSends = 2
    Item = {i1, i2, i3}
    SortKey = {1, 2, 3}
    MaxPage = 2
    MaxPageSize = 2
    Default = 2
    Asked = {0, 1, 2, 3}
    MaxChanges = 1
SPECIFICATION ModulesSpec
SYMMETRY Symmetry
INVARIANTS
    AgentsExactUnlessDisturbed
    AssigneesAreAgents
    ListedIsWhatOpens
    ShareExactUnlessDisturbed
    ApprovedStaysAsApproved
    SubmittedAwaitsDecision
    
    WalkComplete
CHECK_DEADLOCK FALSE
