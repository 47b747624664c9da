CONSTANTS
    p1 = p1
    m1 = m1
    m2 = m2
    c1 = c1
    c2 = c2
    acme = acme
    None = None
    Open = Open
    Position = {p1}
    Member = {m1, m2}
    Client = {c1, c2}
    CompanyOf <- Companies
    MaxDay = 2
    MaxAsg = 3
    MaxCalls = 5
SPECIFICATION Spec
SYMMETRY Symmetry
INVARIANT
    LiveIsAnchored
