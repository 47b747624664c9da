CONSTANTS
    m1 = m1
    m2 = m2
    u1 = u1
    u2 = u2
    c1 = c1
    c2 = c2
    acme = acme
    None = None
    Member = {m1, m2}
    User = {u1, u2}
    Client = {c1, c2}
    Company = {acme}
    CompanyOf <- SameCompany
    MaxCalls = 7
SPECIFICATION Spec
SYMMETRY Symmetry
INVARIANTS
    LinkedIsMapped
    ExactUnlessRaced
