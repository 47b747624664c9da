\* Grants: two companies, one object, three requests at a time, five in all.
\* Decision: five kinds of object, two facts amiss or one and two changes.
SPECIFICATION AuthzSpec
CONSTANTS
    None = None
    acme = acme
    beta = beta
    sheet = sheet
    ua = ua
    ub = ub
    app = app
    Client = {p1, p2, p3}
    Company = {acme, beta}
    Object = {sheet}
    Actor = {ua, ub, app}
    Owner = app
    Access <- MCAccess
    Request <- MCRequest
    InitTuples <- MCInit
    MaxRequests = 5
    own = own
    mod = mod
    doc = doc
    pos = pos
    odd = odd
    NoObject = NoObject
    Target <- MCTarget
    Kind <- MCKind
    Names <- MCNames
    Requests <- MCAsked
    MaxChanges = 2
INVARIANTS
    
    NoRevivalUnlessRaced
    AnswersGrounded
    OrderedReason
SYMMETRY ClientSymmetry
CHECK_DEADLOCK FALSE
