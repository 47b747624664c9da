SPECIFICATION FairSpec
CONSTANTS
    u = u
    g1 = g1
    g2 = g2
    c1 = c1
    d1 = d1
    d2 = d2
    Object <- MCObject
    TypeOf <- MCTypeOf
    Rel <- MCRel
    Expr <- MCExpr
    Model <- MCModel
    Parts <- MCParts
    AllTuples <- MCAllTuples
    Graphs <- MCGraphs
    Subject = u
    Workers = {w1, w2}
    w1 = w1
    w2 = w2
    MaxDepth = 3
    Requests <- MCRequests
    NoCompany = NoCompany
    MaxWrites = 1
    Stages <- MCStages
INVARIANTS
    AllowSound
    DenySound
    DepthIsPathLength
PROPERTY EveryItemAnswered
CHECK_DEADLOCK FALSE
