\* Platform role: one subject, one bootstrap, one request (more in MCPlatformRole).
\* Org tree: two companies, three further units, one position, two requests.
\* Tenancy: two built-in modules, one app, one company, two replicas, two clients.
\* Accounts: a person and a service account, two policies, two requests at once.
\* Verifier: one key published and withdrawn, two requests and the ticker.
\* Gateway: one caller, two requests, two changes or restarts.
CONSTANTS
    None = None
    Client = {c1, c2}
    Unit = {A, B, u, v, w}
    CompanyUnit = {A, B}
    Position = {p}
    MaxDepth = 1
    base = base
    user = user
    app = app
    Known <- MCKnown
    App = {app}
    Mandatory = {}
    Dep <- MCDep
    TypeOf <- MCTypeOf
    Listed <- MCListed
    Company = {co}
    Replica = {r1, r2}
    TenancyOps = 4
    User = {u1, u2}
    Service = {u2}
    Policy = {0, 1}
    TTL = 2
    Latency = 1
    AccountOps = 5
    AccountTime = 3
    Timeout = 1
    Kid = {k}
    Inbound = {q1, q2}
    Ticker = ticker
    CacheTTL = 3
    Interval = 3
    Cooldown = 1
    KidMiss = 1
    MaxTokens = 3
    TokenTime = 4
    Subject = {s}
    SeedUser = s
    s = s
    Boot = {b}
    Registered = {}
    MaxRequests = 1
    CatalogTTL = 1
    MaxStale = 2
    ProvTTL = 2
    CacheMax = 1
    MaxCalls = 3
    MaxEvents = 2
    GatewayTime = 3
SPECIFICATION PlatformSpec
SYMMETRY Symmetry
INVARIANTS
    TreeIsForest
    PositionsStay
    ConsistentSinceQuietBoot
    ExcludedStaysExcluded
    SyncWritesOnlyTheMode
    
    WithdrawnKeyExpires
    RotationHeals
    ForwardedOnRecentFacts
CHECK_DEADLOCK FALSE
