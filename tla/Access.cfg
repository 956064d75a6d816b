CONSTANTS
    a1 = a1
    a2 = a2
    i1 = i1
    i2 = i2
    k1 = k1
    k2 = k2
    h1 = h1
    h2 = h2
    x1 = x1
    x2 = x2
    y1 = y1
    y2 = y2
    App = {a1, a2}
    Issuer = {i1, i2}
    Key = {k1, k2}
    Inspection = {n1, n2}
    Operator = {x1, x2}
    Call = {x1, x2}
    Document <- Documents
    Token <- Tokens
    NoOne = NoOne
    CacheTtl = 1
    HardBound = 2
    MaxClock = 3
    MaxChanges = 2
    Registered <- FirstRegistry
    PublishedFirst <- FirstDocuments
    Request = {x1, x2}
    Demand <- Demands
    NoCapability = NoCapability
    MaxIssued = 2
    Instance = {y1, y2}
    Reader = {x1, x2}
    Item = {"a", "b"}
    Size <- Sizes
    Nobody = "nobody"
    maxBytes = 2
    maxMemoryBytes = 2
    maxEntryBytes = 2
    MaxClears = 1
    Process = {q1, q2}
    Slot = {1, 2}
    FirstSlot = 1
    MaxCookies = 3
    MaxKills = 1
    Row = {1, 2}
    Traversal = {t1}
    Limit = 1
    Attempts = 2
    MaxWrites = 3
    MaxListingClock = 2
    Listing = {"refs", "events", "apps", "accounts", "people", "platform", "invitations", "appAudit", "platformAudit"}
    CuNode = {h1, h2}
    CuChildren <- Tree
    CuCaller = {x1, x2}
    CuDurations = {1}
    CuSessionMs = 1
    CuReservationMs = 2
    CuLengths = {1}
    CuNone = CuNone
    CuMaxClock = 3
    CuMaxSessions = 2
    SmokeNode = {n1, n2}
    Foreign = {n2}
    OtherApp = other
    OAuthKey = {k1}
    Resetter = {x1, x2}
    Folder = {y1, y2}
    NoFolder = NoFolder
    MaxResets = 2
    Workloads <- AllWorkloads
SYMMETRY Symmetry
SPECIFICATION Spec
CHECK_DEADLOCK FALSE
INVARIANTS GrantWithinBound  ClearedStaysCleared  PagesAgree  
 
