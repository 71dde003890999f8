SPECIFICATION ComponentsSpec
CONSTANTS
    Parts = {"keys", "settings", "discovery", "ownership", "health", "balancer", "upstream", "stream"}
    KeyIds = {k1, k2, k3}
    k1 = k1
    k2 = k2
    k3 = k3
    chat = chat
    read = read
    admin = admin
    UserScopes = {chat, read}
    AdminScopes = {admin}
    Asked = {{}, {chat}, {read, other}, {admin, chat}}
    other = other
    DefaultScopes = {chat}
    Ttls = {0, 3}
    Grace = 1
    KeyHorizon = 4
    NoKey = NoKey
    Gateways = {g1}
    g1 = g1
    Files <- Contents
    Environs <- Surroundings
    Broken = Broken
    NotRunning = NotRunning
    Mode = "research"
    Addrs = {a1}
    a1 = a1
    Sources <- ActiveSources
    s1 = s1
    Allowed <- Scopes
    Cyclers = {loop, operator}
    loop = loop
    operator = operator
    MaxRisk = 2
    Threshold = 2
    PerMinute = 1
    CacheLife = 2
    MaxRows = 3
    NoSource = NoSource
    Ids = {r1, r2}
    r1 = r1
    r2 = r2
    Hosts = {h1}
    h1 = h1
    Owners = {alice, bob}
    alice = alice
    bob = bob
    TokenOwner = alice
    Admin = Admin
    MaxProofs = 1
    NoHost = NoHost
    NoDoc = NoDoc
    NoOwner = NoOwner
    NoToken = NoToken
    Checked = {n1}
    n1 = n1
    Every <- Intervals
    LiveLimit = 2
    ReadyLimit = 2
    Functional = {n1}
    Handled = {"verified", "draining", "quarantined"}
    MaxFaults = 1
    b1 = b1
    b2 = b2
    b3 = b3
    q1 = q1
    Order <- Identifiers
    Base <- Weights
    Slots <- OneSlot
    Keys = {q1}
    Ring <- PointsOf
    Algorithms = {"round_robin", "weighted_round_robin", "least_connections", "consistent_hash"}
    MaxChoices = 4
    Servers = {u1, u2}
    u1 = u1
    u2 = u2
    NoServer = NoServer
    Policies <- RetryPolicies
    MaxTexts = 2
    IncludeUsage = TRUE
INVARIANTS
    ComponentsTypeOK
    RotatedKeyEnds
    RightsAsGranted
    SafeInForce
    EnvironmentPrevails
    AskedOncePerCycler
    HighRiskReviewed
    ProvenByOwner
    StartedOnce
    TriedOnce
    SpreadEvenly
    SharesKept
    ToldByBytes
PROPERTIES
    RefusalStands
    EnrollmentStands
    FileOutageKeepsNode
    KeepsPromise
    DeadNodeLeaves
    WithdrawalLeaves
    HashSticks
    KeepsReplyPromise
    StreamSettles
CHECK_DEADLOCK FALSE
