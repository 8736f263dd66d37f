SPECIFICATION FairSpec
CONSTANTS
    c1 = c1
    c2 = c2
    c3 = c3
    r1 = r1
    r2 = r2
    r3 = r3
    t1 = t1
    t2 = t2
    a1 = a1
    a2 = a2
    ip1 = ip1
    ip2 = ip2
    m1 = m1
    Conns = {c1, c2}
    Reqs = {r1}
    Tenants = {t1, t2}
    Agents = {a1}
    Ips = {ip1}
    PeerIp <- SameIp
    Vouched <- SomeVouched
    AllowLegacy = TRUE
    DefaultTenant = t1
    Decls <- OneSlot
    Models = {m1}
    AnyModel = AnyModel
    StreamCeiling = 1
    MAX_REGISTRATIONS_PER_CONNECTION = 2
    TUNNEL_TIMEOUTS_BEFORE_EVICT = 1
    MaxSid = 2
    NoConn = NoConn
    NoKey = NoKey
CHECK_DEADLOCK FALSE
INVARIANTS
    TenantIsolation
PROPERTIES
    ZombieIsClosed
    ClosedIsRemoved
