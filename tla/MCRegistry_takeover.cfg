SPECIFICATION Spec
CONSTANTS
    c1 = c1
    c2 = c2
    c3 = c3
    r1 = r1
    r2 = r2
    r3 = r3
    t1 = t1
    t2 = t2
    a1 = a1
    a2 = a2
    ip1 = ip1
    ip2 = ip2
    m1 = m1
    Conns = {c1, c2}
    Reqs = {r1, r2}
    Tenants = {t1}
    Agents = {a1}
    Ips = {ip1}
    PeerIp <- SameIp
    Vouched <- AllVouched
    AllowLegacy = FALSE
    DefaultTenant = t1
    Decls <- TwoSlots
    Models = {m1}
    AnyModel = AnyModel
    StreamCeiling = 2
    MAX_REGISTRATIONS_PER_CONNECTION = 4
    TUNNEL_TIMEOUTS_BEFORE_EVICT = 1
    MaxSid = 3
    NoConn = NoConn
    NoKey = NoKey
SYMMETRY Symmetry
CHECK_DEADLOCK FALSE
INVARIANTS
    SlotAccounting
    ClosesOnlyDrained
    TableIsOwned
    UncountedOnlyWhenDoomed
