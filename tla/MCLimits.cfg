SPECIFICATION LimitsSpec
CONSTANTS
    Conns = {c1, c2, c3}
    MaxConnections = 2
    GatedLimits = {0, 1}
    ProbeLimit = 1
    ScrapeLimit = 1
    TenantLimits = {0, 1}
    Tls = TRUE
    MaxRequests = 2
    KeyIds = {k1, k2}
    TenantIds = {t1}
    Capacity = 1
    IdleTtl = 2
    MaxTicks = 3
    Usernames = {u1, u2}
    Attempts = {a1, a2}
    UserLimit = 2
    GlobalLimit = 3
    None = None
    Nobody = Nobody
INVARIANTS SlotsAreExact OvershootIsBounded
PROPERTY EntryListens
\* the gateway may have been dropped, and all clocks run out
CHECK_DEADLOCK FALSE
