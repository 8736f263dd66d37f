SPECIFICATION Spec
CONSTANTS
    Users = {u1, u2}
    Tenants = {t0, t1}
    DefaultTenant = t0
    Sessions = {s1, s2}
    Tasks = {k1, k2}
    Logins = {l1}
    Boots = {b1, b2}
    Budgets <- TwoAdmins
    None = None
PROPERTY
    SuperRemains
