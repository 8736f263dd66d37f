SPECIFICATION FairSpec
CONSTANTS
    Keys = {k1, k2}
    Owned = {k1}
    Verifiers = {v1, v2}
    Admins = {a1}
    Slots = {s1, s2}
    MaxEntries = 1
    None = None
INVARIANTS
    RevokedStaysRevoked
    OneProbePerKey
PROPERTY
    NobodyWaitsForever
