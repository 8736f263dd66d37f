SPECIFICATION Spec
CONSTANTS
    Keys = {k1, k2}
    Owned = {k1, k2}
    Verifiers = {v1}
    Admins = {a1, a2}
    Slots = {s1, s2}
    MaxEntries = 1
    None = None
INVARIANT
    DisabledStaysDisabled
