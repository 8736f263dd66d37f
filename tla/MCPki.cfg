SPECIFICATION Spec
CONSTANTS
    p1 = p1
    p2 = p2
    n1 = n1
    Pairs = {p1, p2}
    Names = {n1}
    ServerName <- MCServerName
    Admins = {a1, a2}
    MaxOps = 4
    MaxFaults = 1
    None = None
SYMMETRY Symmetry
INVARIANTS
    RevokedIsRefused
    StartLoads
    AnsweredIsTrue
