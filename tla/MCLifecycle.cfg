SPECIFICATION LifeSpec
CONSTANTS
    r1 = r1
    r2 = r2
    r3 = r3
    u1 = u1
    u2 = u2
    Requests = {r1, r2}
    Configs <- MCConfigs
    Ids = {k1, k2}
    Horizon = 7
    DefaultStreams = 2
    HardLimit = 4
    TargetLimit = 3
    SoftLimit = 1
    Keys = {u1, u2}
    MaxUse = 3
    None = None
\* the gateway has stopped, or did not start
CHECK_DEADLOCK FALSE
INVARIANTS
    EndedIsBilled
    CutWasAnnounced
    StartIsWhole
    NothingCountedTwice
    QuietMeansPersisted
PROPERTIES
    ShutdownReturns
    KeysSurvive
    TotalsNeverRegress
    EventuallyPersisted
