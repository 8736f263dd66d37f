SPECIFICATION FairSpec
CONSTANTS
    a1 = a1
    a2 = a2
    Agents = {a1, a2}
    MAX_TUNNEL_ATTEMPTS = 2
    ChannelCap = 1
    MaxChunks = 2
    NoAgent = NoAgent
CHECK_DEADLOCK FALSE
INVARIANTS
    AtMostOnce
    RefusedMeansNotRun
    CleanEndIsWhole
    UsageIsSettled
PROPERTIES
    ImplementsOneShot
    TaskEnds
    NoOrphanWork
