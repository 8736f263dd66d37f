SPECIFICATION TunnelSpec
CONSTANTS
    Requests = {r1, r2, r3}
    TUNNEL_TIMEOUTS_BEFORE_EVICT = 2
    Concurrencies = {0, 1, 2}
    MaxOffered = 2
    MaxStreams = 3
    MaxFailures = 2
    MaxLevel = 6
    HeaderLen = 4
    MaxFrame = 3
    MaxChunk = 5
    Streams <- MCStreams
    NoWant = NoWant
INVARIANTS
    AnsweringIsKept
    FramesAreWhole
PROPERTIES
    StuckIsEvicted
    DeadTunnelIsLeft
\* a tunnel ends with its entry, an agent may be told to stop, a stream ends
CHECK_DEADLOCK FALSE
