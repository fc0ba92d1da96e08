SPECIFICATION FairSpec
CONSTANTS
    Conn = {c1, c2, c3}
    NoConn = NoConn
    MaxCalls = 2
    MaxAttempt = 4
INVARIANTS
    OneTickAtATime
    NoLeakedConnection
PROPERTIES
    StopReleases
    TickSettles
CHECK_DEADLOCK FALSE
