SPECIFICATION Spec
CONSTANTS
    Request = {q1, q2}
    None = None
    Ttl = 2
    TokenExp = 2
    MaxClock = 2
    MaxVersion = 2
    MaxGeneration = 2
INVARIANTS
    NextRequestReadsCorrectly
CHECK_DEADLOCK FALSE
