SPECIFICATION Spec
CONSTANTS
    Request = {q1, q2}
    None = None
    Ttl = 2
    TokenExp = 3
    MaxClock = 4
    MaxVersion = 1
    MaxGeneration = 2
INVARIANTS
    NoStrandedWaiter
    AcceptanceBounded
    MembershipsBounded
    FreshUnlessRetried
SYMMETRY RequestSymmetry
CHECK_DEADLOCK FALSE
