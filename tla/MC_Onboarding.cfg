SPECIFICATION Spec
CONSTANTS
    Person = {ann, bob}
    Founder = {ann}
    Account = {acme}
    Request = {r1, r2}
    None = None
    MaxOrgs = 2
    MaxCalls = 4
    MaxChanges = 1
SYMMETRY Symmetry
INVARIANTS
    LimiterTracksRequests
    ConnectedIsVisible
PROPERTIES
    InvitationsAttach
    ResolvedIsLive
    ImplementsClaims
CHECK_DEADLOCK FALSE
