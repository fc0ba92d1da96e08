SPECIFICATION FairSpec
CONSTANTS
    Warehouse = {w1}
    NoRow = NoRow
    MaxIdentity = 2
    MaxStamp = 3
    MaxFaults = 2
INVARIANTS
    OneStrayCommand
PROPERTIES
    AuthorizationSeesNoRewrite
    DeleteSparesRewrite
    ImplementsPermit
    IdleWarehouseSuspended
