SPECIFICATION FairSpec
CONSTANTS
    AccountSource = {service, warehouse}
    OrgSource = {org}
    EstimatedBasis = service
    BilledBasis = org
    WarehouseBasis = warehouse
    Deferred = ai
    Requester = {r1, r2}
    MaxFetches = 2
INVARIANTS
    ReadyHasRows
    OneDeferredFetch
    RowsExpireTogether
PROPERTIES
    SectionsOnlySettle
    ImplementsLifecycle
    DeferredSettles
CHECK_DEADLOCK FALSE
