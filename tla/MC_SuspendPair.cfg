SPECIFICATION Spec
CONSTANTS
    Warehouse = {w1, w2}
    NoRow = NoRow
    MaxIdentity = 1
    MaxStamp = 2
    MaxFaults = 1
INVARIANTS
    OneLateCommand
    AuditAndCadence
SYMMETRY WarehouseSymmetry
