SPECIFICATION Spec
CONSTANTS
    Warehouse = {w1}
    NoRow = NoRow
    MaxIdentity = 2
    MaxStamp = 2
    MaxFaults = 0
PROPERTIES
    OnlyStaleEnrollmentDeleted
