SPECIFICATION FairSpec
CONSTANTS
    Org = {o1, o2}
    Shard = {o1, o2}
    LoopId = {l1, l2, l3, l4}
    NoLoop = NoLoop
    MaxVersion = 2
    MaxChanges = 3
    MaxFaults = 1
INVARIANTS
    OneLoopPerOrg
    NoSessionLost
PROPERTIES
    HealthyLoopKept
    ConvergesUnlessShutdown
    ShutdownDrains
CHECK_DEADLOCK FALSE
