SPECIFICATION Spec
CONSTANTS
    Org = {o1, o2}
    Shard = {o1, o2}
    LoopId = {l1, l2, l3}
    NoLoop = NoLoop
    MaxVersion = 1
    MaxChanges = 1
    MaxFaults = 0
INVARIANTS
    DrainedOnExit
CHECK_DEADLOCK FALSE
