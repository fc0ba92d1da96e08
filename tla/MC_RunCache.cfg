SPECIFICATION Spec
CONSTANTS
    Run = {r1, r2}
    Snapshot = {s1, s2}
    Reader = {q1, q2}
    Trigger = {d1}
    None = None
    MaxChanges = 1
SYMMETRY Symmetry
CONSTRAINT TwoAtATime
INVARIANTS
    RowIsOneRun
    OneLiveSnapshot
PROPERTIES
    NothingServedAfterDisconnect
    AnswerIsTheCachedRun
CHECK_DEADLOCK FALSE
