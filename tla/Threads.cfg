SPECIFICATION ThreadsSpec
CONSTANTS
    Tasks = {t1}
    Cancellers = {c1, c2}
    Nobody = nobody
    Calls = {d1, d2, d3}
    Permits = {q1, q2}
    Capacity = 2
    MaxCalls = 5
    Procs = {p1, p2}
    Keys = {k1, k2}
    MaxCrashes = 2
INVARIANTS
    NoLostWakeup
    CapacityIsRespected
    PermitsComeBack
    InOrderOnce
    OkIsTrue
    ExecutesOnce
    ClaimBeforeEffect
PROPERTIES
    Resolves
    QueuedCallsAreServed
    NobodyIsLeftWaiting
CHECK_DEADLOCK FALSE
