SPECIFICATION Spec
CONSTANTS
    t1 = t1  t2 = t2  s1 = s1  s2 = s2  a1 = a1  a2 = a2
    Sessions = {s1}
    Tasks = {t1, t2}
    Owner <- TwoTasks
    Account <- OneAccount
    Uses <- TwoRequests
    Faults = {"gateway", "forbidden"}
    Persistent = {}
    MaxFaults = 1
    MaxLogins = 4
    MaxKicks = 1
    MaxCalls = 1
    MaxRestarts = 0
INVARIANTS
    IdleIsReady
    CacheFileComplete
SYMMETRY TaskSymmetry
CHECK_DEADLOCK FALSE
