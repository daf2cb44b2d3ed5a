SPECIFICATION Spec
CONSTANTS
    t1 = t1  t2 = t2  s1 = s1  s2 = s2  a1 = a1  a2 = a2
    Sessions = {s1, s2}
    Tasks = {t1, t2}
    Owner <- TwoHubs
    Account <- TwoAccounts
    Uses <- TwoRequests
    Faults = {}
    Persistent = {}
    MaxFaults = 0
    MaxLogins = 4
    MaxKicks = 0
    MaxCalls = 2
    MaxRestarts = 0
INVARIANT OwnToken
CHECK_DEADLOCK FALSE
