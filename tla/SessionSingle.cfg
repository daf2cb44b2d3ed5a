SPECIFICATION Spec
CONSTANTS
    t1 = t1  t2 = t2  s1 = s1  s2 = s2  a1 = a1  a2 = a2
    Sessions = {s1}
    Tasks = {t1}
    Owner <- OneTask
    Account <- OneAccount
    Uses <- OneUse
    Faults = {"limit", "gateway", "busy", "forbidden", "error"}
    Persistent = {"limit", "gateway", "busy"}
    MaxFaults = 2
    MaxLogins = 9
    MaxKicks = 1
    MaxCalls = 2
    MaxRestarts = 1
INVARIANTS
    TypeOK
    LoginFailsFast
    CacheCoherent
    HealthyCloudNeverFails
    SecondRepeatNeedsOtherCause
PROPERTY Answered
CHECK_DEADLOCK FALSE
