SPECIFICATION Spec
CONSTANTS
    Devices = {d1, d2}
    Refused = {d2}
    Checks = {c1}
    MaxSessions = 3
    MaxClients = 3
    MaxMessages = 2
    MaxToggles = 1
    MaxChanges = 1
    MaxFaults = 1
INVARIANTS
    TypeOK
    SubscriptionsRenewed
    OldClientsSilent
    RegisteredDevicesCurrent
PROPERTIES
    FeedSpec
    SessionSettles
CHECK_DEADLOCK FALSE
