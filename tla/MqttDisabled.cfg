SPECIFICATION Spec
CONSTANTS
    Devices = {d1}
    Refused = {}
    Checks = {c1}
    MaxSessions = 2
    MaxClients = 2
    MaxMessages = 1
    MaxToggles = 1
    MaxChanges = 0
    MaxFaults = 2
INVARIANT DisabledLeavesNoValues
CHECK_DEADLOCK FALSE
