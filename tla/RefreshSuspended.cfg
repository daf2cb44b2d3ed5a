SPECIFICATION Spec
CONSTANTS
    d1 = d1  d2 = d2
    Devices = {d1, d2}
    SiteList <- OneListed
    Scenes = {d1}
    Bound = {d2}
    Known = {d1}
    Updates = {u1}
    Buttons = {b1}
    Switches = {s1}
    Account = account
    Intervals = 2
    MaxPresses = 1
    MaxToggles = 1
    MaxChanges = 0
    MaxFaults = 0
INVARIANT SuspendedNoData
CHECK_DEADLOCK FALSE
