SPECIFICATION Spec
CONSTANTS
    d1 = d1  d2 = d2
    Devices = {d1, d2}
    SiteList <- TwoListed
    Scenes = {d1, d2}
    Bound = {}
    Known = {d1, d2}
    Updates = {u1}
    Buttons = {b1}
    Switches = {s1}
    Account = account
    Intervals = 2
    MaxPresses = 1
    MaxToggles = 0
    MaxChanges = 0
    MaxFaults = 0
INVARIANT OnlyOrphansRemoved
CHECK_DEADLOCK FALSE
