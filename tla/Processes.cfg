CONSTANTS
    Procs = {p1, p2}
    Timeout = 1
    MaxCalls = 2
    MaxKills = 1
    Commands = {c1, c2}
    Tabs = {p1, p2}
    MaxPerTick = 1
    Writers = {p1, p2}
    Limit = 2
    MaxRows = 4
    Keys = {"escape", "space"}
    Window = 1
    MaxOpens = 2
    MaxQueue = 2
    MaxClock = 1
SPECIFICATION AllSpec
INVARIANTS
    
    RowsAreKept
    
PROPERTIES
    LockedCallsAreExact
    EventuallyDone
CHECK_DEADLOCK FALSE
