CONSTANTS
    Notes = {a, b}
    MaxSessions = 1
    MaxCrashes = 1
    Tabs = {a}
    Shells = {b}
    Ideas = {"x", "y"}
    MaxCalls = 3
    MaxFails = 1
    Sends = {a, b}
    MaxFaults = 2
    MaxKills = 1
SPECIFICATION AllSpec
INVARIANTS
    IdeasAreKept
    MailIsAccounted

    
CHECK_DEADLOCK FALSE
