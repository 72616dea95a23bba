CONSTANTS
    t1 = t1
    t2 = t2
    Tabs = {t1, t2}
    Names = {"m"}
    Pasted <- MCPasted
    EngineTypes = {"Box"}
    Reserved = {"TextNode"}
    Values = {"x"}
    SessionOf <- MCSessions
    MaxCalls = 3
    Clients = {1, 2}
    Lister = 1
    People = {"p", "q"}
    Messages = {1}
    Sender <- MCSender
    Defaults = {"p"}
    MaxChanges = 2
    MaxEdits = 1
    MaxStamp = 2
    Pages = {1}
    Files = {1}
    Kinds = {"button", "panel"}
    Virtual <- MCVirtual
    Nodes = {"i", "p"}
    KindOf <- MCKindOf
    TierOf <- MCTierOf
    Table <- MCTable
    Override <- MCOverride
    Keys <- MCKeys
    MaxDrops = 2
    MaxSaves = 1
    MaxRebuilds = 1
    MaxFails = 1
    DisplayNames = {"w"}
    Notes = {1}
    MaxSessions = 2
    MaxLines = 1
SPECIFICATION AllSpec
INVARIANTS
    
    DropsAreExact
PROPERTIES
    ShellIsSound
    
    
CHECK_DEADLOCK FALSE
