CONSTANTS
    t1 = t1
    t2 = t2
    Ids = {"a", "b"}
    Defaults <- MCDefaults
    Windows <- MCWindows
    Scrolls <- MCScrolls
    Fetches <- MCFetches
    MaxEntries = 3
    MaxForms = 1
    Views = {1, 2}
    ExtraPanels = {}
    Grid = 2
    MinSize = 2
    StartSize = 4
    Cursor <- MCCursor
    Targets = {4}
    MaxPos = 4
    PanelIds = {1, 2}
    Tabs = {t1, t2}
    SnapGrid = 2
    LeastSize = 3
    FirstSize = 5
    Asked <- MCAsked
    MaxCalls = 3
    Things = {"m", "n", "o"}
    Sender <- MCSender
    Positional = FALSE
    MaxShown = 2
    MaxChanges = 4
    Ranges <- MCRanges
    Values <- MCValues
    DefaultStep = 1
    Names = {"x", "y"}
    MaxItems = 3
    Limit = 2
    MaxVerbs = 5
SPECIFICATION AllSpec

    
PROPERTIES
    DeskIsSound
    PositionsAreSound
    
    
CHECK_DEADLOCK FALSE
