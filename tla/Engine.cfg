CONSTANTS
    t1 = t1
    watcher = watcher
    Batches <- MCBatches
    InitArr <- MCInitArr
    MaxNodes = 4
    EditBatches <- MCEditBatches
    FirstGraph <- MCFirstGraph
    KnownKinds <- MCKnownKinds
    MaxEdits = 4
    Ids <- MCIds
    MaxParallel = 2
    FileCount = 2
    Names = {"cube", "text"}
    MaxSaves = 3
    Instances = {1, 2}
    Loader = 1
    Tabs = {t1}
    Watcher = watcher
    MaxSceneSaves = 2
    MaxDeaths = 1
    MaxCommands = 3
SPECIFICATION AllSpec
INVARIANTS
    GateSuffices
    ThreadsAreSound
    FoldsAreSound
PROPERTIES
    ContextOnlyGrows
    EvaluatedInOrder
    TypesAreCurrent
    LoadsAreExact
CHECK_DEADLOCK FALSE
