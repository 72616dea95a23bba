SPECIFICATION MCPSpec
CONSTANTS
    Writers = {w1, w2}
    Batches <- MCBatches
    Folds <- MCFolds
    InitArr <- MCInitArr
    Serialized = FALSE
    MaxCommits = 2
    MaxProposals = 2
    MaxCrashes = 1
INVARIANT PublishedSound
PROPERTY NothingLost
CHECK_DEADLOCK FALSE
