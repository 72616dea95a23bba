SPECIFICATION MCPSpec
CONSTANTS
    Writers = {w1, w2}
    Batches <- MCBatches
    Folds <- MCFolds
    InitArr <- MCInitArr
    Serialized = TRUE
    MaxCommits = 3
    MaxProposals = 3
    MaxCrashes = 1
PROPERTY LandsAsApproved
CHECK_DEADLOCK FALSE
