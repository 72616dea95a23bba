SPECIFICATION Spec
CONSTANTS
    Writers = {w1, w2}
    Batches <- MCBatches
    InitArr <- MCInitArr
    Serialized = FALSE
    MaxCommits = 2
    MaxCrashes = 0
CHECK_DEADLOCK FALSE
INVARIANT AckedKept
