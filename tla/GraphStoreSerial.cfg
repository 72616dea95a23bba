SPECIFICATION Spec
CONSTANTS
    Writers = {w1, w2}
    Batches <- MCBatches
    InitArr <- MCInitArr
    Serialized = TRUE
    MaxCommits = 4
    MaxCrashes = 2
CHECK_DEADLOCK FALSE
INVARIANTS AckedKept LiveReadable
PROPERTIES AppendOnly
