SPECIFICATION Spec
CONSTANTS
    Writers = {w1, w2}
    Batches <- MCBatches
    InitArr <- MCInitArr
    Serialized = FALSE
    MaxCommits = 3
    MaxCrashes = 1
CHECK_DEADLOCK FALSE
INVARIANTS  PublishedSound
PROPERTIES UncontendedIsExact
