SPECIFICATION Spec
CONSTANTS
    Versions <- MCVersions
    InitArr <- MCInitArr
    Registered = {"Const", "State"}
    MaxEdits = 3
INVARIANT RunsWhatItLoaded
PROPERTIES InstancesSurvive Converges
CHECK_DEADLOCK FALSE
