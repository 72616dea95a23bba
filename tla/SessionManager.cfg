CONSTANTS
    Managers = {m1}
    Callers = {c1, c2}
    MaxProcs = 2
    MaxCalls = 2
    MaxCrashes = 1
SPECIFICATION Spec
INVARIANTS
    OneProcess
    

    
CHECK_DEADLOCK FALSE
