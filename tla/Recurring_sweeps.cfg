SPECIFICATION FairSpec
CONSTANTS
    Sweepers = {tk, h1}
    Ticker = tk
    Objects = {o1, o2, o3, o4}
    Nil = Nil
    FirstDues = {1}
    Period = 1
    maxCatchUpPerRule = 2
    MaxToday = 3
    MaxEdits = 1
    MaxFaults = 1
    MaxCrashes = 1
INVARIANTS
    
    
    DeletedStaysDeleted
PROPERTIES
    PausedGeneratesNothing
    CatchesUp
CHECK_DEADLOCK FALSE
