SPECIFICATION FairSpec
CONSTANTS
    Ids = {a}
    Users = {u, v}
    None = None
    u = u
    Owner <- Owners
    Clicks = 2
    MaxFailures = 1
    MaxSignIns = 1
INVARIANTS
    HiddenForAReason
PROPERTIES
    
    DeletionHappens
    ReleasedInTheEnd
    FreshInTheEnd
CHECK_DEADLOCK FALSE
