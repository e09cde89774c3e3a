SPECIFICATION FairSpec
CONSTANTS
    Tokens = {t1, t2}
    None = None
    InFlight = 1
    MaxFailures = 1
    MaxRevocations = 1

    
    
PROPERTIES
    LiveSessionsAreKept
    RevokedIsBounced
    SubmittingEnds
CHECK_DEADLOCK FALSE
