SPECIFICATION Spec
CONSTANTS
    PINs = {p1, p2}
    Users = {u1}
    Tokens = {t1, t2}
    NoPIN = NoPIN
    NoSession = NoSession
    NoUser = NoUser
    Torn = Torn
    maxFailedAttempts = 1
    lockoutDuration = 1
    sessionTTL = 2
    MaxTime = 3
    MaxFaults = 1
    MaxCrashes = 1
SYMMETRY Symmetry
INVARIANTS
    
    PINNeverForgotten
    IssuedIsHonoured
    GuestsNeedGuestPIN
    RestartLosesNothing
CHECK_DEADLOCK FALSE
