SPECIFICATION FairSpec
CONSTANTS
    PINs = {p1, p2}
    Users = {u1}
    Tokens = {t1}
    NoPIN = NoPIN
    NoSession = NoSession
    NoUser = NoUser
    Torn = Torn
    maxFailedAttempts = 2
    lockoutDuration = 3
    sessionTTL = 1
    MaxTime = 5
    MaxFaults = 1
    MaxCrashes = 1
INVARIANTS
    GuessesAreSlow
PROPERTIES
    ExpiredArePruned
CHECK_DEADLOCK FALSE
