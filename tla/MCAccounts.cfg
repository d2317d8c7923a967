SPECIFICATION ASpec
CONSTANTS
    p1 = p1
    p2 = p2
    Procs = {p1, p2}
    Types = {"hotp"}
    Requests = {"login", "email", "otp", "cancel", "regenerate", "disable", "reset"}
    LookAhead = 1
    Lifetime = 2
    RecoveryCodeCount = 1
    MaxCounter = 1
    MaxChallenges = 1
    MaxSecrets = 1
    MaxSets = 1
    MaxTime = 0
SYMMETRY Symmetry
INVARIANTS
    GatesArePassed
    SecondFactorHolds
    CodesAreUsedUp
    
PROPERTIES
    LinksAndMembersKept
CHECK_DEADLOCK FALSE
