SPECIFICATION ServingSpec
CONSTANTS
    p1 = p1
    p2 = p2
    p3 = p3
    Procs = {p1, p2, p3}
    Addresses = {"x", "y"}
    idleTTL = 3
    MaxHold = 1
    sweepEvery = 1
    MaxTime = 6
SYMMETRY Symmetry
INVARIANTS
    SessionsHold
    ClonesEndWell
    OneTokenPerInterval
    HooksHold

    
