CONSTANTS
    Procs = {p1, p2, p3}
    Nobody = Nobody
    MaxWaits = 1
    MaxFaults = 1
    SlowHolders = FALSE
    MaxClock = 1
    MaxNonce = 3
SPECIFICATION Spec
SYMMETRY CallSymmetry
INVARIANT MutualExclusion
CHECK_DEADLOCK FALSE
