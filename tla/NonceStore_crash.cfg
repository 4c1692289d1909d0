CONSTANTS
    Procs = {p1, p2, p3}
    Nobody = Nobody
    MaxWaits = 1
    MaxFaults = 1
    SlowHolders = TRUE
    MaxClock = 1
    MaxNonce = 2
SPECIFICATION FairSpec
PROPERTIES
    AtomicUnlessRaced
    CallsReturn
CHECK_DEADLOCK FALSE
