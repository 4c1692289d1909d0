CONSTANTS
    j1 = j1
    w1 = w1
    w2 = w2
    Jobs = {j1}
    Workers = {w1, w2}
    None = None
    Orphan = Orphan
    SlowHolders = TRUE
    MaxMessages = 2
    MaxFaults = 1
SPECIFICATION Spec
SYMMETRY Processes
INVARIANTS
    VerdictsAreTrue
    NothingSkipped
    ResponseIsBacked
PROPERTIES
    TerminalStays
    ImplementsOneExchange
CHECK_DEADLOCK FALSE
