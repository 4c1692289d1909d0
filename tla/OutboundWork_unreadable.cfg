CONSTANTS
    j1 = j1
    w1 = w1
    w2 = w2
    Jobs = {j1}
    Workers = {w1}
    None = None
    Orphan = Orphan
    SlowHolders = FALSE
    MaxMessages = 1
    MaxFaults = 1
SPECIFICATION Spec
INVARIANT StoredIsReadable
CHECK_DEADLOCK FALSE
