CONSTANTS
    Calls = {c1, c2, c3}
    Attempts = {1, 2, 3, 4}
    Task <- TaskOf
    Agent <- AgentOf
    Job <- JobOf
    MaxAttempts <- AttemptLimits
    Ceiling <- Ceilings
    Reserve <- Reservations
    MaxCost = 2
    MaxFailures = 1
    None = None
SPECIFICATION LedgerSpec
SYMMETRY CallSymmetry
INVARIANTS
    DispatchedOnceAsRecorded
    OneUnresolvedPerTask
    BudgetHolds
CHECK_DEADLOCK FALSE
