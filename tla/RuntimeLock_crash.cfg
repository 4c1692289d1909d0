CONSTANTS
    Callers = {1, 2, 3, 4}
    Procs = {1, 2, 3, 4}
    Host <- HostShared
    Pid <- PidReused
    Absent = Absent
    Torn = Torn
    MaxFaults = 2
SPECIFICATION FairSpec
INVARIANTS
    RecordSurvives
PROPERTIES
    RefusedForAReason
    AcquireReturns
CHECK_DEADLOCK FALSE
