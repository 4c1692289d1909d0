CONSTANTS
    Calls = {c1, c2}
    Rooms = {r1, r2}
    FirstRoom = r1
    MaxSeq = 3
    Limit = 2
    MaxRuns = 2
    MaxMishaps = 2
    None = None
SPECIFICATION Spec
SYMMETRY CallSymmetry
INVARIANTS AcknowledgedIsTaken StopsForAReason
CHECK_DEADLOCK FALSE
