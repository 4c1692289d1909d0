CONSTANTS
    b1 = b1
    Handshakes = {b1}
    None = None
    MaxMessages = 3
    MaxRestarts = 1
    MaxFaults = 2
SPECIFICATION Spec
INVARIANTS
    StoredIsReadable
    VerdictsAreTrue
    NoResponseIsComplete
    CursorBehindEvidence
    AcceptedIsBacked
PROPERTIES
    ImplementsOneExchange
CHECK_DEADLOCK FALSE
