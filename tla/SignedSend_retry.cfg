CONSTANTS
    c1 = c1
    c2 = c2
    c3 = c3
    a1 = a1
    Calls = {c1, c2, c3}
    Actions = {a1}
    ActionOf <- SharedAction
    PublicCalls = {c3}
    Mailboxes = {m1, m2}
    PublicRoom = public
    Texts = {t1}
    NoEffect = NoEffect
    MaxRetries = 1
SPECIFICATION Spec
SYMMETRY ContactCalls
INVARIANTS
    VerdictsAreTrue
    ReportsAreTrue
PROPERTY ImplementsOneShot
CHECK_DEADLOCK FALSE
