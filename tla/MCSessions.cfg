SPECIFICATION Spec
CONSTANTS
    Ids = {s1, s2}
    Codes = {c1, c2}
    Requests = {r1, r2}
    MaxRequests = 6
    null = null
SYMMETRY Symmetry
INVARIANTS
    RefreshContinues
    PasswordChangeEndsSessions
    CodeOnce
CHECK_DEADLOCK FALSE
