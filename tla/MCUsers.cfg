SPECIFICATION Spec
CONSTANTS
    Ids = {u1, u2}
    Emails = {e1, e2}
    Requests = {r1, r2}
    MaxPasswords = 2
    MaxRequests = 4
SYMMETRY Symmetry
INVARIANTS
    EmailUnique
    
PROPERTIES
    ChangesAsked
CHECK_DEADLOCK FALSE
