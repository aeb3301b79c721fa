SPECIFICATION Spec
CONSTANTS
    u1 = u1
    u2 = u2
    Users = {u1, u2}
    Refs = {o1}
    Requests = {r1}
    Calls = {c1, c2, c3}
    Amounts = {0, 2, 3}
    MaxTopup = 2
    Opening <- MCOpening
    Unopened = {u2}
    Adjusted = {u2}
    LegacyTargets = {1}
    LegacyDeltas <- MCDeltas
    Faults = {"write", "crash"}
    None = None
SYMMETRY MCSymmetry
CHECK_DEADLOCK FALSE
INVARIANTS
    TypeOK
    
    Reconciled
    ApprovedIsPaid
    RefundedOnceUnlessRaced
PROPERTIES
    ReviewSettles
    
