\* Two overlapping calls, no faults.
SPECIFICATION Spec
CONSTANTS
    u1 = u1
    u2 = u2
    Users = {u1}
    Refs = {o1}
    Requests = {r1}
    Calls = {c1, c2}
    Amounts = {2}
    MaxTopup = 2
    Opening <- MCOpening
    Unopened = {}
    Adjusted = {}
    LegacyTargets = {}
    LegacyDeltas = {}
    Faults = {}
    None = None
CHECK_DEADLOCK FALSE
INVARIANTS
    RefundedOnce
