SPECIFICATION Spec
CONSTANTS
    Orgs = {o1, o2, o3}
    Machines = {m1, m2}
    Clients = {c1, c2, c3}
    Seeded = {m1}
    SeedClient = c1
    Requests = {r1, r2}
    MaxRequests = 5
    null = null
SYMMETRY Symmetry
INVARIANTS
    AssignmentsAgree
    NumbersInOrder
CHECK_DEADLOCK FALSE
