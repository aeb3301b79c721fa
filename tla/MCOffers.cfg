SPECIFICATION Spec
CONSTANTS
    Customers = {c1}
    Items = {i1, i2}
    Memberships = {m1, m2}
    Promotions = {o1, o2}
    Plans = {"month1", "month5"}
    Percents = {20, 80}
    Requests = {r1, r2}
    MaxRequests = 4
    MaxTicks = 1
    null = null
SYMMETRY Symmetry
INVARIANTS
    TypeOK
    PaidForMembership
    OneMembership
    FairPrice
CHECK_DEADLOCK FALSE
