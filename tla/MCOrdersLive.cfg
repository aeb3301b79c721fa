SPECIFICATION FairSpec
CONSTANTS
    m1 = m1
    o1 = o1
    o2 = o2
    Orders = {o1, o2}
    Handlers = {h1}
    Crons = {c1}
    Machines = {m1}
    Food = {m1}
    MachineOf <- MCMachineOf
    UserOf <- OneUser
    Kind <- AppAndLegacy
    Walleted = {o1, o2}
    Ops = {"machineUpdateOrder"}
    Acks = {"cancelled", "dispensing"}
    Faults = {"publish", "lost"}
    MaxCrashes = 1
    None = None
CHECK_DEADLOCK FALSE
INVARIANTS
    PaidUnlessPolled
PROPERTIES
    NoOrderStuck
    TimeoutRefunds
