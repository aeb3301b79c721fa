SPECIFICATION Spec
CONSTANTS
    m1 = m1
    o1 = o1
    o2 = o2
    Orders = {o1}
    Handlers = {h1}
    Crons = {}
    Machines = {m1}
    Food = {m1}
    MachineOf <- MCMachineOf
    UserOf <- OneUser
    Kind <- AllApp
    Walleted = {o1}
    Ops = {"failOrder"}
    Acks = {}
    Faults = {}
    MaxCrashes = 0
    None = None
CHECK_DEADLOCK FALSE
INVARIANTS
    FailingRefunds
