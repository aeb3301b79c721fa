SPECIFICATION Spec
CONSTANTS
    m1 = m1
    o1 = o1
    o2 = o2
    Orders = {o1}
    Handlers = {h1}
    Crons = {c1}
    Machines = {m1}
    Food = {m1}
    MachineOf <- MCMachineOf
    UserOf <- OneUser
    Kind <- AllApp
    Walleted = {o1}
    Ops = {"getActiveOrderForMachine", "machineUpdateOrder", "completeOrder", "failOrder",
           "refundOrder"}
    Acks = {"completed", "cancelled", "processing", "dispensing", "half-completed"}
    Faults = {"slow", "write", "publish", "lost"}
    MaxCrashes = 1
    None = None
CHECK_DEADLOCK FALSE
INVARIANTS
    TypeOK
    PaidUnlessPolled
    RefundedIsCredited
PROPERTIES
    RefundSettles
