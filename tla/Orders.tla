-------------------------------- MODULE Orders --------------------------------
(***************************************************************************)
(* The life of an order: OrdersService, the timeout cron of                *)
(* MachinesService, the refunds they ask WalletService for, the dispense   *)
(* command and the machine at the other end of it.                         *)
(*                                                                         *)
(* Every handler is a process that awaits one database or broker call per  *)
(* action.  The placing handler of order o is the process o itself; the    *)
(* other handlers are taken from Handlers, one invocation each; each cron  *)
(* of Crons handles one stuck order per round, for ever.                   *)
(*                                                                         *)
(* Amounts play no part here (Wallet has them): paid[o] and credits[o]     *)
(* count the debits and refunds of order o.  A deduct may be refused, as   *)
(* far as this module is concerned, at any time.                           *)
(*                                                                         *)
(* An operator whose name has a suffix (publish_BeforePaying) is a         *)
(* plausible mistake in the step it is named after; no specification uses  *)
(* it.  It is there to show that a property would notice.                  *)
(***************************************************************************)
EXTENDS Integers, FiniteSets

CONSTANTS
    Orders,         \* order documents, each with its placing request
    Handlers,       \* invocations of the other handlers
    Crons,          \* the timers that run cancelTimedOutOrders
    Machines, Food, \* machines, and the food ones among them
    MachineOf,      \* [Orders -> Machines]
    UserOf,         \* [Orders -> users]
    Kind,           \* placed by placeOrder ("app"), by an admin for nobody ("admin"), or by legacyPlaceOrder
    Walleted,       \* orders whose user has a wallet
    Ops,            \* which handlers the other invocations may be
    Acks,           \* which statuses a machine reports
    Faults,         \* subset of {"write", "publish", "lost", "slow"}: what may go wrong
    MaxCrashes,     \* bound on process restarts
    None

ASSUME OrdersAssumption ==
    /\ Food \subseteq Machines
    /\ MachineOf \in [Orders -> Machines]
    /\ Kind \in [Orders -> {"app", "admin", "legacy"}]
    /\ Walleted \subseteq Orders
    /\ Acks \subseteq {"completed", "cancelled", "processing", "dispensing", "half-completed"}
    /\ Faults \subseteq {"write", "publish", "lost", "slow"}
    /\ MaxCrashes \in Nat
    /\ Orders \cap Handlers = {} /\ Orders \cap Crons = {} /\ Handlers \cap Crons = {}
    /\ None \notin Orders

Procs == Orders \cup Handlers \cup Crons

VARIABLES
    status,     \* order.status in the database, "none" before the document exists
    txId,       \* order.transactionId: "unset", "admin" (the sentinel) or "tx"
    paid,       \* debits of the order in its user's wallet
    credits,    \* refunds of the order in its user's wallet
    refundTx,   \* reference keys of the order's recorded refund transactions
    taken,      \* batch deductions minus restorations made for the order
    cmd,        \* the dispense command: "none", "sent", "accepted", "refused", "lost"
    made,       \* whether the machine dispensed the product
    polled,     \* whether the machine was handed the order by getlastorderbymachine
    busy,       \* machine.isBusy
    pc, op,     \* what each process does next, and which handler it is
    ord,        \* the order it works on
    seen,       \* order.status as its copy of the document has it stored
    goal,       \* the status it is about to store
    back,       \* where it continues after walletService.refund
    flag,       \* placing: isBusy as read from the machine, then batchDeducted
    crashes     \* process restarts so far

docs    == <<status, txId>>
wallet  == <<paid, credits, refundTx>>
machine == <<cmd, made, polled>>
args    == <<op, ord, seen, goal, back, flag>>
vars    == <<docs, wallet, taken, machine, busy, pc, args, crashes>>

Statuses == {"pending", "dispensing", "completed", "half-completed", "failed", "refunded", "cancelled"}
Active   == {"pending", "dispensing"}

\* Statuses of the schema's enum; saving any other fails validation.
Valid(s) == s \in Statuses

Resting == {"idle", "end", "error", "dead"}
Steps   == {"lookup", "cancelStale", "checkActive", "create", "deduct", "mark", "prepare",
            "publish", "mqttFailed", "lock", "caught", "refund", "pay", "payTx", "restore",
            "save", "unlock"}

TypeOK ==
    /\ status \in [Orders -> Statuses \cup {"none"}]
    /\ txId \in [Orders -> {"unset", "admin", "tx"}]
    /\ paid \in [Orders -> {0, 1}]
    /\ credits \in [Orders -> Nat]
    /\ refundTx \in [Orders -> SUBSET {"_id", "orderId"}]
    /\ taken \in [Orders -> Int]
    /\ cmd \in [Orders -> {"none", "sent", "accepted", "refused", "lost"}]
    /\ made \in [Orders -> BOOLEAN]
    /\ polled \in [Orders -> BOOLEAN]
    /\ busy \in [Machines -> BOOLEAN]
    /\ pc \in [Procs -> Resting \cup Steps]
    /\ op \in [Procs -> {"placeOrder", "legacyPlaceOrder", "machineUpdateOrder", "completeOrder",
                         "failOrder", "refundOrder", "cancelTimedOutOrders", None}]
    /\ ord \in [Procs -> Orders \cup {None}]
    /\ seen \in [Procs -> Statuses \cup {"none"}]
    /\ goal \in [Procs -> Statuses \cup {"processing", "none"}]
    /\ back \in [Procs -> {"caught", "restore", "save", "end"}]
    /\ flag \in [Procs -> BOOLEAN]
    /\ crashes \in 0..MaxCrashes

Init ==
    /\ status = [o \in Orders |-> "none"]
    /\ txId = [o \in Orders |-> "unset"]
    /\ paid = [o \in Orders |-> 0]
    /\ credits = [o \in Orders |-> 0]
    /\ refundTx = [o \in Orders |-> {}]
    /\ taken = [o \in Orders |-> 0]
    /\ cmd = [o \in Orders |-> "none"]
    /\ made = [o \in Orders |-> FALSE]
    /\ polled = [o \in Orders |-> FALSE]
    /\ busy = [m \in Machines |-> FALSE]
    /\ pc = [p \in Procs |-> "idle"]
    /\ op = [p \in Procs |-> IF p \in Crons THEN "cancelTimedOutOrders"
                             ELSE IF p \notin Orders THEN None
                             ELSE IF Kind[p] = "legacy" THEN "legacyPlaceOrder" ELSE "placeOrder"]
    /\ ord = [p \in Procs |-> IF p \in Orders THEN p ELSE None]
    /\ seen = [p \in Procs |-> "none"]
    /\ goal = [p \in Procs |-> "none"]
    /\ back = [p \in Procs |-> "end"]
    /\ flag = [p \in Procs |-> FALSE]
    /\ crashes = 0

-----------------------------------------------------------------------------
(* Moving on, and calling walletService.refund to continue at k.           *)
Goto(p, next) == pc' = [pc EXCEPT ![p] = next]

\* A cron is ready for its next round, any other handler has answered.
Finish(p, result) == Goto(p, IF p \in Crons THEN "idle" ELSE result)

Refund(p, k) == Goto(p, "refund") /\ back' = [back EXCEPT ![p] = k]

(* document.save() writes the paths modified since the copy was read or    *)
(* last saved, and only those; it checks no version.                       *)
Save(p, s) ==
    /\ status' = IF seen[p] = s THEN status ELSE [status EXCEPT ![ord[p]] = s]
    /\ seen' = [seen EXCEPT ![p] = s]

SetBusy(m, b) == busy' = [busy EXCEPT ![m] = b]

(* transactionId holds a wallet transaction that is not the admin one.     *)
HasTransaction(o) == txId[o] = "tx"

(* What walletService.deduct's result gives order.transactionId: it is a   *)
(* plain object (toObject, without the id virtual), so tx.id is undefined. *)
DeductedId == "unset"

-----------------------------------------------------------------------------
(* Placing an order.  The machine is read once, at lookup; everything the  *)
(* handler checks about it (stock, sleep, online, water, price, item) it   *)
(* checks there, and any of it may send the request away.                  *)
Legacy(p) == op[p] = "legacyPlaceOrder"

lookup(p) ==
    /\ p \in Orders
    /\ pc[p] = IF Legacy(p) THEN "lookup" ELSE "idle"
    /\ \/ /\ flag' = [flag EXCEPT ![p] = busy[MachineOf[p]]]
          /\ Goto(p, IF Legacy(p) THEN "checkActive" ELSE "cancelStale")
       \/ UNCHANGED flag /\ Goto(p, "error")
    /\ UNCHANGED <<docs, wallet, taken, machine, busy, op, ord, seen, goal, back, crashes>>

(* updateMany: the user's own pending orders on this machine are cancelled. *)
cancelStale(p) ==
    /\ p \in Orders
    /\ pc[p] = IF Legacy(p) THEN "idle" ELSE "cancelStale"
    /\ status' = [o \in Orders |->
                     IF UserOf[o] = UserOf[p] /\ MachineOf[o] = MachineOf[p] /\ status[o] = "pending"
                     THEN "cancelled" ELSE status[o]]
    /\ Goto(p, IF Legacy(p) THEN "lookup" ELSE "checkActive")
    /\ UNCHANGED <<txId, wallet, taken, machine, busy, args, crashes>>

ActiveOn(m) == {o \in Orders : MachineOf[o] = m /\ status[o] \in Active}

(* Another active order refuses this one; a busy flag without one is stale *)
(* and is cleared.                                                         *)
checkActive(p) ==
    /\ pc[p] = "checkActive"
    /\ IF ActiveOn(MachineOf[p]) # {}
       THEN Goto(p, "error") /\ UNCHANGED <<busy, flag>>
       ELSE /\ Goto(p, IF Legacy(p) THEN "deduct" ELSE "create")
            /\ IF flag[p] THEN SetBusy(MachineOf[p], FALSE) ELSE UNCHANGED busy
            /\ flag' = [flag EXCEPT ![p] = FALSE]
    /\ UNCHANGED <<docs, wallet, taken, machine, op, ord, seen, goal, back, crashes>>

(* placeOrder stores the order before it takes the money, legacyPlaceOrder *)
(* after.                                                                  *)
create_Dispensing(p) ==
    /\ pc[p] = "create"
    /\ status' = [status EXCEPT ![p] = "dispensing"]
    /\ seen' = [seen EXCEPT ![p] = "dispensing"]
    /\ txId' = IF Legacy(p) THEN [txId EXCEPT ![p] = DeductedId] ELSE txId
    /\ Goto(p, IF Legacy(p) THEN "prepare" ELSE IF Kind[p] = "admin" THEN "mark" ELSE "deduct")
    /\ UNCHANGED <<wallet, taken, machine, busy, op, ord, goal, back, flag, crashes>>

create(p) ==
    /\ pc[p] = "create"
    /\ LET s == IF Legacy(p) THEN "dispensing" ELSE "pending"
       IN  status' = [status EXCEPT ![p] = s] /\ seen' = [seen EXCEPT ![p] = s]
    /\ txId' = IF Legacy(p) THEN [txId EXCEPT ![p] = DeductedId] ELSE txId
    /\ Goto(p, IF Legacy(p) THEN "prepare" ELSE IF Kind[p] = "admin" THEN "mark" ELSE "deduct")
    /\ UNCHANGED <<wallet, taken, machine, busy, op, ord, goal, back, flag, crashes>>

deduct(p) ==
    /\ pc[p] = "deduct"
    /\ \/ /\ p \in Walleted
          /\ paid' = [paid EXCEPT ![p] = 1]
          /\ Goto(p, IF Legacy(p) THEN "create" ELSE "mark")
       \/ UNCHANGED paid /\ Goto(p, IF Legacy(p) THEN "error" ELSE "caught")
    /\ UNCHANGED <<docs, credits, refundTx, taken, machine, busy, args, crashes>>

mark(p) ==
    /\ pc[p] = "mark"
    /\ Save(p, "dispensing")
    /\ txId' = [txId EXCEPT ![p] = IF Kind[p] = "admin" THEN "admin" ELSE DeductedId]
    /\ Goto(p, "prepare")
    /\ UNCHANGED <<wallet, taken, machine, busy, op, ord, goal, back, flag, crashes>>

(* A food machine hands out a batch, and may have run out of it since the  *)
(* lookup; a coffee machine needs consistent timers.  legacyPlaceOrder has *)
(* checked the timers before and ignores a missing batch.                  *)
prepare(p) ==
    /\ pc[p] = "prepare"
    /\ \/ /\ MachineOf[p] \in Food
          /\ taken' = [taken EXCEPT ![p] = @ + 1]
          /\ flag' = [flag EXCEPT ![p] = TRUE]
          /\ Goto(p, "publish")
       \/ MachineOf[p] \notin Food /\ UNCHANGED <<taken, flag>> /\ Goto(p, "publish")
       \/ UNCHANGED <<taken, flag>> /\ Goto(p, IF Legacy(p) THEN "publish" ELSE "caught")
    /\ UNCHANGED <<docs, wallet, machine, busy, op, ord, seen, goal, back, crashes>>

(* The broker takes the command, or refuses it, or takes longer than the   *)
(* eight seconds publish waits and delivers it all the same.               *)
publish(p) ==
    /\ pc[p] = "publish"
    /\ \/ cmd' = [cmd EXCEPT ![p] = "sent"] /\ Goto(p, "lock")
       \/ "publish" \in Faults /\ UNCHANGED cmd /\ Goto(p, "mqttFailed")
       \/ "publish" \in Faults /\ cmd' = [cmd EXCEPT ![p] = "sent"] /\ Goto(p, "mqttFailed")
    /\ UNCHANGED <<docs, wallet, taken, made, polled, busy, args, crashes>>

(* After a failed publish: store the failure, refund, and rethrow.         *)
mqttFailed(p) ==
    /\ pc[p] = "mqttFailed"
    /\ Save(p, "failed")
    /\ Refund(p, IF Legacy(p) THEN "end" ELSE "caught")
    /\ UNCHANGED <<txId, wallet, taken, machine, busy, op, ord, goal, flag, crashes>>

(* The machine is busy, and placeOrder also counts the order in the        *)
(* machine's statistics; if only that fails, its catch block runs.         *)
lock(p) ==
    /\ pc[p] = "lock"
    /\ SetBusy(MachineOf[p], TRUE)
    /\ \/ Goto(p, "end")
       \/ "write" \in Faults /\ ~Legacy(p) /\ Goto(p, "caught")
    /\ UNCHANGED <<docs, wallet, taken, machine, args, crashes>>

(* placeOrder's outer catch refunds and restores only an order that holds  *)
(* a transaction.                                                          *)
caught(p) ==
    /\ pc[p] = "caught"
    /\ Save(p, "failed")
    /\ IF HasTransaction(p) THEN Refund(p, "restore") ELSE Goto(p, "error") /\ UNCHANGED back
    /\ UNCHANGED <<txId, wallet, taken, machine, busy, op, ord, goal, flag, crashes>>

-----------------------------------------------------------------------------
(* walletService.refund of the order a process works on, and the batch     *)
(* restoration some of them do next.                                       *)
Key_PerHandler(p) == IF p \in Orders THEN "orderId" ELSE "_id"

Key(p) == IF Legacy(p) THEN "orderId" ELSE "_id"

Paying(p) == pc[p] \in {"pay", "payTx"}

Return(p) == IF back[p] = "end" THEN Finish(p, "end") ELSE Goto(p, back[p])

refund(p) ==
    /\ pc[p] = "refund"
    /\ IF Key(p) \in refundTx[ord[p]] THEN Return(p) ELSE Goto(p, "pay")
    /\ UNCHANGED <<docs, wallet, taken, machine, busy, args, crashes>>

\* How a process goes on when the call it awaits at pc[p] rejects.
FailTo(p) ==
    IF op[p] = "placeOrder" /\ pc[p] \in {"refund", "pay", "payTx"} THEN back[p]
    ELSE IF op[p] = "placeOrder" /\ pc[p] \in {"deduct", "mark", "prepare", "mqttFailed", "lock"}
         THEN "caught"
    ELSE IF op[p] = "legacyPlaceOrder" /\ pc[p] = "prepare" THEN "publish"
    ELSE IF p \in Handlers /\ pc[p] = "unlock" THEN "end"
    ELSE IF p \in Crons THEN "idle" ELSE "error"

pay(p) ==
    /\ pc[p] = "pay"
    /\ IF ord[p] \in Walleted
       THEN credits' = [credits EXCEPT ![ord[p]] = @ + 1] /\ Goto(p, "payTx")
       ELSE UNCHANGED credits /\ Goto(p, FailTo(p))
    /\ UNCHANGED <<docs, paid, refundTx, taken, machine, busy, args, crashes>>

payTx(p) ==
    /\ pc[p] = "payTx"
    /\ refundTx' = [refundTx EXCEPT ![ord[p]] = @ \cup {Key(p)}]
    /\ Return(p)
    /\ UNCHANGED <<docs, paid, credits, taken, machine, busy, args, crashes>>

restore(p) ==
    /\ pc[p] = "restore"
    /\ taken' = IF MachineOf[ord[p]] \in Food /\ (p \in Crons \/ flag[p])
                THEN [taken EXCEPT ![ord[p]] = @ - 1] ELSE taken
    /\ Finish(p, "error")
    /\ UNCHANGED <<docs, wallet, machine, busy, args, crashes>>

-----------------------------------------------------------------------------
(* The other handlers: read the document, decide, refund if they do, save  *)
(* their verdict over whatever the document has become, release the busy   *)
(* flag.                                                                   *)
Begin(p, name, o, next, g, k) ==
    /\ pc[p] = "idle"
    /\ status[o] # "none"
    /\ Goto(p, next)
    /\ op' = [op EXCEPT ![p] = name]
    /\ ord' = [ord EXCEPT ![p] = o]
    /\ seen' = [seen EXCEPT ![p] = status[o]]
    /\ goal' = [goal EXCEPT ![p] = g]
    /\ back' = [back EXCEPT ![p] = k]
    /\ UNCHANGED <<docs, wallet, taken, machine, busy, flag, crashes>>

(* What a machine may have reported by now, over MQTT or by                *)
(* updateorderbymachine, of an order it took from a command or from a poll.*)
(* Reports are delayed and repeated at will.                               *)
Knows(o) == cmd[o] = "accepted" \/ polled[o]

Reported(o) ==
    Acks \cap ((IF Knows(o) THEN {"processing", "dispensing", "half-completed"} ELSE {})
               \cup (IF made[o] THEN {"completed"} ELSE {})
               \cup (IF cmd[o] = "refused" \/ polled[o] THEN {"cancelled"} ELSE {}))

machineUpdateOrder(h, o, s) ==
    /\ s \in Reported(o)
    /\ Begin(h, "machineUpdateOrder", o,
             IF s = "cancelled" /\ status[o] = "dispensing" THEN "refund" ELSE "save",
             IF s = "cancelled" THEN "failed" ELSE s, "save")

completeOrder(h, o) ==
    /\ status[o] \in Active
    /\ Begin(h, "completeOrder", o, "save", "completed", "end")

failOrder(h, o) ==
    Begin(h, "failOrder", o, IF HasTransaction(o) THEN "refund" ELSE "save", "failed", "save")

refundOrder_SavedFirst(h, o) ==
    /\ status[o] # "refunded"
    /\ Begin(h, "refundOrder", o, "save", "refunded", "end")

refundOrder(h, o) ==
    /\ status[o] # "refunded"
    /\ Begin(h, "refundOrder", o, "refund", "refunded", "save")

(* cancelTimedOutOrders picks orders that are active and 30 seconds old:   *)
(* the request that placed such an order has ended, unless it is slow.     *)
Old(o) == pc[o] \in {"end", "error", "dead"} \/ "slow" \in Faults

cancelTimedOutOrders_Dispensing(c, o) ==
    /\ status[o] = "dispensing"
    /\ Old(o)
    /\ Begin(c, "cancelTimedOutOrders", o, "save", "failed", "restore")

cancelTimedOutOrders(c, o) ==
    /\ status[o] \in Active
    /\ Old(o)
    /\ Begin(c, "cancelTimedOutOrders", o, "save", "failed", "restore")

save_Unvalidated(p) ==
    /\ pc[p] = "save"
    /\ Save(p, goal[p])
    /\ IF goal[p] \in {"completed", "failed"} THEN Goto(p, "unlock") ELSE Goto(p, "end")
    /\ UNCHANGED <<txId, wallet, taken, machine, busy, op, ord, goal, back, flag, crashes>>

save(p) ==
    /\ pc[p] = "save"
    /\ IF Valid(goal[p])
       THEN /\ Save(p, goal[p])
            /\ IF goal[p] \in {"completed", "failed"} THEN Goto(p, "unlock") ELSE Goto(p, "end")
       ELSE UNCHANGED <<status, seen>> /\ Goto(p, "error")
    /\ UNCHANGED <<txId, wallet, taken, machine, busy, op, ord, goal, back, flag, crashes>>

unlock_NoRefund(p) ==
    /\ pc[p] = "unlock"
    /\ SetBusy(MachineOf[ord[p]], FALSE)
    /\ Goto(p, IF p \in Crons THEN "restore" ELSE "end")
    /\ UNCHANGED <<docs, wallet, taken, machine, args, crashes>>

unlock(p) ==
    /\ pc[p] = "unlock"
    /\ SetBusy(MachineOf[ord[p]], FALSE)
    /\ Goto(p, IF p \in Crons THEN "refund" ELSE "end")
    /\ UNCHANGED <<docs, wallet, taken, machine, args, crashes>>

-----------------------------------------------------------------------------
(* The machine and the broker.                                             *)
MachineTakes(o) ==
    /\ cmd[o] = "sent"
    /\ \/ cmd' = [cmd EXCEPT ![o] = "accepted"]
       \/ cmd' = [cmd EXCEPT ![o] = "refused"]
       \/ "lost" \in Faults /\ cmd' = [cmd EXCEPT ![o] = "lost"]
    /\ UNCHANGED <<docs, wallet, taken, made, polled, busy, pc, args, crashes>>

(* getlastorderbymachine, of the older firmware: an active order, paid or  *)
(* not.  Of two it would be the older one; which one that is is not kept.  *)
getActiveOrderForMachine(o) ==
    /\ status[o] \in Active /\ ~polled[o]
    /\ polled' = [polled EXCEPT ![o] = TRUE]
    /\ UNCHANGED <<docs, wallet, taken, cmd, made, busy, pc, args, crashes>>

MachineMakes(o) ==
    /\ Knows(o) /\ ~made[o]
    /\ made' = [made EXCEPT ![o] = TRUE]
    /\ UNCHANGED <<docs, wallet, taken, cmd, polled, busy, pc, args, crashes>>

-----------------------------------------------------------------------------
(* The awaited call of a process rejects.  A refund that fails after its   *)
(* credit leaves the credit without a transaction.                         *)
WriteFails(p) ==
    /\ "write" \in Faults
    /\ pc[p] \in Steps \ {"publish"}
    /\ Goto(p, FailTo(p))
    /\ UNCHANGED <<docs, wallet, taken, machine, busy, args, crashes>>

Crash ==
    /\ crashes < MaxCrashes
    /\ \E p \in Procs : pc[p] \in Steps
    /\ crashes' = crashes + 1
    /\ pc' = [p \in Procs |-> IF pc[p] \notin Steps THEN pc[p]
                              ELSE IF p \in Crons THEN "idle" ELSE "dead"]
    /\ UNCHANGED <<docs, wallet, taken, machine, busy, args>>

Step(p) ==
    \/ lookup(p) \/ cancelStale(p) \/ checkActive(p) \/ create(p) \/ deduct(p) \/ mark(p)
    \/ prepare(p) \/ publish(p) \/ mqttFailed(p) \/ lock(p) \/ caught(p)
    \/ refund(p) \/ pay(p) \/ payTx(p) \/ restore(p) \/ save(p) \/ unlock(p)

Handle(h, o) ==
    \/ "machineUpdateOrder" \in Ops /\ \E s \in Acks : machineUpdateOrder(h, o, s)
    \/ "completeOrder" \in Ops /\ completeOrder(h, o)
    \/ "failOrder" \in Ops /\ failOrder(h, o)
    \/ "refundOrder" \in Ops /\ refundOrder(h, o)

Poll(o) == "getActiveOrderForMachine" \in Ops /\ getActiveOrderForMachine(o)

Next ==
    \/ \E p \in Procs : Step(p) \/ WriteFails(p)
    \/ \E h \in Handlers, o \in Orders : Handle(h, o)
    \/ \E c \in Crons, o \in Orders : cancelTimedOutOrders(c, o)
    \/ \E o \in Orders : MachineTakes(o) \/ Poll(o) \/ MachineMakes(o)
    \/ Crash

Spec == Init /\ [][Next]_vars

(* The event loop runs what is runnable, a handler that has begun goes on, *)
(* and the cron keeps being called.  Requests need not arrive, machines    *)
(* need not answer.                                                        *)
Fairness ==
    /\ \A p \in Procs : WF_vars(pc[p] # "idle" /\ Step(p))
    /\ \A c \in Crons, o \in Orders : WF_vars(cancelTimedOutOrders(c, o))

FairSpec == Spec /\ Fairness

-----------------------------------------------------------------------------
(* No machine is told to dispense before the customer has paid; and none   *)
(* dispenses, and no order is shown as dispensing, before, unless the      *)
(* machine got the order by asking for it.  An admin's test order is free. *)
Paid(o) == paid[o] = 1 \/ Kind[o] = "admin"

PaidUnlessPolled ==
    \A o \in Orders :
        /\ cmd[o] # "none" => Paid(o)
        /\ made[o] \/ status[o] = "dispensing" => Paid(o) \/ polled[o]

(* An order that says "refunded" has been: the credit precedes the status, *)
(* whatever fails between them.                                            *)
RefundedIsCredited ==
    \A o \in Orders : status[o] = "refunded" => credits[o] > 0 /\ "_id" \in refundTx[o]

(* Once a refund of an order is on record and no other is under way, the   *)
(* ways to refund it again (cron, machine report, admin, the catch blocks  *)
(* of placeOrder) all come to nothing, because they name it by one key.    *)
RefundSettles ==
    [][\A o \in Orders :
          Kind[o] # "legacy" /\ refundTx[o] # {} /\ (\A p \in Procs : ord[p] = o => ~Paying(p))
          => \A p \in Procs : ord'[p] = o => ~Paying(p)']_vars

(* Every order leaves "pending" and "dispensing", although commands and    *)
(* reports get lost, machines never answer and the server restarts.        *)
NoOrderStuck == \A o \in Orders : status[o] \in Active ~> status[o] \notin Active

(* An order the cron has failed is refunded in the end, once the process   *)
(* lives long enough: the other handlers, the request that placed it and   *)
(* overlapping rounds of the cron neither prevent nor postpone it for ever. *)
TimeoutRefunds ==
    \A o \in Walleted :
        (crashes = MaxCrashes /\ \E c \in Crons : ord[c] = o /\ pc[c] = "unlock")
        ~> refundTx[o] # {}

-----------------------------------------------------------------------------
(* What the repository says and the code does not do.                      *)

(* "Persist order record (status = pending until wallet deducted)"         *)
(* (orders.service.ts:299).                                                *)
PendingUntilPaid == \A o \in Orders : status[o] = "dispensing" => Paid(o)

(* "If the order was in "dispensing" state, the customer's wallet is       *)
(* automatically refunded." (agents.service.ts:231): failOrder does not    *)
(* fail a paid dispensing order without having refunded it.                *)
FailingRefunds ==
    \A h \in Handlers :
        op[h] = "failOrder" /\ pc[h] = "save" /\ seen[h] = "dispensing" /\ paid[ord[h]] = 1
        => credits[ord[h]] > 0
=============================================================================
