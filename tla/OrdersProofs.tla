---------------------------- MODULE OrdersProofs ----------------------------
(***************************************************************************)
(* Proofs about Orders for any number of orders, machines, concurrent      *)
(* handlers and timers, with every fault and any number of restarts.       *)
(***************************************************************************)
EXTENDS Orders, TLAPS

Placing   == {"lookup", "cancelStale", "checkActive", "create", "deduct", "mark", "prepare",
              "publish", "mqttFailed", "lock", "caught"}
Refunding == {"refund", "pay", "payTx"}

(* A request that places an order works on that order; from the deduction  *)
(* on it has been paid.                                                    *)
PlacingOK(p) ==
    /\ ord[p] = p
    /\ op[p] = IF Kind[p] = "legacy" THEN "legacyPlaceOrder" ELSE "placeOrder"
    /\ goal[p] = "none"
    /\ back[p] \in {"caught", "restore", "end"}
    /\ pc[p] \in Placing \cup Refunding \cup Resting \cup {"restore"}
    /\ pc[p] \in {"mark", "prepare", "publish", "lock"} => Paid(p)
    /\ pc[p] = "create" /\ Kind[p] = "legacy" => Paid(p)

(* Another handler that has begun works on an order; one that is going to  *)
(* show it as refunded refunds it before.                                  *)
HandlerOK(p) ==
    /\ back[p] \in {"save", "end"}
    /\ pc[p] \in Refunding \cup Resting \cup {"save", "unlock"}
    /\ pc[p] \in Steps => ord[p] \in Orders /\ op[p] \notin {"placeOrder", "legacyPlaceOrder"}
    /\ goal[p] = "refunded" /\ pc[p] = "save" => "_id" \in refundTx[ord[p]]

(* A cron fails its order before anything else.                            *)
CronOK(p) ==
    /\ op[p] = "cancelTimedOutOrders"
    /\ goal[p] \in {"none", "failed"}
    /\ back[p] \in {"restore", "end"}
    /\ pc[p] \in Refunding \cup Resting \cup {"save", "unlock", "restore"}
    /\ pc[p] \in Steps => ord[p] \in Orders

(* A process about to show an order as dispensing knows it is paid, or was *)
(* told so by a machine that asked for the order.                          *)
ProcOK(p) ==
    /\ p \in Orders => PlacingOK(p)
    /\ p \in Handlers => HandlerOK(p)
    /\ p \in Crons => CronOK(p)
    /\ ord[p] \in Orders /\ goal[p] = "dispensing" => Paid(ord[p]) \/ polled[ord[p]]
    /\ pc[p] = "payTx" => credits[ord[p]] > 0

(* What the database and the machine say of an order.                      *)
OrderOK(o) ==
    /\ cmd[o] # "none" => Paid(o)
    /\ made[o] \/ status[o] = "dispensing" => Paid(o) \/ polled[o]
    /\ status[o] = "refunded" => "_id" \in refundTx[o]
    /\ refundTx[o] # {} => credits[o] > 0
    /\ Kind[o] # "legacy" => refundTx[o] \subseteq {"_id"}

IInv ==
    /\ TypeOK
    /\ \A p \in Procs : ProcOK(p)
    /\ \A o \in Orders : OrderOK(o)

-----------------------------------------------------------------------------
(* The invariant holds at the start.                                       *)
LEMMA InitIInv == Init => IInv
<1> SUFFICES ASSUME Init PROVE IInv
  OBVIOUS
<1> USE OrdersAssumption DEF OrdersAssumption, Procs, Resting, Steps
<1>1. op \in [Procs -> {"placeOrder", "legacyPlaceOrder", "cancelTimedOutOrders", None}]
  BY DEF Init
<1>2. TypeOK
  BY <1>1 DEF Init, TypeOK, Statuses
<1>3. ASSUME NEW p \in Procs PROVE ProcOK(p)
  <2>1. pc[p] = "idle" /\ goal[p] = "none" /\ back[p] = "end" BY DEF Init
  <2>2. p \in Orders => PlacingOK(p) BY <2>1 DEF Init, PlacingOK
  <2>3. p \in Handlers => HandlerOK(p) BY <2>1 DEF Init, HandlerOK
  <2>4. p \in Crons => CronOK(p) BY <2>1 DEF Init, CronOK
  <2> QED BY <2>1, <2>2, <2>3, <2>4 DEF ProcOK
<1>4. \A o \in Orders : OrderOK(o)
  BY DEF Init, OrderOK, Paid
<1> QED BY <1>2, <1>3, <1>4 DEF IInv

(* What a process remembers of its own.                                    *)
SameProc(q) ==
    pc'[q] = pc[q] /\ op'[q] = op[q] /\ ord'[q] = ord[q] /\ goal'[q] = goal[q] /\ back'[q] = back[q]

(* Payments and refunds are never undone.                                  *)
Monotone ==
    /\ \A o \in Orders : (Paid(o) => Paid(o)') /\ (polled[o] => polled'[o])
    /\ \A o \in Orders : credits[o] <= credits'[o] /\ refundTx[o] \subseteq refundTx'[o]

(* A step of one process leaves the invariant to that process and to the   *)
(* orders.                                                                 *)
LEMMA OneProc ==
  ASSUME IInv, TypeOK', NEW p \in Procs, ProcOK(p)', Monotone,
         \A q \in Procs : q # p => SameProc(q),
         \A o \in Orders : OrderOK(o)'
  PROVE  IInv'
<1>1. ASSUME NEW q \in Procs, q # p PROVE ProcOK(q)'
  <2>1. ProcOK(q) /\ SameProc(q) /\ TypeOK BY <1>1 DEF IInv
  <2>2. CASE q \in Orders
    <3>1. PlacingOK(q) /\ PlacingOK(q)'
      BY <2>1, <2>2 DEF ProcOK, PlacingOK, SameProc, Monotone
    <3>2. q \notin Handlers /\ q \notin Crons BY <2>2, OrdersAssumption DEF OrdersAssumption
    <3> QED BY <2>1, <2>2, <3>1, <3>2 DEF ProcOK, PlacingOK, SameProc, Monotone, TypeOK
  <2>3. CASE q \in Handlers
    <3>1. HandlerOK(q) /\ HandlerOK(q)'
      BY <2>1, <2>3 DEF ProcOK, HandlerOK, SameProc, Monotone, Steps
    <3>2. q \notin Orders /\ q \notin Crons BY <2>3, OrdersAssumption DEF OrdersAssumption
    <3>3. pc[q] = "payTx" => ord[q] \in Orders BY <3>1 DEF HandlerOK, Steps
    <3> QED BY <2>1, <2>3, <3>1, <3>2, <3>3 DEF ProcOK, SameProc, Monotone, TypeOK
  <2>4. CASE q \in Crons
    <3>1. CronOK(q) /\ CronOK(q)' BY <2>1, <2>4 DEF ProcOK, CronOK, SameProc
    <3>2. q \notin Orders /\ q \notin Handlers
      BY <2>4, OrdersAssumption DEF OrdersAssumption
    <3>3. pc[q] = "payTx" => ord[q] \in Orders BY <3>1 DEF CronOK, Steps
    <3> QED BY <2>1, <2>4, <3>1, <3>2, <3>3 DEF ProcOK, SameProc, Monotone, TypeOK
  <2> QED BY <2>2, <2>3, <2>4 DEF Procs
<1> QED BY <1>1 DEF IInv

-----------------------------------------------------------------------------
(* Whoever has begun works on an order, and only placing requests take the *)
(* steps of Placing.                                                       *)
LEMMA WorksOn == ASSUME IInv, NEW p \in Procs, pc[p] \in Steps PROVE ord[p] \in Orders
BY DEF IInv, Procs, ProcOK, PlacingOK, HandlerOK, CronOK

LEMMA Places ==
  ASSUME IInv, NEW p \in Procs, pc[p] \in Placing
  PROVE  p \in Orders /\ PlacingOK(p) /\ p \notin Handlers /\ p \notin Crons
BY OrdersAssumption DEF OrdersAssumption, IInv, Procs, ProcOK, HandlerOK, CronOK, Placing,
   Refunding, Resting

(* Updating a Boolean function.                                            *)
LEMMA UpdateBoolean ==
  ASSUME NEW S, NEW f \in [S -> BOOLEAN], NEW x, NEW b \in BOOLEAN
  PROVE  [f EXCEPT ![x] = b] \in [S -> BOOLEAN]
OBVIOUS

(* Each action preserves the invariant.                                    *)
LEMMA LookupKeeps == ASSUME IInv, NEW p \in Procs, lookup(p) PROVE IInv'
<1> USE OrdersAssumption DEF docs, wallet, machine, Steps, Resting, Goto
<1>0. p \in Orders /\ PlacingOK(p) /\ p \notin Handlers /\ p \notin Crons
  BY DEF lookup, IInv, ProcOK
<1>1. TypeOK' BY <1>0 DEF IInv, lookup, TypeOK
<1>2. Monotone BY <1>0 DEF IInv, lookup, TypeOK, Monotone, Paid
<1>3. \A q \in Procs : q # p => SameProc(q) BY <1>0 DEF IInv, lookup, TypeOK, SameProc
<1>4. ProcOK(p)' BY <1>0 DEF IInv, lookup, TypeOK, ProcOK, PlacingOK, Placing
<1>5. \A o \in Orders : OrderOK(o)' BY <1>0 DEF IInv, lookup, TypeOK, OrderOK, Paid
<1> QED BY <1>1, <1>2, <1>3, <1>4, <1>5, OneProc

LEMMA CancelStaleKeeps == ASSUME IInv, NEW p \in Procs, cancelStale(p) PROVE IInv'
<1> USE OrdersAssumption DEF wallet, machine, args, Steps, Goto
<1>0. p \in Orders /\ PlacingOK(p) /\ p \notin Handlers /\ p \notin Crons
  BY DEF cancelStale, IInv, ProcOK
<1>1. TypeOK' BY <1>0 DEF IInv, cancelStale, TypeOK, Statuses
<1>2. Monotone BY <1>0 DEF IInv, cancelStale, TypeOK, Monotone, Paid
<1>3. \A q \in Procs : q # p => SameProc(q) BY <1>0 DEF IInv, cancelStale, TypeOK, SameProc
<1>4. ProcOK(p)' BY <1>0 DEF IInv, cancelStale, TypeOK, ProcOK, PlacingOK, Placing
<1>5. \A o \in Orders : OrderOK(o)' BY <1>0 DEF IInv, cancelStale, TypeOK, OrderOK, Paid
<1> QED BY <1>1, <1>2, <1>3, <1>4, <1>5, OneProc

(* Where the check for other active orders leads.                          *)
LEMMA CheckActiveGoes ==
  ASSUME NEW p, checkActive(p)
  PROVE  \E next \in {"error", "deduct", "create"} : pc' = [pc EXCEPT ![p] = next]
<1>1. CASE ActiveOn(MachineOf[p]) # {} BY <1>1 DEF checkActive, Goto
<1>2. CASE ActiveOn(MachineOf[p]) = {} BY <1>2 DEF checkActive, Goto
<1> QED BY <1>1, <1>2

LEMMA CheckActiveKeeps == ASSUME IInv, NEW p \in Procs, checkActive(p) PROVE IInv'
<1> USE OrdersAssumption DEF docs, wallet, machine, Steps, Resting, Goto
<1>0. p \in Orders /\ PlacingOK(p) /\ p \notin Handlers /\ p \notin Crons
  BY Places DEF checkActive, Placing
<1>p. \E next \in {"error", "deduct", "create"} : pc' = [pc EXCEPT ![p] = next]
  BY CheckActiveGoes
<1>1. TypeOK'
  <2>1. pc' \in [Procs -> Resting \cup Steps] BY <1>p DEF IInv, TypeOK
  <2>2. busy' \in [Machines -> BOOLEAN]
    <3>1. busy' = busy \/ busy' = [busy EXCEPT ![MachineOf[p]] = FALSE]
      BY DEF checkActive, SetBusy
    <3>2. busy \in [Machines -> BOOLEAN] BY DEF IInv, TypeOK
    <3> QED BY ONLY <3>1, <3>2, UpdateBoolean
  <2>3. flag' \in [Procs -> BOOLEAN]
    <3>1. flag' = flag \/ flag' = [flag EXCEPT ![p] = FALSE] BY DEF checkActive
    <3> QED BY <3>1, UpdateBoolean DEF IInv, TypeOK
  <2> QED BY <2>1, <2>2, <2>3 DEF IInv, checkActive, TypeOK
<1>2. Monotone BY <1>0 DEF IInv, checkActive, TypeOK, Monotone, Paid
<1>3. \A q \in Procs : q # p => SameProc(q) BY <1>p DEF IInv, checkActive, TypeOK, SameProc
<1>4. ProcOK(p)'
  BY <1>0 DEF IInv, checkActive, TypeOK, ProcOK, PlacingOK, Placing, Legacy, SetBusy
<1>5. \A o \in Orders : OrderOK(o)' BY <1>0 DEF IInv, checkActive, TypeOK, OrderOK, Paid
<1> QED BY <1>1, <1>2, <1>3, <1>4, <1>5, OneProc

LEMMA CreateKeeps == ASSUME IInv, NEW p \in Procs, create(p) PROVE IInv'
<1> USE OrdersAssumption DEF wallet, machine, Steps, Goto
<1>0. p \in Orders /\ PlacingOK(p) /\ p \notin Handlers /\ p \notin Crons
  BY Places DEF create, Placing
<1>1. TypeOK' BY <1>0 DEF IInv, create, TypeOK, Statuses, DeductedId
<1>2. Monotone BY <1>0 DEF IInv, create, TypeOK, Monotone, Paid
<1>3. \A q \in Procs : q # p => SameProc(q) BY <1>0 DEF IInv, create, TypeOK, SameProc
<1>4. ProcOK(p)' BY <1>0 DEF IInv, create, TypeOK, ProcOK, PlacingOK, Placing, Legacy, Paid
<1>5. \A o \in Orders : OrderOK(o)'
  BY <1>0 DEF IInv, create, TypeOK, PlacingOK, Legacy, OrderOK, Paid
<1> QED BY <1>1, <1>2, <1>3, <1>4, <1>5, OneProc

LEMMA DeductKeeps == ASSUME IInv, NEW p \in Procs, deduct(p) PROVE IInv'
<1> USE OrdersAssumption DEF docs, machine, args, Steps, Resting, Goto
<1>0. p \in Orders /\ PlacingOK(p) /\ p \notin Handlers /\ p \notin Crons
  BY Places DEF deduct, Placing
<1>1. TypeOK' BY <1>0 DEF IInv, deduct, TypeOK
<1>2. Monotone BY <1>0 DEF IInv, deduct, TypeOK, Monotone, Paid
<1>3. \A q \in Procs : q # p => SameProc(q) BY <1>0 DEF IInv, deduct, TypeOK, SameProc
<1>4. ProcOK(p)' BY <1>0 DEF IInv, deduct, TypeOK, ProcOK, PlacingOK, Placing, Paid
<1>5. \A o \in Orders : OrderOK(o)' BY <1>0 DEF IInv, deduct, TypeOK, OrderOK, Paid
<1> QED BY <1>1, <1>2, <1>3, <1>4, <1>5, OneProc

LEMMA MarkKeeps == ASSUME IInv, NEW p \in Procs, mark(p) PROVE IInv'
<1> USE OrdersAssumption DEF wallet, machine, Steps, Goto, Save
<1>0. p \in Orders /\ PlacingOK(p) /\ p \notin Handlers /\ p \notin Crons
  BY Places DEF mark, Placing
<1>1. TypeOK' BY <1>0 DEF IInv, mark, TypeOK, Statuses, DeductedId
<1>2. Monotone BY <1>0 DEF IInv, mark, TypeOK, Monotone, Paid
<1>3. \A q \in Procs : q # p => SameProc(q) BY <1>0 DEF IInv, mark, TypeOK, SameProc
<1>4. ProcOK(p)' BY <1>0 DEF IInv, mark, TypeOK, ProcOK, PlacingOK, Placing, Paid
<1>5. \A o \in Orders : OrderOK(o)' BY <1>0 DEF IInv, mark, TypeOK, PlacingOK, OrderOK, Paid
<1> QED BY <1>1, <1>2, <1>3, <1>4, <1>5, OneProc

LEMMA PrepareKeeps == ASSUME IInv, NEW p \in Procs, prepare(p) PROVE IInv'
<1> USE OrdersAssumption DEF docs, wallet, machine, Steps, Resting, Goto
<1>0. p \in Orders /\ PlacingOK(p) /\ p \notin Handlers /\ p \notin Crons
  BY Places DEF prepare, Placing
<1>1. TypeOK'
  <2>1. pc' \in [Procs -> Resting \cup Steps] BY DEF IInv, prepare, TypeOK
  <2>2. taken' \in [Orders -> Int] BY <1>0 DEF IInv, prepare, TypeOK
  <2>3. flag' \in [Procs -> BOOLEAN]
    <3>1. flag' = flag \/ flag' = [flag EXCEPT ![p] = TRUE] BY DEF prepare
    <3> QED BY <3>1, UpdateBoolean DEF IInv, TypeOK
  <2> QED BY <2>1, <2>2, <2>3 DEF IInv, prepare, TypeOK
<1>2. Monotone BY <1>0 DEF IInv, prepare, TypeOK, Monotone, Paid
<1>3. \A q \in Procs : q # p => SameProc(q) BY <1>0 DEF IInv, prepare, TypeOK, SameProc
<1>4. ProcOK(p)' BY <1>0 DEF IInv, prepare, TypeOK, ProcOK, PlacingOK, Placing, Paid
<1>5. \A o \in Orders : OrderOK(o)' BY <1>0 DEF IInv, prepare, TypeOK, OrderOK, Paid
<1> QED BY <1>1, <1>2, <1>3, <1>4, <1>5, OneProc

LEMMA PublishKeeps == ASSUME IInv, NEW p \in Procs, publish(p) PROVE IInv'
<1> USE OrdersAssumption DEF docs, wallet, args, Steps, Goto
<1>0. p \in Orders /\ PlacingOK(p) /\ p \notin Handlers /\ p \notin Crons
  BY Places DEF publish, Placing
<1>1. TypeOK' BY <1>0 DEF IInv, publish, TypeOK
<1>2. Monotone BY <1>0 DEF IInv, publish, TypeOK, Monotone, Paid
<1>3. \A q \in Procs : q # p => SameProc(q) BY <1>0 DEF IInv, publish, TypeOK, SameProc
<1>4. ProcOK(p)' BY <1>0 DEF IInv, publish, TypeOK, ProcOK, PlacingOK, Placing, Paid
<1>5. \A o \in Orders : OrderOK(o)'
  BY <1>0 DEF IInv, publish, TypeOK, PlacingOK, OrderOK, Paid
<1> QED BY <1>1, <1>2, <1>3, <1>4, <1>5, OneProc

LEMMA MqttFailedKeeps == ASSUME IInv, NEW p \in Procs, mqttFailed(p) PROVE IInv'
<1> USE OrdersAssumption DEF wallet, machine, Steps, Goto, Refund, Save
<1>0. p \in Orders /\ PlacingOK(p) /\ p \notin Handlers /\ p \notin Crons
  BY Places DEF mqttFailed, Placing
<1>1. TypeOK' BY <1>0 DEF IInv, mqttFailed, TypeOK, Statuses
<1>2. Monotone BY <1>0 DEF IInv, mqttFailed, TypeOK, Monotone, Paid
<1>3. \A q \in Procs : q # p => SameProc(q) BY <1>0 DEF IInv, mqttFailed, TypeOK, SameProc
<1>4. ProcOK(p)' BY <1>0 DEF IInv, mqttFailed, TypeOK, ProcOK, PlacingOK, Refunding
<1>5. \A o \in Orders : OrderOK(o)' BY <1>0 DEF IInv, mqttFailed, TypeOK, OrderOK, Paid
<1> QED BY <1>1, <1>2, <1>3, <1>4, <1>5, OneProc

LEMMA LockKeeps == ASSUME IInv, NEW p \in Procs, lock(p) PROVE IInv'
<1> USE OrdersAssumption DEF docs, wallet, machine, args, Steps, Resting, Goto
<1>0. p \in Orders /\ PlacingOK(p) /\ p \notin Handlers /\ p \notin Crons
  BY Places DEF lock, Placing
<1>1. TypeOK' BY <1>0 DEF IInv, lock, TypeOK, SetBusy
<1>2. Monotone BY <1>0 DEF IInv, lock, TypeOK, Monotone, Paid
<1>3. \A q \in Procs : q # p => SameProc(q) BY <1>0 DEF IInv, lock, TypeOK, SameProc
<1>4. ProcOK(p)' BY <1>0 DEF IInv, lock, TypeOK, ProcOK, PlacingOK, Placing
<1>5. \A o \in Orders : OrderOK(o)' BY <1>0 DEF IInv, lock, TypeOK, OrderOK, Paid
<1> QED BY <1>1, <1>2, <1>3, <1>4, <1>5, OneProc

LEMMA CaughtKeeps == ASSUME IInv, NEW p \in Procs, caught(p) PROVE IInv'
<1> USE OrdersAssumption DEF wallet, machine, Steps, Resting, Goto, Refund, Save
<1>0. p \in Orders /\ PlacingOK(p) /\ p \notin Handlers /\ p \notin Crons
  BY Places DEF caught, Placing
<1>1. TypeOK' BY <1>0 DEF IInv, caught, TypeOK, Statuses, PlacingOK
<1>2. Monotone BY <1>0 DEF IInv, caught, TypeOK, Monotone, Paid
<1>3. \A q \in Procs : q # p => SameProc(q) BY <1>0 DEF IInv, caught, TypeOK, SameProc
<1>4. ProcOK(p)' BY <1>0 DEF IInv, caught, TypeOK, ProcOK, PlacingOK, Refunding
<1>5. \A o \in Orders : OrderOK(o)' BY <1>0 DEF IInv, caught, TypeOK, OrderOK, Paid
<1> QED BY <1>1, <1>2, <1>3, <1>4, <1>5, OneProc

LEMMA RefundKeeps == ASSUME IInv, NEW p \in Procs, refund(p) PROVE IInv'
<1> USE OrdersAssumption DEF docs, wallet, machine, args, Steps, Resting, Goto, Return,
   Finish
<1>0. ord[p] \in Orders BY WorksOn DEF refund
<1>1. TypeOK' BY <1>0 DEF IInv, refund, TypeOK
<1>2. Monotone BY <1>0 DEF IInv, refund, TypeOK, Monotone, Paid
<1>3. \A q \in Procs : q # p => SameProc(q) BY <1>0 DEF IInv, refund, TypeOK, SameProc
<1>4. ProcOK(p)'
  BY <1>0 DEF IInv, refund, TypeOK, ProcOK, PlacingOK, HandlerOK, CronOK, Placing,
     Refunding, Legacy, Key, Paid
<1>5. \A o \in Orders : OrderOK(o)' BY <1>0 DEF IInv, refund, TypeOK, OrderOK, Paid
<1> QED BY <1>1, <1>2, <1>3, <1>4, <1>5, OneProc

LEMMA PayKeeps == ASSUME IInv, NEW p \in Procs, pay(p) PROVE IInv'
<1> USE OrdersAssumption DEF docs, machine, args, Steps, Resting, Goto
<1>0. ord[p] \in Orders BY WorksOn DEF pay
<1>1. TypeOK' BY <1>0 DEF IInv, pay, TypeOK, FailTo
<1>2. Monotone BY <1>0 DEF IInv, pay, TypeOK, Monotone, Paid
<1>3. \A q \in Procs : q # p => SameProc(q) BY <1>0 DEF IInv, pay, TypeOK, SameProc
<1>4. ProcOK(p)'
  BY <1>0 DEF IInv, pay, TypeOK, ProcOK, PlacingOK, HandlerOK, CronOK, Placing, Refunding,
     FailTo, Paid
<1>5. \A o \in Orders : OrderOK(o)' BY <1>0 DEF IInv, pay, TypeOK, OrderOK, Paid
<1> QED BY <1>1, <1>2, <1>3, <1>4, <1>5, OneProc

LEMMA PayTxKeeps == ASSUME IInv, NEW p \in Procs, payTx(p) PROVE IInv'
<1> USE OrdersAssumption DEF docs, machine, args, Steps, Resting, Goto, Return, Finish
<1>0. ord[p] \in Orders BY WorksOn DEF payTx
<1>1. TypeOK' BY <1>0 DEF IInv, payTx, TypeOK, Key
<1>2. Monotone BY <1>0 DEF IInv, payTx, TypeOK, Monotone, Paid
<1>3. \A q \in Procs : q # p => SameProc(q) BY <1>0 DEF IInv, payTx, TypeOK, SameProc
<1>4. ProcOK(p)'
  BY <1>0 DEF IInv, payTx, TypeOK, ProcOK, PlacingOK, HandlerOK, CronOK, Placing, Legacy,
     Paid, Key
<1>5. ASSUME NEW o \in Orders PROVE OrderOK(o)'
  <2>1. credits[ord[p]] > 0 BY <1>0 DEF payTx, IInv, ProcOK
  <2>2. Kind[ord[p]] # "legacy" => Key(p) = "_id"
    BY DEF payTx, IInv, ProcOK, Procs, PlacingOK, HandlerOK, CronOK, Key, Legacy
  <2>3. OrderOK(o) BY DEF IInv
  <2>4. CASE o = ord[p]
    BY <1>0, <2>1, <2>2, <2>3, <2>4 DEF IInv, payTx, TypeOK, OrderOK, Paid
  <2>5. CASE o # ord[p] BY <1>0, <2>3, <2>5 DEF IInv, payTx, TypeOK, OrderOK, Paid
  <2> QED BY <2>4, <2>5
<1> QED BY <1>1, <1>2, <1>3, <1>4, <1>5, OneProc

LEMMA RestoreKeeps == ASSUME IInv, NEW p \in Procs, restore(p) PROVE IInv'
<1> USE OrdersAssumption DEF docs, wallet, machine, args, Steps, Resting, Goto, Finish
<1>0. ord[p] \in Orders BY WorksOn DEF restore
<1>1. TypeOK' BY <1>0 DEF IInv, restore, TypeOK
<1>2. Monotone BY <1>0 DEF IInv, restore, TypeOK, Monotone, Paid
<1>3. \A q \in Procs : q # p => SameProc(q) BY <1>0 DEF IInv, restore, TypeOK, SameProc
<1>4. ProcOK(p)'
  BY <1>0 DEF IInv, restore, TypeOK, ProcOK, PlacingOK, HandlerOK, CronOK, Paid
<1>5. \A o \in Orders : OrderOK(o)' BY <1>0 DEF IInv, restore, TypeOK, OrderOK, Paid
<1> QED BY <1>1, <1>2, <1>3, <1>4, <1>5, OneProc

LEMMA SaveKeeps == ASSUME IInv, NEW p \in Procs, save(p) PROVE IInv'
<1> USE OrdersAssumption DEF wallet, machine, Steps, Resting, Goto, Save
<1>0. ord[p] \in Orders BY WorksOn DEF save
<1>1. TypeOK'
  <2>1. CASE Valid(goal[p])
    <3>1. goal[p] \in Statuses BY <2>1 DEF Valid
    <3>2. /\ status' \in [Orders -> Statuses \cup {"none"}]
          /\ seen' \in [Procs -> Statuses \cup {"none"}]
      BY <1>0, <2>1, <3>1 DEF IInv, save, TypeOK
    <3> QED BY <2>1, <3>2 DEF IInv, save, TypeOK
  <2>2. CASE ~Valid(goal[p]) BY <2>2 DEF IInv, save, TypeOK
  <2> QED BY <2>1, <2>2
<1>2. Monotone BY <1>0 DEF IInv, save, TypeOK, Monotone, Paid
<1>3. \A q \in Procs : q # p => SameProc(q) BY <1>0 DEF IInv, save, TypeOK, SameProc
<1>4. ProcOK(p)' BY <1>0 DEF IInv, save, TypeOK, ProcOK, PlacingOK, HandlerOK, CronOK, Paid
<1>5. ASSUME NEW o \in Orders PROVE OrderOK(o)'
  <2>1. goal[p] = "dispensing" => Paid(ord[p]) \/ polled[ord[p]] BY <1>0 DEF IInv, ProcOK
  <2>2. goal[p] = "refunded" => "_id" \in refundTx[ord[p]]
    BY DEF save, IInv, ProcOK, Procs, PlacingOK, HandlerOK, CronOK
  <2>3. OrderOK(o) BY DEF IInv
  <2>4. CASE o = ord[p]
    BY <1>0, <2>1, <2>2, <2>3, <2>4 DEF IInv, save, TypeOK, OrderOK, Paid
  <2>5. CASE o # ord[p] BY <1>0, <2>3, <2>5 DEF IInv, save, TypeOK, OrderOK, Paid
  <2> QED BY <2>4, <2>5
<1> QED BY <1>1, <1>2, <1>3, <1>4, <1>5, OneProc

LEMMA UnlockKeeps == ASSUME IInv, NEW p \in Procs, unlock(p) PROVE IInv'
<1> USE OrdersAssumption DEF docs, wallet, machine, args, Steps, Resting, Goto
<1>0. ord[p] \in Orders BY WorksOn DEF unlock
<1>1. TypeOK' BY <1>0 DEF IInv, unlock, TypeOK, SetBusy
<1>2. Monotone BY <1>0 DEF IInv, unlock, TypeOK, Monotone, Paid
<1>3. \A q \in Procs : q # p => SameProc(q) BY <1>0 DEF IInv, unlock, TypeOK, SameProc
<1>4. ProcOK(p)'
  BY <1>0 DEF IInv, unlock, TypeOK, ProcOK, PlacingOK, HandlerOK, CronOK, Refunding, Paid
<1>5. \A o \in Orders : OrderOK(o)' BY <1>0 DEF IInv, unlock, TypeOK, OrderOK, Paid
<1> QED BY <1>1, <1>2, <1>3, <1>4, <1>5, OneProc

LEMMA WriteFailsKeeps == ASSUME IInv, NEW p \in Procs, WriteFails(p) PROVE IInv'
<1> USE OrdersAssumption DEF docs, wallet, machine, args, Steps, Resting, Goto
<1>0. ord[p] \in Orders BY WorksOn DEF WriteFails
<1>1. TypeOK' BY <1>0 DEF IInv, WriteFails, TypeOK, FailTo
<1>2. Monotone BY <1>0 DEF IInv, WriteFails, TypeOK, Monotone, Paid
<1>3. \A q \in Procs : q # p => SameProc(q) BY <1>0 DEF IInv, WriteFails, TypeOK, SameProc
<1>4. ProcOK(p)'
  BY <1>0 DEF IInv, WriteFails, TypeOK, ProcOK, PlacingOK, HandlerOK, CronOK, Placing,
     Paid, FailTo
<1>5. \A o \in Orders : OrderOK(o)' BY <1>0 DEF IInv, WriteFails, TypeOK, OrderOK, Paid
<1> QED BY <1>1, <1>2, <1>3, <1>4, <1>5, OneProc

(* A handler that begins, whatever it is about to do.                      *)
LEMMA BeginKeeps ==
  ASSUME IInv, NEW p \in Handlers \cup Crons, NEW o \in Orders, NEW next \in {"refund", "save"},
         NEW name \in {"machineUpdateOrder", "completeOrder", "failOrder", "refundOrder",
                       "cancelTimedOutOrders"},
         NEW g \in Statuses \cup {"processing"}, NEW k \in {"save", "end", "restore"},
         Begin(p, name, o, next, g, k),
         p \in Handlers => k # "restore" /\ (g = "refunded" => next = "refund"),
         p \in Crons => name = "cancelTimedOutOrders" /\ g = "failed" /\ k = "restore",
         g = "dispensing" => Paid(o) \/ polled[o]
  PROVE  IInv'
<1> USE OrdersAssumption DEF docs, wallet, machine, Steps, Goto
<1>0. p \in Procs /\ p \notin Orders BY DEF Procs
<1>1. TypeOK' BY <1>0 DEF IInv, Begin, TypeOK
<1>2. Monotone BY <1>0 DEF IInv, Begin, TypeOK, Monotone, Paid
<1>3. \A q \in Procs : q # p => SameProc(q) BY <1>0 DEF Begin, SameProc
<1>4. ProcOK(p)'
  BY <1>0 DEF IInv, Begin, TypeOK, ProcOK, HandlerOK, CronOK, Paid, Refunding
<1>5. \A o_1 \in Orders : OrderOK(o_1)' BY <1>0 DEF IInv, Begin, OrderOK, Paid
<1> QED BY <1>0, <1>1, <1>2, <1>3, <1>4, <1>5, OneProc

(* Only a machine that took the command, or asked for the order, reports   *)
(* "dispensing".                                                           *)
LEMMA HandleKeeps == ASSUME IInv, NEW h \in Handlers, NEW o \in Orders, Handle(h, o) PROVE IInv'
<1> USE OrdersAssumption DEF Statuses
<1>1. CASE \E s \in Acks : machineUpdateOrder(h, o, s)
  <2>1. PICK s \in Acks : machineUpdateOrder(h, o, s) BY <1>1
  <2>2. s = "dispensing" => Paid(o) \/ polled[o]
    BY <2>1 DEF machineUpdateOrder, Reported, Knows, IInv, OrderOK
  <2> DEFINE next == IF s = "cancelled" /\ status[o] = "dispensing" THEN "refund" ELSE "save"
             g    == IF s = "cancelled" THEN "failed" ELSE s
  <2>3. Begin(h, "machineUpdateOrder", o, next, g, "save") BY <2>1 DEF machineUpdateOrder
  <2>4. next \in {"refund", "save"} /\ g \in Statuses \cup {"processing"} /\ g # "refunded" OBVIOUS
  <2>5. g = "dispensing" => Paid(o) \/ polled[o] BY <2>2
  <2> HIDE DEF next, g
  <2> QED BY <2>3, <2>4, <2>5, BeginKeeps
<1>2. CASE completeOrder(h, o) BY <1>2, BeginKeeps DEF completeOrder
<1>3. CASE failOrder(h, o)
  <2> DEFINE next == IF HasTransaction(o) THEN "refund" ELSE "save"
  <2>1. Begin(h, "failOrder", o, next, "failed", "save") BY <1>3 DEF failOrder
  <2>2. next \in {"refund", "save"} OBVIOUS
  <2> HIDE DEF next
  <2> QED BY <2>1, <2>2, BeginKeeps
<1>4. CASE refundOrder(h, o) BY <1>4, BeginKeeps DEF refundOrder
<1> QED BY <1>1, <1>2, <1>3, <1>4 DEF Handle

LEMMA CronKeeps ==
  ASSUME IInv, NEW c \in Crons, NEW o \in Orders, cancelTimedOutOrders(c, o) PROVE IInv'
BY OrdersAssumption, BeginKeeps DEF cancelTimedOutOrders, Statuses

(* The machine gives no order a command it did not have.                   *)
LEMMA MachineKeeps ==
  ASSUME IInv, NEW o \in Orders, MachineTakes(o) \/ Poll(o) \/ MachineMakes(o) PROVE IInv'
<1> USE DEF docs, wallet, args, MachineTakes, Poll, getActiveOrderForMachine, MachineMakes
<1>1. TypeOK'
  <2>1. made' = made \/ made' = [made EXCEPT ![o] = TRUE] OBVIOUS
  <2>2. polled' = polled \/ polled' = [polled EXCEPT ![o] = TRUE] OBVIOUS
  <2>3. made' \in [Orders -> BOOLEAN] /\ polled' \in [Orders -> BOOLEAN]
    BY <2>1, <2>2, UpdateBoolean DEF IInv, TypeOK
  <2>4. cmd' \in [Orders -> {"none", "sent", "accepted", "refused", "lost"}]
    BY DEF IInv, TypeOK
  <2> QED BY <2>3, <2>4 DEF IInv, TypeOK
<1>2. \A q \in Orders : polled[q] => polled'[q]
  BY DEF IInv, TypeOK
<1>3. \A p \in Procs : ProcOK(p)'
  BY <1>2 DEF IInv, ProcOK, PlacingOK, HandlerOK, CronOK, Paid
<1>4. \A q \in Orders : OrderOK(q)'
  <2>1. CASE MachineTakes(o) BY <2>1 DEF IInv, TypeOK, OrderOK, Paid
  <2>2. CASE Poll(o) BY <2>2 DEF IInv, TypeOK, OrderOK, Paid
  <2>3. CASE MachineMakes(o)
    <3>1. Paid(o) \/ polled[o] BY <2>3 DEF Knows, IInv, OrderOK
    <3> QED BY <2>3, <3>1 DEF IInv, TypeOK, OrderOK, Paid
  <2> QED BY <2>1, <2>2, <2>3
<1> QED BY <1>1, <1>3, <1>4 DEF IInv

(* A restart leaves nothing half done but what the database shows.         *)
LEMMA CrashKeeps == ASSUME IInv, Crash PROVE IInv'
<1> USE DEF docs, wallet, machine, args, Resting
<1>1. TypeOK' BY OrdersAssumption DEF IInv, TypeOK, Crash
<1>2. ASSUME NEW p \in Procs PROVE ProcOK(p)'
  <2>1. pc'[p] = pc[p] \/ pc'[p] \in {"idle", "dead"} BY DEF Crash
  <2>2. ProcOK(p) BY DEF IInv
  <2> QED BY <2>1, <2>2 DEF Crash, ProcOK, PlacingOK, HandlerOK, CronOK, Paid
<1>3. \A o \in Orders : OrderOK(o)' BY DEF IInv, Crash, OrderOK, Paid
<1> QED BY <1>1, <1>2, <1>3 DEF IInv

LEMMA StutterKeeps == ASSUME IInv, UNCHANGED vars PROVE IInv'
BY DEF IInv, TypeOK, ProcOK, PlacingOK, HandlerOK, CronOK, OrderOK, Paid, vars, docs,
   wallet, machine, args

(* The invariant is inductive.                                             *)
LEMMA NextIInv == IInv /\ [Next]_vars => IInv'
<1> SUFFICES ASSUME IInv, [Next]_vars PROVE IInv'
  OBVIOUS
<1>1. ASSUME NEW p \in Procs, Step(p) PROVE IInv'
  BY <1>1, LookupKeeps, CancelStaleKeeps, CheckActiveKeeps, CreateKeeps, DeductKeeps,
     MarkKeeps, PrepareKeeps, PublishKeeps, MqttFailedKeeps, LockKeeps, CaughtKeeps,
     RefundKeeps, PayKeeps, PayTxKeeps, RestoreKeeps, SaveKeeps, UnlockKeeps DEF Step
<1> QED
  BY <1>1, WriteFailsKeeps, HandleKeeps, CronKeeps, MachineKeeps, CrashKeeps,
     StutterKeeps DEF Next

LEMMA AlwaysIInv == Spec => []IInv
BY InitIInv, NextIInv, PTL DEF Spec

-----------------------------------------------------------------------------
(* A step of a process moves that process on and leaves the others, and    *)
(* what each of them works on, alone.                                      *)
LEMMA Moves ==
  ASSUME IInv, NEW p \in Procs, Step(p) \/ WriteFails(p)
  PROVE  /\ UNCHANGED <<op, ord>>
         /\ \A q \in Procs : q # p => pc'[q] = pc[q]
<1>1. UNCHANGED <<op, ord>>
  BY DEF Step, WriteFails, args, lookup, cancelStale, checkActive, create, deduct, mark,
     prepare, publish, mqttFailed, lock, caught, refund, pay, payTx, restore, save, unlock
<1>2. \E next : pc' = [pc EXCEPT ![p] = next]
  BY DEF Step, WriteFails, Goto, Return, Finish, Refund, lookup, cancelStale, checkActive,
     create, deduct, mark, prepare, publish, mqttFailed, lock, caught, refund, pay, payTx,
     restore, save, unlock
<1> QED BY <1>1, <1>2 DEF IInv, TypeOK

(* Who comes to pay has found no refund on record.                         *)
LEMMA ComesToPay ==
  ASSUME IInv, NEW q \in Procs, Step(q) \/ WriteFails(q), ~Paying(q), Paying(q)'
  PROVE  refund(q) /\ pc'[q] = "pay" /\ Key(q) \notin refundTx[ord[q]]
<1> USE DEF Goto, Return, Finish, Refund
<1>0. pc \in [Procs -> Resting \cup Steps] /\ back[q] \in {"caught", "restore", "save", "end"}
  BY DEF IInv, TypeOK
<1>1. pc[q] \notin {"pay", "payTx"} /\ pc'[q] \in {"pay", "payTx"} BY DEF Paying
<1>2. ~(lookup(q) \/ cancelStale(q) \/ create(q) \/ deduct(q) \/ mark(q) \/ publish(q))
  BY <1>0, <1>1 DEF lookup, cancelStale, create, deduct, mark, publish
<1>3. ~checkActive(q) BY <1>0, <1>1, CheckActiveGoes
<1>4. ~(prepare(q) \/ mqttFailed(q) \/ lock(q)) BY <1>0, <1>1 DEF prepare, mqttFailed, lock
<1>5. ~(caught(q) \/ restore(q)) BY <1>0, <1>1 DEF caught, restore
<1>6. ~(save(q) \/ unlock(q)) BY <1>0, <1>1 DEF save, unlock
<1>7. ~(pay(q) \/ payTx(q)) BY <1>1 DEF pay, payTx
<1>8. ~WriteFails(q) BY <1>0, <1>1 DEF WriteFails, FailTo
<1>9. refund(q) BY <1>2, <1>3, <1>4, <1>5, <1>6, <1>7, <1>8 DEF Step
<1> QED BY <1>0, <1>1, <1>9 DEF refund, Resting, Steps

(* The variables keep their types.                                         *)
THEOREM OrdersTypeCorrect == Spec => []TypeOK
<1>1. IInv => TypeOK BY DEF IInv
<1> QED BY <1>1, AlwaysIInv, PTL

(* No machine is told to dispense before the order is paid; and none       *)
(* dispenses, and no order is shown as dispensing, before, unless the      *)
(* machine asked for the order: whatever fails, crashes or interleaves.    *)
THEOREM OrdersPaidUnlessPolled == Spec => []PaidUnlessPolled
<1>1. IInv => PaidUnlessPolled BY DEF IInv, OrderOK, Paid, PaidUnlessPolled
<1> QED BY <1>1, AlwaysIInv, PTL

(* The status "refunded" is shown only of an order whose credit and refund *)
(* transaction exist.                                                      *)
THEOREM OrdersRefundedIsCredited == Spec => []RefundedIsCredited
<1>1. IInv => RefundedIsCredited BY DEF IInv, OrderOK, RefundedIsCredited
<1> QED BY <1>1, AlwaysIInv, PTL

(* A refund on record, with none under way, is the last one of its order,  *)
(* however many handlers and timers try.                                   *)
THEOREM OrdersRefundSettles == Spec => RefundSettles
<1> DEFINE Settles(o) ==
      Kind[o] # "legacy" /\ refundTx[o] # {} /\ (\A p \in Procs : ord[p] = o => ~Paying(p))
      => \A p \in Procs : ord'[p] = o => ~Paying(p)'
<1>1. ASSUME IInv, [Next]_vars, NEW o \in Orders PROVE Settles(o)
  <2> SUFFICES ASSUME Kind[o] # "legacy", refundTx[o] # {}, NEW q \in Procs, ord'[q] = o,
                      \A p \in Procs : ord[p] = o => ~Paying(p), Paying(q)'
               PROVE  FALSE
    OBVIOUS
  <2>1. "_id" \in refundTx[o] BY <1>1 DEF IInv, OrderOK
  <2>2. ~(pc'[q] = pc[q] /\ ord'[q] = ord[q]) BY DEF Paying
  <2>3. ~UNCHANGED <<pc, ord>> BY <2>2
  <2>4. TypeOK BY <1>1 DEF IInv
  <2>5. ASSUME NEW p \in Procs, Step(p) \/ WriteFails(p) PROVE FALSE
    <3>1. ord' = ord BY <1>1, <2>5, Moves
    <3>3. p = q BY <1>1, <2>2, <2>5, Moves
    <3>4. ord[q] = o /\ ~Paying(q) BY <3>1
    <3>5. refund(q) /\ pc'[q] = "pay" /\ Key(q) \notin refundTx[o]
      BY <1>1, <2>5, <3>3, <3>4, ComesToPay
    <3>6. Key(q) = "_id"
      BY <1>1, <3>4, <3>5 DEF IInv, ProcOK, PlacingOK, HandlerOK, CronOK, Procs, Steps,
         refund, Key, Legacy
    <3> QED BY <2>1, <3>5, <3>6
  <2>6. ASSUME NEW p \in Procs, NEW name, NEW o_1, NEW next \in {"refund", "save"}, NEW g, NEW k,
               Begin(p, name, o_1, next, g, k)
        PROVE  FALSE
    BY <2>2, <2>4, <2>6 DEF Begin, Goto, TypeOK, Paying
  <2>7. ASSUME NEW h \in Handlers, NEW o_1 \in Orders, Handle(h, o_1) PROVE FALSE
    BY <2>6, <2>7 DEF Handle, machineUpdateOrder, completeOrder, failOrder, refundOrder,
       Procs
  <2>8. ASSUME NEW c \in Crons, NEW o_1 \in Orders, cancelTimedOutOrders(c, o_1) PROVE FALSE
    BY <2>6, <2>8 DEF cancelTimedOutOrders, Procs
  <2>9. ~Crash BY <2>2, <2>4 DEF Crash, TypeOK, Paying, args
  <2>10. ASSUME NEW o_1 \in Orders, MachineTakes(o_1) \/ Poll(o_1) \/ MachineMakes(o_1) PROVE FALSE
    BY <2>3, <2>10 DEF MachineTakes, Poll, getActiveOrderForMachine, MachineMakes, args
  <2>11. ~UNCHANGED vars BY <2>3 DEF vars, args
  <2> QED BY <1>1, <2>5, <2>7, <2>8, <2>9, <2>10, <2>11 DEF Next
<1>2. IInv /\ [Next]_vars => [\A o \in Orders : Settles(o)]_vars BY <1>1
<1> QED BY <1>2, AlwaysIInv, PTL DEF Spec, RefundSettles

-----------------------------------------------------------------------------
(* The catch blocks that promise a refund.                                 *)

(* No order ever holds a wallet transaction, because what deduct answers   *)
(* has no id; a handler that asks for one never gets to the refund.        *)
UnpaidInv ==
    /\ \A o \in Orders : ~HasTransaction(o)
    /\ \A p \in Orders : back[p] # "restore" /\ pc[p] # "restore"
    /\ \A h \in Handlers : op[h] = "failOrder" => pc[h] \notin Refunding

(* failOrder refunds nobody; the catch block of placeOrder refunds nobody  *)
(* and puts no batch item back.                                            *)
CatchRefundsNobody ==
    /\ \A p \in Procs : pc[p] \in Refunding => op[p] # "failOrder"
    /\ \A p \in Orders : pc[p] \in Refunding => back[p] # "restore"
    /\ \A p \in Orders : pc[p] # "restore"

LEMMA InitUnpaid == Init => UnpaidInv
BY OrdersAssumption DEF OrdersAssumption, Init, Procs, UnpaidInv, HasTransaction, Refunding

(* What a step stores about the transaction and the way back.              *)
LEMMA StepUnpaid ==
  ASSUME IInv, UnpaidInv, NEW p \in Procs, Step(p) \/ WriteFails(p)
  PROVE  UnpaidInv'
<1> USE OrdersAssumption DEF OrdersAssumption
<1>t. TypeOK BY DEF IInv
<1>1. \A o \in Orders : ~HasTransaction(o)'
  <2>1. CASE create(p)
    <3>1. p \in Orders BY <2>1, Places DEF create, Placing
    <3> QED BY <1>t, <2>1, <3>1 DEF create, TypeOK, UnpaidInv, HasTransaction, DeductedId
  <2>2. CASE mark(p)
    <3>1. p \in Orders BY <2>2, Places DEF mark, Placing
    <3> QED BY <1>t, <2>2, <3>1 DEF mark, TypeOK, UnpaidInv, HasTransaction, DeductedId
  <2>3. CASE ~create(p) /\ ~mark(p)
    <3>1. txId' = txId
      BY <2>3 DEF Step, WriteFails, docs, lookup, cancelStale, checkActive, deduct, prepare,
         publish, mqttFailed, lock, caught, refund, pay, payTx, restore, save, unlock
    <3> QED BY <3>1 DEF UnpaidInv, HasTransaction
  <2> QED BY <2>1, <2>2, <2>3
<1>2. ASSUME NEW o \in Orders PROVE back'[o] # "restore"
  <2>1. back[o] # "restore" BY DEF UnpaidInv
  <2>2. CASE mqttFailed(p)
    BY <1>t, <2>1, <2>2 DEF mqttFailed, Refund, TypeOK, Procs
  <2>3. CASE caught(p)
    <3>1. ~HasTransaction(p)
      BY <2>3, Places DEF caught, Placing, UnpaidInv
    <3> QED BY <2>1, <2>3, <3>1 DEF caught
  <2>4. CASE ~mqttFailed(p) /\ ~caught(p)
    <3>1. back' = back
      BY <2>4 DEF Step, WriteFails, args, lookup, cancelStale, checkActive, create, deduct,
         mark, prepare, publish, lock, refund, pay, payTx, restore, save, unlock
    <3> QED BY <2>1, <3>1
  <2> QED BY <2>2, <2>3, <2>4
<1>3. ASSUME NEW o \in Orders PROVE pc'[o] # "restore"
  <2>0. o \in Procs /\ pc[o] # "restore" /\ back[o] # "restore" BY DEF Procs, UnpaidInv
  <2>1. CASE o # p BY <2>0, <2>1, Moves
  <2>2. CASE o = p
    <3> USE DEF Goto, Return, Finish, Refund
    <3>0. pc \in [Procs -> Resting \cup Steps] BY <1>t DEF TypeOK
    <3>1. ~(save(o) \/ unlock(o))
      BY DEF IInv, ProcOK, PlacingOK, Placing, Refunding, Resting, save, unlock, Procs
    <3>2. CASE checkActive(o) BY <3>0, <3>2, <2>0, CheckActiveGoes
    <3>3. CASE WriteFails(o)
      <4>1. pc' = [pc EXCEPT ![o] = FailTo(o)] BY <3>3 DEF WriteFails
      <4>2. FailTo(o) # "restore" BY <2>0 DEF FailTo
      <4> QED BY <2>0, <3>0, <4>1, <4>2
    <3>4. CASE refund(o) \/ pay(o) \/ payTx(o)
      BY <2>0, <3>0, <3>4 DEF refund, pay, payTx, FailTo
    <3>5. CASE lookup(o) \/ cancelStale(o) \/ create(o) \/ deduct(o) \/ mark(o) \/ prepare(o)
      BY <2>0, <3>0, <3>5 DEF lookup, cancelStale, create, deduct, mark, prepare
    <3>6. CASE publish(o) \/ mqttFailed(o) \/ lock(o)
      BY <2>0, <3>0, <3>6 DEF publish, mqttFailed, lock
    <3>7. CASE caught(o) \/ restore(o) BY <2>0, <3>0, <3>7 DEF caught, restore
    <3> QED BY <2>2, <3>1, <3>2, <3>3, <3>4, <3>5, <3>6, <3>7 DEF Step
  <2> QED BY <2>1, <2>2
<1>4. ASSUME NEW h \in Handlers, op'[h] = "failOrder" PROVE pc'[h] \notin Refunding
  <2>0. h \in Procs /\ op[h] = "failOrder" /\ pc[h] \notin Refunding /\ h \notin Crons
    BY <1>4, Moves DEF Procs, UnpaidInv
  <2>1. CASE h # p BY <2>0, <2>1, Moves
  <2>2. CASE h = p
    <3> USE DEF Goto, Finish
    <3>0. pc \in [Procs -> Resting \cup Steps] BY <1>t DEF TypeOK
    <3>1. pc[h] \notin Placing BY <2>0, Places
    <3>2. ~lookup(h) /\ ~cancelStale(h) BY <1>4 DEF lookup, cancelStale
    <3>3. CASE WriteFails(h)
      <4>1. pc' = [pc EXCEPT ![h] = FailTo(h)] BY <3>3 DEF WriteFails
      <4>2. FailTo(h) \notin Refunding BY <2>0 DEF FailTo, Refunding
      <4> QED BY <2>0, <3>0, <4>1, <4>2
    <3>4. CASE restore(h) \/ save(h) \/ unlock(h)
      BY <2>0, <3>0, <3>4 DEF restore, save, unlock, Refunding
    <3> QED BY <2>0, <2>2, <3>1, <3>2, <3>3, <3>4 DEF Step, Placing, Refunding, checkActive,
            create, deduct, mark, prepare, publish, mqttFailed, lock, caught, refund, pay, payTx
  <2> QED BY <2>1, <2>2
<1> QED BY <1>1, <1>2, <1>3, <1>4 DEF UnpaidInv

(* A handler that begins; failOrder with an order that has no transaction. *)
LEMMA BeginUnpaid ==
  ASSUME IInv, UnpaidInv, NEW p \in Handlers \cup Crons, NEW name, NEW o, NEW next \in {"refund", "save"},
         NEW g, NEW k, Begin(p, name, o, next, g, k), name = "failOrder" => next = "save"
  PROVE  UnpaidInv'
<1> USE OrdersAssumption DEF OrdersAssumption
<1>1. p \in Procs /\ p \notin Orders /\ TypeOK BY DEF Procs, IInv
<1>2. \A o_1 \in Orders : ~HasTransaction(o_1)' BY DEF Begin, docs, UnpaidInv, HasTransaction
<1>3. \A q \in Orders : back'[q] # "restore" /\ pc'[q] # "restore"
  BY <1>1 DEF Begin, Goto, UnpaidInv
<1>4. ASSUME NEW h \in Handlers, op'[h] = "failOrder" PROVE pc'[h] \notin Refunding
  BY <1>1, <1>4 DEF Begin, Goto, UnpaidInv, TypeOK, Procs, Refunding
<1> QED BY <1>2, <1>3, <1>4 DEF UnpaidInv

LEMMA NextUnpaid == IInv /\ UnpaidInv /\ [Next]_vars => UnpaidInv'
<1> SUFFICES ASSUME IInv, UnpaidInv, [Next]_vars PROVE UnpaidInv'
  OBVIOUS
<1>1. ASSUME NEW h \in Handlers, NEW o \in Orders, Handle(h, o) PROVE UnpaidInv'
  <2>1. CASE \E s \in Acks : machineUpdateOrder(h, o, s)
    BY <2>1, BeginUnpaid DEF machineUpdateOrder
  <2>2. CASE completeOrder(h, o) \/ refundOrder(h, o)
    BY <2>2, BeginUnpaid DEF completeOrder, refundOrder
  <2>3. CASE failOrder(h, o)
    <3>1. ~HasTransaction(o) BY DEF UnpaidInv
    <3> QED BY <2>3, <3>1, BeginUnpaid DEF failOrder
  <2> QED BY <1>1, <2>1, <2>2, <2>3 DEF Handle
<1>2. ASSUME NEW c \in Crons, NEW o \in Orders, cancelTimedOutOrders(c, o) PROVE UnpaidInv'
  BY <1>2, BeginUnpaid DEF cancelTimedOutOrders
<1>3. CASE Crash
  <2>1. \A p \in Procs : pc'[p] = pc[p] \/ pc'[p] \in {"idle", "dead"} BY <1>3 DEF Crash
  <2>2. UNCHANGED <<txId, back, op>> BY <1>3 DEF Crash, docs, args
  <2> QED BY <2>1, <2>2 DEF UnpaidInv, HasTransaction, Refunding, Procs
<1>4. CASE UNCHANGED <<txId, back, op, pc>> BY <1>4 DEF UnpaidInv, HasTransaction
<1>5. ASSUME NEW o \in Orders, MachineTakes(o) \/ Poll(o) \/ MachineMakes(o) PROVE UnpaidInv'
  BY <1>4, <1>5 DEF MachineTakes, Poll, getActiveOrderForMachine, MachineMakes, docs, args
<1>6. CASE UNCHANGED vars BY <1>4, <1>6 DEF vars, docs, args
<1> QED BY <1>1, <1>2, <1>3, <1>5, <1>6, StepUnpaid DEF Next

(* "If the order was in dispensing state, the customer's wallet is         *)
(* automatically refunded" (agents.service.ts:231) fails not now and then  *)
(* but always: no call of failOrder ever refunds, on any schedule, and     *)
(* placeOrder's catch block never refunds or restores.                     *)
THEOREM OrdersCatchRefundsNobody == Spec => []CatchRefundsNobody
<1>1. IInv /\ UnpaidInv => CatchRefundsNobody
  BY DEF IInv, UnpaidInv, CatchRefundsNobody, Procs, ProcOK, PlacingOK, CronOK
<1> QED BY <1>1, InitUnpaid, NextUnpaid, AlwaysIInv, PTL DEF Spec

-----------------------------------------------------------------------------
(* How an order can be refunded twice.                                     *)

(* No two refunds of one order are under way at a time.                    *)
Apart == \A p, q \in Procs : Paying(p) /\ Paying(q) /\ ord[p] = ord[q] => p = q

(* A credit is followed by its transaction: that write neither fails nor   *)
(* is cut off by a restart.                                                *)
Recorded == \A p \in Procs : pc[p] = "payTx" => pc'[p] = "payTx" \/ payTx(p)

(* An order is credited no more than once; legacyPlaceOrder names its      *)
(* orders by another key, so its own are not meant.                        *)
CreditedOnce == \A o \in Orders : Kind[o] # "legacy" => credits[o] <= 1

Works(p, o)  == ord[p] = o /\ Paying(p)
Writes(p, o) == ord[p] = o /\ pc[p] = "payTx"

(* A refund on record is the only credit and nobody is at another; until   *)
(* then there is a credit just when somebody is about to record it.        *)
OnceOK(o) ==
    /\ "_id" \in refundTx[o] => credits[o] = 1 /\ \A p \in Procs : ~Works(p, o)
    /\ "_id" \notin refundTx[o] =>
           /\ (\E p \in Procs : Writes(p, o)) => credits[o] = 1
           /\ (\A p \in Procs : ~Writes(p, o)) => credits[o] = 0

OnceInv == \A o \in Orders : Kind[o] # "legacy" => OnceOK(o)

(* An order nobody credits keeps what it has, if whoever comes to it finds *)
(* no refund on record.                                                    *)
LEMMA OthersOnce ==
  ASSUME NEW o \in Orders, OnceOK(o), credits'[o] = credits[o], refundTx'[o] = refundTx[o],
         \A p \in Procs : Writes(p, o)' <=> Writes(p, o),
         \A p \in Procs : Works(p, o)' => Works(p, o) \/ "_id" \notin refundTx[o]
  PROVE  OnceOK(o)'
BY DEF OnceOK

(* Everybody but a legacy order's own request names an order by its id.    *)
LEMMA NamesById ==
  ASSUME IInv, NEW p \in Procs, pc[p] \in Refunding, Kind[ord[p]] # "legacy" PROVE Key(p) = "_id"
BY OrdersAssumption DEF OrdersAssumption, IInv, ProcOK, PlacingOK, HandlerOK, CronOK, Procs,
   Steps, Refunding, Key, Legacy

LEMMA PayOnce ==
  ASSUME IInv, OnceInv, Apart, NEW p \in Procs, pay(p), NEW o \in Orders, Kind[o] # "legacy"
  PROVE  OnceOK(o)'
<1> USE DEF Goto
<1>0. /\ OnceOK(o) /\ ord[p] \in Orders /\ Works(p, ord[p]) /\ pc[p] = "pay"
      /\ pc \in [Procs -> Resting \cup Steps] /\ credits \in [Orders -> Nat]
      /\ UNCHANGED <<ord, refundTx>>
  BY WorksOn DEF OnceInv, IInv, TypeOK, pay, Steps, Works, Paying, args
<1>1. CASE ord[p] \in Walleted
  <2>1. pc' = [pc EXCEPT ![p] = "payTx"] /\ credits' = [credits EXCEPT ![ord[p]] = @ + 1]
    BY <1>1 DEF pay
  <2>2. CASE ord[p] = o
    <3>1. \A q \in Procs : ~Writes(q, o)
      BY <1>0, <2>2 DEF Apart, Writes, Works, Paying
    <3>2. "_id" \notin refundTx[o] BY <1>0, <2>2 DEF OnceOK
    <3>3. credits[o] = 0 BY <1>0, <3>1, <3>2 DEF OnceOK
    <3>4. Writes(p, o)' BY <1>0, <2>1, <2>2 DEF Writes
    <3>5. credits'[o] = 1 BY <1>0, <2>1, <2>2, <3>3
    <3> QED BY <1>0, <3>2, <3>4, <3>5 DEF OnceOK
  <2>3. CASE ord[p] # o
    <3>1. credits'[o] = credits[o] BY <1>0, <2>1, <2>3
    <3>2. \A q \in Procs : ord[q] = o => pc'[q] = pc[q] BY <1>0, <2>1, <2>3
    <3>3. \A q \in Procs : (Writes(q, o)' <=> Writes(q, o)) /\ (Works(q, o)' <=> Works(q, o))
      BY <1>0, <3>2 DEF Writes, Works, Paying
    <3> QED BY <1>0, <3>1, <3>3, OthersOnce
  <2> QED BY <2>2, <2>3
<1>2. CASE ord[p] \notin Walleted
  <2>1. pc' = [pc EXCEPT ![p] = FailTo(p)] /\ credits' = credits BY <1>2 DEF pay
  <2>2. pc'[p] \notin {"pay", "payTx"}
    BY <1>0, <2>1 DEF FailTo, IInv, TypeOK
  <2>3. \A q \in Procs : (Writes(q, o)' <=> Writes(q, o)) /\ (Works(q, o)' => Works(q, o))
    BY <1>0, <2>1, <2>2 DEF Writes, Works, Paying
  <2> QED BY <1>0, <2>1, <2>3, OthersOnce
<1> QED BY <1>1, <1>2

LEMMA PayTxOnce ==
  ASSUME IInv, OnceInv, Apart, NEW p \in Procs, payTx(p), NEW o \in Orders, Kind[o] # "legacy"
  PROVE  OnceOK(o)'
<1> USE DEF Goto, Return, Finish
<1>0. /\ OnceOK(o) /\ ord[p] \in Orders /\ pc[p] = "payTx"
      /\ pc \in [Procs -> Resting \cup Steps] /\ UNCHANGED <<ord, credits>>
      /\ refundTx' = [refundTx EXCEPT ![ord[p]] = @ \cup {Key(p)}]
      /\ refundTx \in [Orders -> SUBSET {"_id", "orderId"}]
  BY WorksOn DEF OnceInv, IInv, TypeOK, payTx, Steps, args
<1>1. pc'[p] \notin {"pay", "payTx"} /\ \A q \in Procs : q # p => pc'[q] = pc[q]
  BY <1>0 DEF payTx, IInv, TypeOK
<1>2. CASE ord[p] = o
  <2>1. Key(p) = "_id" BY <1>0, <1>2, NamesById DEF Refunding
  <2>2. "_id" \notin refundTx[o] BY <1>0, <1>2 DEF OnceOK, Works, Paying
  <2>3. credits[o] = 1 BY <1>0, <1>2, <2>2 DEF OnceOK, Writes
  <2>4. \A q \in Procs : Works(q, o) => q = p
    BY <1>0, <1>2 DEF Apart, Works, Paying
  <2>5. \A q \in Procs : ~Works(q, o)' BY <1>0, <1>1, <2>4 DEF Works, Paying
  <2> QED BY <1>0, <1>2, <2>1, <2>3, <2>5 DEF OnceOK
<1>3. CASE ord[p] # o
  <2>1. \A q \in Procs : ord[q] = o => pc'[q] = pc[q] BY <1>1, <1>3
  <2>2. \A q \in Procs : (Writes(q, o)' <=> Writes(q, o)) /\ (Works(q, o)' <=> Works(q, o))
    BY <1>0, <2>1 DEF Writes, Works, Paying
  <2> QED BY <1>0, <1>3, <2>2, OthersOnce
<1> QED BY <1>2, <1>3

(* Any other step of a process.                                            *)
LEMMA StepOnce ==
  ASSUME IInv, OnceInv, Apart, Recorded, NEW p \in Procs, Step(p) \/ WriteFails(p),
         NEW o \in Orders, Kind[o] # "legacy"
  PROVE  OnceOK(o)'
<1>1. CASE pay(p) BY <1>1, PayOnce
<1>2. CASE payTx(p) BY <1>2, PayTxOnce
<1>3. CASE ~pay(p) /\ ~payTx(p)
  <2>0. OnceOK(o) BY DEF OnceInv
  <2>1. UNCHANGED <<credits, refundTx>>
    BY <1>3 DEF Step, WriteFails, wallet, lookup, cancelStale, checkActive, create, deduct,
       mark, prepare, publish, mqttFailed, lock, caught, refund, restore, save, unlock
  <2>2. ord' = ord /\ \A q \in Procs : q # p => pc'[q] = pc[q] BY Moves
  <2>3. pc[p] = "payTx" => pc'[p] = "payTx" BY <1>3 DEF Recorded
  <2>4. pc'[p] = "payTx" => pc[p] = "payTx"
    <3>1. CASE Paying(p)
      <4>1. WriteFails(p)
        BY <1>3, <3>1 DEF Paying, Step, lookup, cancelStale, checkActive, create, deduct, mark,
           prepare, publish, mqttFailed, lock, caught, refund, restore, save, unlock
      <4>2. pc'[p] = FailTo(p) BY <4>1 DEF WriteFails, Goto, IInv, TypeOK
      <4>3. FailTo(p) # "payTx" BY DEF FailTo, IInv, TypeOK
      <4> QED BY <4>2, <4>3
    <3>2. CASE ~Paying(p) BY <3>2, ComesToPay DEF Paying
    <3> QED BY <3>1, <3>2
  <2>5. ASSUME Works(p, o)' PROVE Works(p, o) \/ "_id" \notin refundTx[o]
    <3>1. ord[p] = o /\ Paying(p)' BY <2>2, <2>5 DEF Works
    <3>2. CASE Paying(p) BY <3>1, <3>2 DEF Works
    <3>3. CASE ~Paying(p)
      <4>1. refund(p) /\ Key(p) \notin refundTx[o] BY <3>1, <3>3, ComesToPay
      <4>2. Key(p) = "_id" BY <3>1, <4>1, NamesById DEF refund, Refunding
      <4> QED BY <4>1, <4>2
    <3> QED BY <3>2, <3>3
  <2>6. \A q \in Procs : Writes(q, o)' <=> Writes(q, o) BY <2>2, <2>3, <2>4 DEF Writes
  <2>7. \A q \in Procs : Works(q, o)' => Works(q, o) \/ "_id" \notin refundTx[o]
    BY <2>2, <2>5 DEF Works, Paying
  <2> QED BY <2>0, <2>1, <2>6, <2>7, OthersOnce
<1> QED BY <1>1, <1>2, <1>3

(* A handler that begins was idle and is at most about to look.            *)
LEMMA BeginOnce ==
  ASSUME IInv, OnceInv, NEW p \in Procs, NEW name, NEW o_1, NEW next \in {"refund", "save"}, NEW g, NEW k,
         Begin(p, name, o_1, next, g, k), NEW o \in Orders, Kind[o] # "legacy"
  PROVE  OnceOK(o)'
<1>0. OnceOK(o) /\ UNCHANGED <<credits, refundTx>> BY DEF OnceInv, Begin, wallet
<1>1. \A q \in Procs : q # p => pc'[q] = pc[q] /\ ord'[q] = ord[q]
  BY DEF Begin, Goto, IInv, TypeOK
<1>2. pc[p] = "idle" /\ pc'[p] = next BY DEF Begin, Goto, IInv, TypeOK
<1>3. \A q \in Procs : (Writes(q, o)' <=> Writes(q, o)) /\ (Works(q, o)' <=> Works(q, o))
  BY <1>1, <1>2 DEF Writes, Works, Paying
<1> QED BY <1>0, <1>3, OthersOnce

LEMMA NextOnce == IInv /\ OnceInv /\ Apart /\ [Next]_vars /\ [Recorded]_vars => OnceInv'
<1> SUFFICES ASSUME IInv, OnceInv, Apart, [Next]_vars, [Recorded]_vars,
                    NEW o \in Orders, Kind[o] # "legacy"
             PROVE  OnceOK(o)'
  BY DEF OnceInv
<1>0. OnceOK(o) BY DEF OnceInv
<1>1. CASE UNCHANGED <<credits, refundTx, pc, ord>>
  <2>1. \A q \in Procs : (Writes(q, o)' <=> Writes(q, o)) /\ (Works(q, o)' <=> Works(q, o))
    BY <1>1 DEF Writes, Works, Paying
  <2> QED BY <1>0, <1>1, <2>1, OthersOnce
<1>2. CASE UNCHANGED vars BY <1>1, <1>2 DEF vars, wallet, args
<1>3. ASSUME Next, ~UNCHANGED vars PROVE OnceOK(o)'
  <2>1. Recorded BY <1>3
  <2>2. ASSUME NEW p \in Procs, Step(p) \/ WriteFails(p) PROVE OnceOK(o)'
    BY <2>1, <2>2, StepOnce
  <2>3. ASSUME NEW h \in Handlers, NEW o_1 \in Orders, Handle(h, o_1) PROVE OnceOK(o)'
    BY <2>3, BeginOnce DEF Handle, machineUpdateOrder, completeOrder, failOrder, refundOrder,
       Procs
  <2>4. ASSUME NEW c \in Crons, NEW o_1 \in Orders, cancelTimedOutOrders(c, o_1) PROVE OnceOK(o)'
    BY <2>4, BeginOnce DEF cancelTimedOutOrders, Procs
  <2>5. ASSUME NEW o_1 \in Orders, MachineTakes(o_1) \/ Poll(o_1) \/ MachineMakes(o_1) PROVE OnceOK(o)'
    BY <1>1, <2>5 DEF MachineTakes, Poll, getActiveOrderForMachine, MachineMakes, wallet, args
  <2>6. CASE Crash
    <3>1. UNCHANGED <<credits, refundTx, ord>> /\ \A q \in Procs : pc'[q] = pc[q] \/ pc'[q] \in {"idle", "dead"}
      BY <2>6 DEF Crash, wallet, args
    <3>2. ASSUME NEW q \in Procs, pc[q] = "payTx" PROVE FALSE
      <4>1. pc'[q] # "payTx" BY <2>6, <3>2 DEF Crash, Steps
      <4>2. payTx(q) BY <2>1, <3>2, <4>1 DEF Recorded
      <4>3. crashes' = crashes + 1 /\ crashes' = crashes /\ crashes \in Nat
        BY <2>6, <4>2, OrdersAssumption DEF Crash, payTx, IInv, TypeOK, OrdersAssumption
      <4> QED BY <4>3
    <3>3. \A q \in Procs : (Writes(q, o)' <=> Writes(q, o)) /\ (Works(q, o)' => Works(q, o))
      BY <3>1, <3>2 DEF Writes, Works, Paying
    <3> QED BY <1>0, <3>1, <3>3, OthersOnce
  <2> QED BY <1>3, <2>2, <2>3, <2>4, <2>5, <2>6 DEF Next
<1> QED BY <1>2, <1>3

LEMMA InitOnce == Init => OnceInv
<1> SUFFICES ASSUME Init, NEW o \in Orders PROVE OnceOK(o)
  BY DEF OnceInv
<1>1. credits[o] = 0 /\ refundTx[o] = {}
  BY DEF Init
<1>2. \A p \in Procs : pc[p] = "idle"
  BY DEF Init
<1> QED BY <1>1, <1>2 DEF OnceOK, Writes, Works, Paying

(* Whatever else fails, crashes or interleaves, an order is credited twice *)
(* only if two of its refunds overlap or the transaction of one is never   *)
(* written: the lookup of refund closes every other way.                   *)
THEOREM OrdersCreditedOnce == Spec /\ []Apart /\ [][Recorded]_vars => []CreditedOnce
<1>1. IInv /\ OnceInv => CreditedOnce
  BY DEF IInv, TypeOK, OnceInv, OnceOK, CreditedOnce
<1> QED BY <1>1, InitOnce, NextOnce, AlwaysIInv, PTL DEF Spec

-----------------------------------------------------------------------------
(* How a machine can get two orders at a time.                             *)

(* A placing request has seen no active order on its machine and has not   *)
(* stored its own.                                                         *)
Chosen(p) == p \in Orders /\ pc[p] \in (IF Legacy(p) THEN {"deduct", "create"} ELSE {"create"})

(* No two requests for one machine are both between the two.               *)
PlacedApart ==
    \A p, q \in Procs : Chosen(p) /\ Chosen(q) /\ MachineOf[p] = MachineOf[q] => p = q

(* Nobody shows an order as active that has reached a final status, as a   *)
(* late report of the machine or the request of a cancelled order may do.  *)
NotRevived ==
    \A o \in Orders : status[o] \notin Active \cup {"none"} => status'[o] \notin Active

(* A machine has one active order at a time.                               *)
OneActive ==
    \A o, q \in Orders :
        MachineOf[o] = MachineOf[q] /\ status[o] \in Active /\ status[q] \in Active => o = q

(* Whoever stores a status, but for create, works on an order that exists. *)
StoredOK(p) ==
    /\ p \in Orders /\ pc[p] \in (IF Legacy(p) THEN {"mark"} ELSE {"deduct", "mark"})
           => status[p] # "none"
    /\ p \notin Orders /\ pc[p] \in Steps => status[ord[p]] # "none"

ActiveInv ==
    /\ \A p \in Procs : StoredOK(p)
    /\ \A p \in Orders : Chosen(p) => ActiveOn(MachineOf[p]) = {}
    /\ OneActive

(* What a step of a process does to the statuses.                          *)
LEMMA StepStatus ==
  ASSUME IInv, NEW p \in Procs, Step(p) \/ WriteFails(p)
  PROVE  \/ status' = status
         \/ \A o \in Orders : status'[o] \in {status[o], "cancelled"}
         \/ create(p) /\ p \in Orders /\ \A o \in Orders : o # p => status'[o] = status[o]
         \/ /\ pc[p] \in {"mark", "mqttFailed", "caught", "save"}
            /\ \A o \in Orders : o # ord[p] => status'[o] = status[o]
            /\ status'[ord[p]] \in Statuses \cup {status[ord[p]]}
<1>t. TypeOK BY DEF IInv
<1>1. CASE cancelStale(p) BY <1>1 DEF cancelStale
<1>2. CASE create(p)
  <2>1. p \in Orders BY <1>2, Places DEF create, Placing
  <2> QED BY <1>t, <1>2, <2>1 DEF create, TypeOK
<1>3. CASE mark(p) \/ mqttFailed(p) \/ caught(p)
  <2>1. pc[p] \in {"mark", "mqttFailed", "caught"}
    BY <1>3 DEF mark, mqttFailed, caught
  <2>2. ord[p] \in Orders BY <2>1, WorksOn DEF Steps
  <2>3. \E s \in Statuses : Save(p, s) BY <1>3 DEF mark, mqttFailed, caught, Statuses
  <2>4. PICK s \in Statuses : Save(p, s) BY <2>3
  <2> QED BY <1>t, <2>1, <2>2, <2>4 DEF Save, TypeOK
<1>4. CASE save(p)
  <2>1. pc[p] = "save" BY <1>4 DEF save
  <2>2. ord[p] \in Orders BY <2>1, WorksOn DEF Steps
  <2>3. CASE Valid(goal[p])
    <3>1. Save(p, goal[p]) /\ goal[p] \in Statuses BY <1>4, <2>3 DEF save, Valid
    <3> QED BY <1>t, <2>1, <2>2, <3>1 DEF Save, TypeOK
  <2>4. CASE ~Valid(goal[p]) BY <1>4, <2>4 DEF save
  <2> QED BY <2>3, <2>4
<1>5. CASE ~(cancelStale(p) \/ create(p) \/ mark(p) \/ mqttFailed(p) \/ caught(p) \/ save(p))
  BY <1>5 DEF Step, WriteFails, docs, lookup, checkActive, deduct, prepare, publish, lock,
     refund, pay, payTx, restore, unlock
<1> QED BY <1>1, <1>2, <1>3, <1>4, <1>5

(* A stored order stays stored, and becomes active again by create alone.  *)
LEMMA StepStored ==
  ASSUME IInv, ActiveInv, NotRevived, NEW p \in Procs, Step(p) \/ WriteFails(p)
  PROVE  /\ \A o \in Orders : status[o] # "none" => status'[o] # "none"
         /\ \A o \in Orders :
                status[o] \notin Active /\ status'[o] \in Active
                => o = p /\ create(p) /\ \A q \in Orders : q # p => status'[q] = status[q]
<1>t. TypeOK BY DEF IInv
<1>1. CASE status' = status BY <1>1
<1>2. CASE \A o \in Orders : status'[o] \in {status[o], "cancelled"} BY <1>2 DEF Active
<1>3. CASE create(p) /\ p \in Orders /\ \A o \in Orders : o # p => status'[o] = status[o]
  <2>1. status'[p] # "none" BY <1>t, <1>3 DEF create, TypeOK
  <2> QED BY <1>3, <2>1
<1>4. CASE /\ pc[p] \in {"mark", "mqttFailed", "caught", "save"}
           /\ \A o \in Orders : o # ord[p] => status'[o] = status[o]
           /\ status'[ord[p]] \in Statuses \cup {status[ord[p]]}
  <2>1. ord[p] \in Orders BY <1>4, WorksOn DEF Steps
  <2>2. \A o \in Orders : status[o] # "none" => status'[o] # "none" BY <1>4 DEF Statuses
  <2>3. ASSUME status[ord[p]] \notin Active, status'[ord[p]] \in Active PROVE FALSE
    <3>1. status[ord[p]] = "none" BY <2>1, <2>3 DEF NotRevived
    <3>2. p \in Orders
      BY <1>4, <3>1 DEF ActiveInv, StoredOK, Steps
    <3>3. ord[p] = p BY <3>2 DEF IInv, ProcOK, PlacingOK
    <3>4. pc[p] # "mark" BY <3>1, <3>2, <3>3 DEF ActiveInv, StoredOK
    <3>5. pc[p] # "save"
      BY <3>2 DEF IInv, ProcOK, PlacingOK, Placing, Refunding, Resting
    <3>6. ~WriteFails(p) BY <2>3 DEF WriteFails, docs
    <3>7. mqttFailed(p) \/ caught(p)
      BY <1>4, <3>4, <3>5, <3>6 DEF Step, lookup, cancelStale, checkActive, create,
         deduct, mark, prepare, publish, lock, refund, pay, payTx, restore, save, unlock
    <3>8. Save(p, "failed") BY <3>7 DEF mqttFailed, caught
    <3> QED BY <1>t, <2>1, <2>3, <3>8 DEF Save, TypeOK, Active
  <2> QED BY <1>4, <2>2, <2>3
<1> QED BY <1>1, <1>2, <1>3, <1>4, StepStatus

(* Only the check for active orders lets a request through to the place    *)
(* where it stores its own.                                                *)
LEMMA BecomesChosen ==
  ASSUME IInv, NEW p \in Procs, NEW q \in Orders, Step(p) \/ WriteFails(p), ~Chosen(q), Chosen(q)'
  PROVE  ActiveOn(MachineOf[q]) = {} /\ status' = status
<1> USE DEF Goto, Return, Finish, Refund
<1>0. /\ q \in Procs /\ pc \in [Procs -> Resting \cup Steps] /\ UNCHANGED op
      /\ back[q] \in {"caught", "restore", "end"}
  BY Moves DEF IInv, TypeOK, ProcOK, PlacingOK, Procs
<1>1. p = q BY <1>0, Moves DEF Chosen, Legacy
<1>2. /\ pc'[q] \in (IF Legacy(q) THEN {"deduct", "create"} ELSE {"create"})
      /\ pc[q] \notin (IF Legacy(q) THEN {"deduct", "create"} ELSE {"create"})
  BY <1>0 DEF Chosen, Legacy
<1>3. ~(lookup(q) \/ cancelStale(q) \/ create(q) \/ mark(q) \/ publish(q))
  BY <1>0, <1>2 DEF lookup, cancelStale, create, mark, publish
<1>4. ~deduct(q) BY <1>0, <1>2 DEF deduct
<1>5. ~(prepare(q) \/ mqttFailed(q) \/ lock(q)) BY <1>0, <1>2 DEF prepare, mqttFailed, lock
<1>6. ~(caught(q) \/ restore(q)) BY <1>0, <1>2 DEF caught, restore
<1>7. ~(save(q) \/ unlock(q)) BY <1>0, <1>2 DEF save, unlock
<1>8. ~(refund(q) \/ pay(q) \/ payTx(q)) BY <1>0, <1>2 DEF refund, pay, payTx, FailTo
<1>9. ~WriteFails(q) BY <1>0, <1>2 DEF WriteFails, FailTo
<1>10. checkActive(q) BY <1>1, <1>3, <1>4, <1>5, <1>6, <1>7, <1>8, <1>9 DEF Step
<1>11. status' = status BY <1>10 DEF checkActive, docs
<1>12. ActiveOn(MachineOf[q]) = {}
  BY <1>0, <1>2, <1>10 DEF checkActive
<1> QED BY <1>11, <1>12

LEMMA StepActive ==
  ASSUME IInv, ActiveInv, PlacedApart, NotRevived, NEW p \in Procs, Step(p) \/ WriteFails(p)
  PROVE  ActiveInv'
<1> USE OrdersAssumption DEF OrdersAssumption
<1>t. TypeOK /\ UNCHANGED <<op, ord>> BY Moves DEF IInv
<1>1. ASSUME NEW q \in Procs PROVE StoredOK(q)'
  <2>1. StoredOK(q) BY DEF ActiveInv
  <2>2. CASE q \notin Orders
    <3>1. pc'[q] \in Steps => pc[q] \in Steps
      <4>1. CASE q # p BY <4>1, Moves
      <4>2. CASE q = p
        BY <2>2, <4>2 DEF Step, WriteFails, Steps, Resting, lookup, cancelStale, checkActive,
           create, deduct, mark, prepare, publish, mqttFailed, lock, caught, refund, pay, payTx,
           restore, save, unlock, IInv, TypeOK
      <4> QED BY <4>1, <4>2
    <3>2. pc[q] \in Steps => ord[q] \in Orders BY WorksOn
    <3> QED BY <1>t, <2>1, <2>2, <3>1, <3>2, StepStored DEF StoredOK
  <2>3. CASE q \in Orders /\ q # p
    BY <1>t, <2>1, <2>3, Moves, StepStored DEF StoredOK, Legacy
  <2>4. CASE q \in Orders /\ q = p
    <3> SUFFICES ASSUME pc'[q] \in (IF Legacy(q) THEN {"mark"} ELSE {"deduct", "mark"})
                 PROVE  status'[q] # "none"
      BY <1>t, <2>4 DEF StoredOK, Legacy
    <3>1. CASE create(q) BY <1>t, <2>4, <3>1 DEF create, TypeOK
    <3>2. CASE deduct(q)
      <4>1. ~Legacy(q) BY <1>t, <3>2 DEF deduct, Goto, TypeOK
      <4>2. pc[q] = "deduct" BY <3>2 DEF deduct
      <4> QED BY <2>1, <2>4, <4>1, <4>2, StepStored DEF StoredOK
    <3>3. CASE ~create(q) /\ ~deduct(q)
      <4> USE DEF Goto, Return, Finish, Refund
      <4>0. pc \in [Procs -> Resting \cup Steps] /\ back[q] \in {"caught", "restore", "save", "end"}
        BY <1>t DEF TypeOK
      <4>1. ~(lookup(q) \/ cancelStale(q) \/ mark(q) \/ publish(q))
        BY <4>0 DEF lookup, cancelStale, mark, publish
      <4>2. ~(prepare(q) \/ mqttFailed(q) \/ lock(q)) BY <4>0 DEF prepare, mqttFailed, lock
      <4>3. ~(caught(q) \/ restore(q)) BY <4>0 DEF caught, restore
      <4>4. ~(save(q) \/ unlock(q)) BY <4>0 DEF save, unlock
      <4>5. ~(refund(q) \/ pay(q) \/ payTx(q)) BY <4>0 DEF refund, pay, payTx, FailTo
      <4>6. ~WriteFails(q) BY <4>0 DEF WriteFails, FailTo
      <4>7. ~checkActive(q)
        BY <4>0 DEF checkActive
      <4> QED BY <2>4, <3>3, <4>1, <4>2, <4>3, <4>4, <4>5, <4>6, <4>7 DEF Step
    <3> QED BY <3>1, <3>2, <3>3
  <2> QED BY <2>2, <2>3, <2>4
<1>2. ASSUME NEW q \in Orders, Chosen(q)' PROVE ActiveOn(MachineOf[q])' = {}
  <2>1. CASE Chosen(q)
    <3>1. \A o \in Orders : MachineOf[o] = MachineOf[q] => status[o] \notin Active
      BY <2>1 DEF ActiveInv, ActiveOn
    <3>2. SUFFICES ASSUME NEW o \in Orders, MachineOf[o] = MachineOf[q], status'[o] \in Active
                   PROVE  FALSE
      BY DEF ActiveOn
    <3>3. o = p /\ create(p) BY <3>1, <3>2, StepStored
    <3>4. Chosen(p) BY <3>2, <3>3 DEF Chosen, create
    <3>5. q = p BY <2>1, <3>2, <3>3, <3>4 DEF PlacedApart, Procs
    <3>6. pc'[p] \notin {"create"} /\ (Legacy(p) => pc'[p] # "deduct")
      BY <1>t, <3>3 DEF create, Goto, TypeOK
    <3> QED BY <1>t, <1>2, <3>5, <3>6 DEF Chosen, Legacy
  <2>2. CASE ~Chosen(q)
    BY <1>2, <2>2, BecomesChosen DEF ActiveOn
  <2> QED BY <2>1, <2>2
<1>3. OneActive'
  <2> SUFFICES ASSUME NEW o \in Orders, NEW q \in Orders, MachineOf[o] = MachineOf[q],
                      status'[o] \in Active, status'[q] \in Active, o # q
               PROVE  FALSE
    BY DEF OneActive
  <2>1. ASSUME NEW a \in Orders, NEW b \in Orders, MachineOf[a] = MachineOf[b], a # b,
               status'[a] \in Active, status'[b] \in Active, status[a] \notin Active
        PROVE  FALSE
    <3>1. a = p /\ create(p) /\ status'[b] = status[b] BY <2>1, StepStored
    <3>2. Chosen(p) BY <2>1, <3>1 DEF Chosen, create
    <3> QED BY <2>1, <3>1, <3>2 DEF ActiveInv, ActiveOn
  <2> QED BY <2>1 DEF ActiveInv, OneActive
<1> QED BY <1>1, <1>2, <1>3 DEF ActiveInv

(* A handler that begins stores nothing yet.                               *)
LEMMA BeginActive ==
  ASSUME IInv, ActiveInv, NEW p \in Handlers \cup Crons, NEW name, NEW o \in Orders,
         NEW next \in {"refund", "save"}, NEW g, NEW k, Begin(p, name, o, next, g, k)
  PROVE  ActiveInv'
<1> USE OrdersAssumption DEF OrdersAssumption
<1>1. p \in Procs /\ p \notin Orders /\ TypeOK /\ status' = status /\ status[o] # "none"
  BY DEF Procs, IInv, Begin, docs
<1>2. \A q \in Procs : q # p => pc'[q] = pc[q] /\ op'[q] = op[q] /\ ord'[q] = ord[q]
  BY <1>1 DEF Begin, Goto, TypeOK
<1>3. ASSUME NEW q \in Procs PROVE StoredOK(q)'
  <2>1. CASE q = p
    <3>1. ord'[p] = o BY <1>1 DEF Begin, TypeOK
    <3> QED BY <1>1, <2>1, <3>1 DEF StoredOK
  <2>2. CASE q # p BY <1>1, <1>2, <2>2 DEF ActiveInv, StoredOK, Legacy
  <2> QED BY <2>1, <2>2
<1>4. \A q \in Orders : Chosen(q)' => Chosen(q) BY <1>1, <1>2 DEF Chosen, Legacy, Procs
<1> QED BY <1>1, <1>3, <1>4 DEF ActiveInv, ActiveOn, OneActive

LEMMA NextActive ==
  IInv /\ ActiveInv /\ PlacedApart /\ [Next]_vars /\ [NotRevived]_vars => ActiveInv'
<1> SUFFICES ASSUME IInv, ActiveInv, PlacedApart, [Next]_vars, [NotRevived]_vars
             PROVE  ActiveInv'
  OBVIOUS
<1>1. CASE UNCHANGED <<status, pc, op, ord>>
  BY <1>1 DEF ActiveInv, StoredOK, Legacy, Chosen, ActiveOn, OneActive
<1>2. CASE UNCHANGED vars BY <1>1, <1>2 DEF vars, docs, args
<1>3. ASSUME Next, ~UNCHANGED vars PROVE ActiveInv'
  <2>1. NotRevived BY <1>3
  <2>2. ASSUME NEW p \in Procs, Step(p) \/ WriteFails(p) PROVE ActiveInv'
    BY <2>1, <2>2, StepActive
  <2>3. ASSUME NEW h \in Handlers, NEW o \in Orders, Handle(h, o) PROVE ActiveInv'
    BY <2>3, BeginActive DEF Handle, machineUpdateOrder, completeOrder, failOrder, refundOrder
  <2>4. ASSUME NEW c \in Crons, NEW o \in Orders, cancelTimedOutOrders(c, o) PROVE ActiveInv'
    BY <2>4, BeginActive DEF cancelTimedOutOrders
  <2>5. ASSUME NEW o \in Orders, MachineTakes(o) \/ Poll(o) \/ MachineMakes(o) PROVE ActiveInv'
    BY <1>1, <2>5 DEF MachineTakes, Poll, getActiveOrderForMachine, MachineMakes, docs, args
  <2>6. CASE Crash
    <3>1. UNCHANGED <<status, op, ord>> /\ \A q \in Procs : pc'[q] = pc[q] \/ pc'[q] \in {"idle", "dead"}
      BY <2>6 DEF Crash, docs, args
    <3>2. \A q \in Procs : StoredOK(q)' BY <3>1 DEF ActiveInv, StoredOK, Legacy, Steps
    <3>3. \A q \in Orders : Chosen(q)' => Chosen(q) BY <3>1 DEF Chosen, Legacy, Procs
    <3> QED BY <3>1, <3>2, <3>3 DEF ActiveInv, ActiveOn, OneActive
  <2> QED BY <1>3, <2>2, <2>3, <2>4, <2>5, <2>6 DEF Next
<1> QED BY <1>2, <1>3

LEMMA InitActive == Init => ActiveInv
BY OrdersAssumption DEF OrdersAssumption, Init, Procs, ActiveInv, StoredOK, Chosen, OneActive,
   Active, Steps

(* "Check active orders - authoritative source for machine busy state"     *)
(* (orders.service.ts:223): two orders of a machine are active together    *)
(* only if two requests overlap between this check and the insertion, or   *)
(* somebody shows an order as active that had a final status.              *)
THEOREM OrdersOneActive == Spec /\ []PlacedApart /\ [][NotRevived]_vars => []OneActive
<1>1. ActiveInv => OneActive BY DEF ActiveInv
<1> QED BY <1>1, InitActive, NextActive, AlwaysIInv, PTL DEF Spec
=============================================================================
