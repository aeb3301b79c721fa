------------------------- MODULE MachineStatusProofs -------------------------
(***************************************************************************)
(* Proofs about MachineStatus for any number of overlapping status         *)
(* callbacks and requests, with every restart and lost connection.         *)
(***************************************************************************)
EXTENDS MachineStatus, TLAPS

IInv == TypeOK /\ FlushHasOwner

(* A step that keeps the flush and its owners.                             *)
Owners == {r \in Requests : timer[r] \/ step[r] \in {"flush", "unmark"}}

LEMMA OwnersKept ==
    ASSUME FlushHasOwner, flushMode' = flushMode, up' = up, unreset => unreset',
           Owners \subseteq Owners'
    PROVE  FlushHasOwner'
  BY DEF FlushHasOwner, Owners

LEMMA SameRequests ==
    ASSUME FlushHasOwner, UNCHANGED <<flushMode, requests, up, unreset>>
    PROVE  FlushHasOwner'
<1>1. UNCHANGED <<step, timer>>
  BY DEF requests
<1>2. Owners' = Owners
  BY <1>1 DEF Owners
<1> QED BY <1>2, OwnersKept

LEMMA InitIInv == Init => IInv
<1> SUFFICES ASSUME Init PROVE IInv
  OBVIOUS
<1>1. faults \in 0 .. MaxFaults
  BY StatusAssumption DEF Init, StatusAssumption
<1>2. /\ pc \in [Callbacks -> {"idle", "transition", "clear", "update"}]
      /\ message \in [Callbacks -> Messages]
      /\ step \in [Requests -> Told \cup {"idle", "mark", "flush", "unmark"}]
      /\ timer \in [Requests -> BOOLEAN]
  BY DEF Init, Messages
<1>3. TypeOK
  BY <1>1, <1>2 DEF Init, TypeOK, Seen
<1> QED BY <1>3 DEF Init, IInv, FlushHasOwner

LEMMA FaultType ==
    ASSUME TypeOK, Fault
    PROVE  faults' \in 0 .. MaxFaults
  BY StatusAssumption DEF TypeOK, Fault, StatusAssumption

-----------------------------------------------------------------------------
(* The process and the machine.                                            *)
LEMMA ExitInv ==
    ASSUME IInv, Exit
    PROVE  IInv'
<1> USE DEF IInv, Exit
<1>1. TypeOK'
  <2>1. faults' \in 0 .. MaxFaults
    BY FaultType
  <2>2. /\ pc' \in [Callbacks -> {"idle", "transition", "clear", "update"}]
        /\ message' \in [Callbacks -> Messages]
        /\ step' \in [Requests -> Told \cup {"idle", "mark", "flush", "unmark"}]
        /\ timer' \in [Requests -> BOOLEAN]
    BY DEF Messages
  <2>3. {isOnline, sleepMode, flushMode, up, connected, unreset}' \subseteq BOOLEAN
    BY DEF TypeOK, document
  <2> HIDE DEF Exit
  <2>4. UNCHANGED <<device, retained, lastSeen>>
    BY DEF Exit, external, document
  <2> QED BY <2>1, <2>2, <2>3, <2>4 DEF TypeOK
<1>2. FlushHasOwner'
  BY DEF FlushHasOwner
<1> QED BY <1>1, <1>2

LEMMA ProcessInv ==
    ASSUME IInv, onModuleInit \/ Connect \/ Disconnect \/ Age
    PROVE  IInv'
<1> USE DEF IInv, onModuleInit, Connect, Disconnect, Age
<1>1. TypeOK'
  <2>1. faults' \in 0 .. MaxFaults
    BY FaultType DEF TypeOK
  <2>2. {isOnline, sleepMode, flushMode, up, connected, unreset}' \subseteq BOOLEAN
    BY DEF TypeOK, document
  <2>3. UNCHANGED <<pc, message, step, timer, device, retained>> /\ lastSeen' \in Seen
    BY DEF callbacks, requests, external, document, TypeOK, Seen
  <2> HIDE DEF onModuleInit, Connect, Disconnect, Age
  <2> QED BY <2>1, <2>2, <2>3 DEF TypeOK
<1>2. FlushHasOwner'
  <2>1. CASE onModuleInit
    BY <2>1 DEF FlushHasOwner
  <2>2. CASE Connect \/ Disconnect \/ Age
    BY <2>2, SameRequests DEF document
  <2> QED BY <2>1, <2>2
<1> QED BY <1>1, <1>2

LEMMA MachineInv ==
    ASSUME IInv, Machine
    PROVE  IInv'
<1> USE DEF IInv, Machine, powerOff, reconnect
<1>1. TypeOK'
  BY DEF TypeOK, document, callbacks, requests
<1>2. FlushHasOwner'
  BY SameRequests DEF document
<1> QED BY <1>1, <1>2

-----------------------------------------------------------------------------
(* Status messages, the cron, setOnlineStatus.                             *)
LEMMA MessageInv ==
    ASSUME IInv, NEW c \in Callbacks, NEW m \in Messages, onMessage(c, m)
    PROVE  IInv'
<1> USE DEF IInv, onMessage, Rest
<1>1. TypeOK'
  BY DEF TypeOK, document, requests, external
<1>2. FlushHasOwner'
  BY SameRequests DEF document
<1> QED BY <1>1, <1>2

LEMMA TransitionInv ==
    ASSUME IInv, NEW c \in Callbacks, transition(c)
    PROVE  IInv'
<1> USE DEF IInv, transition, Rest
<1>1. TypeOK'
  BY DEF TypeOK, document, requests, external
<1>2. FlushHasOwner'
  BY SameRequests DEF document
<1> QED BY <1>1, <1>2

LEMMA ClearInv ==
    ASSUME IInv, NEW c \in Callbacks, clearRetainedWake(c)
    PROVE  IInv'
<1>1. CASE connected
  <2> USE <1>1 DEF IInv, clearRetainedWake
  <2>1. TypeOK'
    BY DEF TypeOK, document, requests, external
  <2>2. FlushHasOwner'
    BY SameRequests DEF document
  <2> QED BY <2>1, <2>2
<1>2. CASE ~connected
  BY <1>2, ExitInv DEF clearRetainedWake
<1> QED BY <1>1, <1>2

LEMMA UpdateInv ==
    ASSUME IInv, NEW c \in Callbacks, update(c)
    PROVE  IInv'
<1> USE DEF IInv, update, Rest
<1>1. TypeOK'
  BY DEF TypeOK, document, requests, external, Ended, Messages, Seen
<1>2. FlushHasOwner'
  BY SameRequests DEF document
<1> QED BY <1>1, <1>2

LEMMA UpdateFailsInv ==
    ASSUME IInv, NEW c \in Callbacks, updateFails(c)
    PROVE  IInv'
<1> USE DEF IInv, updateFails
<1>1. TypeOK'
  BY StatusAssumption
  DEF TypeOK, document, requests, external, Ended, Fault, Messages, StatusAssumption
<1>2. FlushHasOwner'
  BY SameRequests DEF document
<1> QED BY <1>1, <1>2

LEMMA OnlineInv ==
    ASSUME IInv,
           markOfflineSilentMachines \/ \E b \in BOOLEAN : setOnlineStatus(b)
    PROVE  IInv'
<1> USE DEF IInv, markOfflineSilentMachines, setOnlineStatus, Rest
<1>1. TypeOK'
  BY DEF TypeOK, callbacks, requests, external
<1>2. FlushHasOwner'
  BY SameRequests
<1> QED BY <1>1, <1>2

-----------------------------------------------------------------------------
(* Requests.                                                               *)
LEMMA RequestInv ==
    ASSUME IInv, NEW r \in Requests, Request(r)
    PROVE  IInv'
<1> USE DEF IInv, Request, setSleepMode, triggerConfigMode, triggerManualFlush, Starts, Goto
<1>1. TypeOK'
  BY DEF TypeOK, document, callbacks, external, Told
<1>2. FlushHasOwner'
  <2>1. Owners \subseteq Owners'
    BY DEF Owners, TypeOK
  <2> QED BY <2>1, OwnersKept DEF document
<1> QED BY <1>1, <1>2

LEMMA TellInv ==
    ASSUME IInv, NEW r \in Requests, tell(r)
    PROVE  IInv'
<1>1. CASE connected
  <2> USE <1>1 DEF IInv, tell, Goto
  <2>1. TypeOK'
    BY DEF TypeOK, document, callbacks, external, Told
  <2>2. FlushHasOwner'
    <3>1. Owners \subseteq Owners'
      BY DEF Owners, TypeOK, Told
    <3> QED BY <3>1, OwnersKept DEF document
  <2> QED BY <2>1, <2>2
<1>2. CASE ~connected
  BY <1>2, ExitInv DEF tell
<1> QED BY <1>1, <1>2

LEMMA FlushInv ==
    ASSUME IInv, NEW r \in Requests,
           markFlush(r) \/ publishFlush(r) \/ unmarkFlush(r) \/ flushTimer(r)
    PROVE  IInv'
<1> USE DEF IInv, markFlush, publishFlush, unmarkFlush, flushTimer, Goto
<1>1. TypeOK'
  BY DEF TypeOK, document, callbacks, external, Told
<1>2. FlushHasOwner'
  <2>1. CASE markFlush(r)
    BY <2>1 DEF FlushHasOwner, TypeOK
  <2>2. CASE publishFlush(r)
    <3>1. Owners \subseteq Owners'
      BY <2>2 DEF Owners, TypeOK
    <3> QED BY <2>2, <3>1, OwnersKept DEF document
  <2>3. CASE unmarkFlush(r) \/ flushTimer(r)
    BY <2>3 DEF FlushHasOwner
  <2> QED BY <2>1, <2>2, <2>3
<1> QED BY <1>1, <1>2

LEMMA RequestFailsInv ==
    ASSUME IInv, NEW r \in Requests, requestFails(r)
    PROVE  IInv'
<1> USE DEF IInv, requestFails, Goto
<1>1. TypeOK'
  BY StatusAssumption DEF TypeOK, document, callbacks, external, Told, Fault, StatusAssumption
<1>2. FlushHasOwner'
  <2>1. CASE step[r] = "unmark"
    BY <2>1 DEF FlushHasOwner
  <2>2. CASE step[r] = "mark"
    <3>1. Owners \subseteq Owners'
      BY <2>2 DEF Owners, TypeOK
    <3> QED BY <3>1, OwnersKept DEF document
  <2> QED BY <2>1, <2>2
<1> QED BY <1>1, <1>2

-----------------------------------------------------------------------------
LEMMA NextIInv == IInv /\ [Next]_vars => IInv'
<1> SUFFICES ASSUME IInv, [Next]_vars PROVE IInv'
  OBVIOUS
<1>1. CASE Crash \/ scheduledFlush
  BY <1>1, ExitInv DEF Crash, scheduledFlush
<1>2. CASE onModuleInit \/ Connect \/ Disconnect \/ Age
  BY <1>2, ProcessInv
<1>3. CASE Machine
  BY <1>3, MachineInv
<1>4. CASE \E c \in Callbacks, m \in Messages : onMessage(c, m)
  BY <1>4, MessageInv
<1>5. CASE \E c \in Callbacks : Callback(c) \/ updateFails(c)
  BY <1>5, TransitionInv, ClearInv, UpdateInv, UpdateFailsInv DEF Callback
<1>6. CASE markOfflineSilentMachines \/ \E b \in BOOLEAN : setOnlineStatus(b)
  BY <1>6, OnlineInv
<1>7. CASE \E r \in Requests : Request(r) \/ Proceed(r) \/ requestFails(r) \/ flushTimer(r)
  BY <1>7, RequestInv, TellInv, FlushInv, RequestFailsInv DEF Proceed
<1>8. CASE UNCHANGED vars
  <2>1. TypeOK'
    BY <1>8 DEF IInv, TypeOK, vars, document, callbacks, requests, external
  <2>2. FlushHasOwner'
    BY <1>8, SameRequests DEF IInv, vars, document
  <2> QED BY <2>1, <2>2 DEF IInv
<1> QED BY <1>1, <1>2, <1>3, <1>4, <1>5, <1>6, <1>7, <1>8 DEF Next

-----------------------------------------------------------------------------
(* The document, callbacks, requests and history stay within their types,  *)
(* whatever overlaps and fails (machines.service.ts:97).                   *)
THEOREM StatusTypeCorrect == Spec => []TypeOK
<1>1. IInv => TypeOK
  BY DEF IInv
<1> QED BY InitIInv, NextIInv, <1>1, PTL DEF Spec

(* Somebody is always left to end a flush: a request, a timer or the next  *)
(* start; unless the write that ends it was refused                        *)
(* (machines.service.ts:700).                                              *)
THEOREM StatusFlushHasOwner == Spec => []FlushHasOwner
<1>1. IInv => FlushHasOwner
  BY DEF IInv
<1> QED BY InitIInv, NextIInv, <1>1, PTL DEF Spec
=============================================================================
