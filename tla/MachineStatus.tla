---------------------------- MODULE MachineStatus ----------------------------
(***************************************************************************)
(* What MachinesService believes about one vending machine: whether it is  *)
(* online, asleep or flushing, and when it was last heard of.              *)
(*                                                                         *)
(* Heartbeats reach handleMachineStatusUpdate through MqttService, which   *)
(* does not wait for it, so its database calls interleave with those of    *)
(* the next heartbeats (Callbacks), of the administrators' requests        *)
(* (Requests), of the timers that end a flush and of the cron that marks   *)
(* silent machines offline.                                                *)
(*                                                                         *)
(* Commands go to the machine with QoS 0 and may be lost.  Only the wake   *)
(* command is retained by the broker, for a machine that sleeps and is not *)
(* connected.  Publishing while the broker is away rejects; nobody handles *)
(* the rejection of a publish that is not awaited, which ends the process. *)
(*                                                                         *)
(* The machine and the broker are external.  The document of the machine   *)
(* exists throughout.  What is only shown to people (error, sensor, isBusy,*)
(* alerts) is left out: no step depends on it.                             *)
(***************************************************************************)
EXTENDS Naturals

CONSTANTS
    Callbacks,      \* status messages handled at the same time
    Requests,       \* requests of administrators and agents
    MaxFaults       \* bound of restarts, lost connections, rejected writes

ASSUME StatusAssumption == MaxFaults \in Nat

VARIABLES
    isOnline, sleepMode, flushMode,     \* the document
    lastSeen,                           \* when it was last heard of, if ever
    pc, message,                \* the status callbacks
    step,                               \* the requests
    timer,                      \* flushes whose thirty second timer runs
    up, connected,              \* the process, its connection to the broker
    device, retained,           \* the machine and what the broker keeps for it
    unreset,                    \* history: a flag could not be taken back
    faults

document == <<isOnline, sleepMode, flushMode, lastSeen>>
callbacks == <<pc, message>>
requests == <<step, timer>>
external == <<device, retained>>
vars == <<document, callbacks, requests, up, connected, external, unreset, faults>>

(* What a machine reports, and what the broker reports of it.              *)
Messages == {"online", "busy", "offline", "Sleep_Mode_ON"}

(* What a request is about to tell the machine.                            *)
Told == {"sleep", "wake", "config"}

(* Never, within the last thirty seconds, before that.                     *)
Seen == {"null", "recent", "old"}

TypeOK ==
    /\ {isOnline, sleepMode, flushMode, up, connected, unreset} \subseteq BOOLEAN
    /\ lastSeen \in Seen
    /\ pc \in [Callbacks -> {"idle", "transition", "clear", "update"}]
    /\ message \in [Callbacks -> Messages]
    /\ step \in [Requests -> Told \cup {"idle", "mark", "flush", "unmark"}]
    /\ timer \in [Requests -> BOOLEAN]
    /\ device \in {"awake", "asleep", "off"}
    /\ retained \in {"null", "wake"}
    /\ faults \in 0 .. MaxFaults

(* A new machine is offline; one of the seed data is stored as online      *)
(* although nothing was ever heard of it.                                  *)
Init ==
    /\ isOnline \in BOOLEAN /\ sleepMode = FALSE /\ flushMode = FALSE
    /\ lastSeen = "null"
    /\ pc = [c \in Callbacks |-> "idle"]
    /\ message = [c \in Callbacks |-> "online"]
    /\ step = [r \in Requests |-> "idle"]
    /\ timer = [r \in Requests |-> FALSE]
    /\ up = TRUE /\ connected = FALSE
    /\ device = "off" /\ retained = "null"
    /\ unreset = FALSE
    /\ faults = 0

-----------------------------------------------------------------------------
(* The process.                                                            *)
Fault ==
    /\ faults < MaxFaults
    /\ faults' = faults + 1

Exit ==
    /\ Fault
    /\ up' = FALSE /\ connected' = FALSE
    /\ pc' = [c \in Callbacks |-> "idle"]
    /\ message' = [c \in Callbacks |-> "online"]
    /\ step' = [r \in Requests |-> "idle"]
    /\ timer' = [r \in Requests |-> FALSE]
    /\ UNCHANGED <<document, external, unreset>>

Crash == up /\ Exit

(* onModuleInit: a flush whose timer died with the process is over.        *)
onModuleInit_KeepsFlush ==
    /\ ~up
    /\ up' = TRUE
    /\ UNCHANGED <<document, callbacks, requests, connected, external, unreset, faults>>

onModuleInit ==
    /\ ~up
    /\ up' = TRUE
    /\ flushMode' = FALSE
    /\ unreset' = FALSE
    /\ UNCHANGED <<isOnline, sleepMode, lastSeen, callbacks, requests, connected,
                   external, faults>>

Connect ==
    /\ up /\ ~connected
    /\ connected' = TRUE
    /\ UNCHANGED <<document, callbacks, requests, up, external, unreset, faults>>

Disconnect ==
    /\ up /\ connected /\ Fault
    /\ connected' = FALSE
    /\ UNCHANGED <<document, callbacks, requests, up, external, unreset>>

(* Thirty seconds pass.                                                    *)
Age ==
    /\ lastSeen = "recent"
    /\ lastSeen' = "old"
    /\ UNCHANGED <<isOnline, sleepMode, flushMode, callbacks, requests, up, connected,
                   external, unreset, faults>>

-----------------------------------------------------------------------------
(* The machine, external.                                                  *)
Sends ==
    CASE device = "awake"  -> {"online", "busy"}
      [] device = "asleep" -> {"Sleep_Mode_ON"}
      [] device = "off"    -> {"offline"}     \* sent by the broker

powerOff ==
    /\ device # "off"
    /\ device' = "off"
    /\ UNCHANGED <<document, callbacks, requests, up, connected, retained, unreset, faults>>

(* It starts, or a sleeping machine looks for the retained message.        *)
reconnect ==
    /\ \/ device = "off"
       \/ device = "asleep" /\ retained = "wake"
    /\ device' = "awake"
    /\ UNCHANGED <<document, callbacks, requests, up, connected, retained, unreset, faults>>

-----------------------------------------------------------------------------
(* handleMachineStatusUpdate.                                              *)
Rest == <<requests, up, connected, external, unreset, faults>>

onMessage(c, m) ==
    /\ up /\ connected /\ pc[c] = "idle" /\ m \in Sends
    /\ pc' = [pc EXCEPT ![c] = IF m = "online" THEN "transition" ELSE "update"]
    /\ message' = [message EXCEPT ![c] = m]
    /\ UNCHANGED <<document, Rest>>

(* One conditional update: the callback that finds the machine not online  *)
(* goes on to clear the retained command.                                  *)
transition(c) ==
    /\ pc[c] = "transition"
    /\ \/ /\ isOnline
          /\ pc' = [pc EXCEPT ![c] = "update"]
          /\ UNCHANGED <<isOnline, sleepMode>>
       \/ /\ ~isOnline
          /\ pc' = [pc EXCEPT ![c] = "clear"]
          /\ isOnline' = TRUE /\ sleepMode' = FALSE
    /\ UNCHANGED <<flushMode, lastSeen, message, Rest>>

clearRetainedWake(c) ==
    /\ pc[c] = "clear"
    /\ \/ ~connected /\ Exit
       \/ /\ connected
          /\ retained' = "null"
          /\ pc' = [pc EXCEPT ![c] = "update"]
          /\ UNCHANGED <<document, message, requests, up, connected, device,
                         unreset, faults>>

Ended(c) ==
    /\ pc' = [pc EXCEPT ![c] = "idle"]
    /\ message' = [message EXCEPT ![c] = "online"]

(* The rest of the message, whatever has been stored in the meantime.  The *)
(* time stored is that of the start of the handler, which may be long ago. *)
update_KeepsSleepMode(c) ==
    /\ pc[c] = "update"
    /\ isOnline' = (message[c] \notin {"offline", "Sleep_Mode_ON"})
    /\ sleepMode' = (sleepMode \/ message[c] = "Sleep_Mode_ON")
    /\ lastSeen' \in {"recent", "old"}
    /\ Ended(c)
    /\ UNCHANGED <<flushMode, Rest>>

update(c) ==
    LET m == message[c] IN
    /\ pc[c] = "update"
    /\ isOnline' = (m \notin {"offline", "Sleep_Mode_ON"})
    /\ sleepMode' = IF m = "Sleep_Mode_ON" THEN TRUE ELSE IF m = "online" THEN FALSE ELSE sleepMode
    /\ lastSeen' \in {"recent", "old"}
    /\ Ended(c)
    /\ UNCHANGED <<flushMode, Rest>>

(* A rejected write ends the handler, in its catch block.                  *)
updateFails(c) ==
    /\ pc[c] \in {"transition", "update"} /\ Fault
    /\ Ended(c)
    /\ UNCHANGED <<document, requests, up, connected, external, unreset>>

(* markOfflineSilentMachines, every thirty seconds, one conditional update.*)
markOfflineSilentMachines ==
    /\ up /\ isOnline /\ ~sleepMode /\ ~flushMode
    /\ lastSeen = "old"
    /\ isOnline' = FALSE
    /\ UNCHANGED <<sleepMode, flushMode, lastSeen, callbacks, Rest>>

-----------------------------------------------------------------------------
(* Requests.  setOnlineStatus and PATCH isOnline are one write.            *)
setOnlineStatus(b) ==
    /\ up
    /\ isOnline' = b
    /\ UNCHANGED <<sleepMode, flushMode, lastSeen, callbacks, Rest>>

Goto(r, next) == step' = [step EXCEPT ![r] = next]

Starts(r, next) ==
    /\ up /\ step[r] = "idle" /\ ~timer[r]
    /\ Goto(r, next)

setSleepMode(r, sleep) ==
    /\ Starts(r, IF sleep THEN "sleep" ELSE "wake")
    /\ sleepMode' = sleep
    /\ UNCHANGED <<isOnline, flushMode, lastSeen, callbacks, timer, up, connected,
                   external, unreset, faults>>

(* It resets a flag that the document does not have.                       *)
triggerConfigMode(r) ==
    /\ Starts(r, "config")
    /\ UNCHANGED <<document, callbacks, timer, up, connected, external, unreset, faults>>

(* The command is published and not awaited.  A machine that is awake may  *)
(* obey it; one that sleeps finds the wake command when it reconnects.     *)
tell(r) ==
    /\ step[r] \in Told
    /\ \/ ~connected /\ Exit
       \/ /\ connected
          /\ Goto(r, "idle")
          /\ retained' = IF step[r] = "wake" THEN "wake" ELSE retained
          /\ \/ UNCHANGED device
             \/ device = "awake" /\ step[r] = "sleep" /\ device' = "asleep"
          /\ UNCHANGED <<document, callbacks, timer, up, connected, unreset, faults>>

(* triggerManualFlush: refused by a machine that sleeps or is offline.     *)
triggerManualFlush(r) ==
    /\ Starts(r, "mark")
    /\ ~sleepMode /\ isOnline
    /\ UNCHANGED <<document, callbacks, timer, up, connected, external, unreset, faults>>

markFlush(r) ==
    /\ step[r] = "mark"
    /\ flushMode' = TRUE
    /\ Goto(r, "flush")
    /\ UNCHANGED <<isOnline, sleepMode, lastSeen, callbacks, timer, up, connected,
                   external, unreset, faults>>

(* The publish is acknowledged, or rejected or not answered in time.       *)
publishFlush_NoCatch(r) ==
    /\ step[r] = "flush"
    /\ Goto(r, "idle")
    /\ \/ ~connected /\ UNCHANGED timer
       \/ connected /\ timer' = [timer EXCEPT ![r] = TRUE]
    /\ UNCHANGED <<document, callbacks, up, connected, external, unreset, faults>>

publishFlush_Retries(r) ==
    /\ step[r] = "flush"
    /\ Goto(r, IF connected THEN "idle" ELSE "retry")
    /\ timer' = [timer EXCEPT ![r] = connected]
    /\ UNCHANGED <<document, callbacks, up, connected, external, unreset, faults>>

publishFlush(r) ==
    /\ step[r] = "flush"
    /\ \/ /\ connected
          /\ Goto(r, "idle")
          /\ timer' = [timer EXCEPT ![r] = TRUE]
       \/ /\ Goto(r, "unmark")
          /\ UNCHANGED timer
    /\ UNCHANGED <<document, callbacks, up, connected, external, unreset, faults>>

unmarkFlush(r) ==
    /\ step[r] = "unmark"
    /\ flushMode' = FALSE /\ unreset' = FALSE
    /\ Goto(r, "idle")
    /\ UNCHANGED <<isOnline, sleepMode, lastSeen, callbacks, timer, up, connected,
                   external, faults>>

(* A write of a request is rejected: the request is answered with an error.*)
requestFails(r) ==
    /\ step[r] \in {"mark", "unmark"} /\ Fault
    /\ Goto(r, "idle")
    /\ unreset' = (unreset \/ step[r] = "unmark")
    /\ UNCHANGED <<document, callbacks, timer, up, connected, external>>

flushTimer_OnlineOnly(r) ==
    /\ timer[r]
    /\ timer' = [timer EXCEPT ![r] = FALSE]
    /\ flushMode' = (flushMode /\ ~isOnline)
    /\ UNCHANGED <<isOnline, sleepMode, lastSeen, callbacks, step, up, connected,
                   external, unreset, faults>>

flushTimer(r) ==
    /\ timer[r]
    /\ timer' = [timer EXCEPT ![r] = FALSE]
    /\ flushMode' = FALSE /\ unreset' = FALSE
    /\ UNCHANGED <<isOnline, sleepMode, lastSeen, callbacks, step, up, connected,
                   external, faults>>

(* dailyFlush and weeklyFlush do not wait for their publishes either.      *)
scheduledFlush == up /\ isOnline /\ ~connected /\ Exit

-----------------------------------------------------------------------------
Callback(c) ==
    \/ transition(c)
    \/ clearRetainedWake(c)
    \/ update(c)

Request(r) ==
    \/ \E sleep \in BOOLEAN : setSleepMode(r, sleep)
    \/ triggerConfigMode(r)
    \/ triggerManualFlush(r)

Proceed(r) ==
    \/ tell(r)
    \/ markFlush(r)
    \/ publishFlush(r)
    \/ unmarkFlush(r)

Machine ==
    \/ powerOff
    \/ reconnect

Next ==
    \/ Crash
    \/ onModuleInit
    \/ Connect
    \/ Disconnect
    \/ Age
    \/ Machine
    \/ \E c \in Callbacks, m \in Messages : onMessage(c, m)
    \/ \E c \in Callbacks : Callback(c) \/ updateFails(c)
    \/ markOfflineSilentMachines
    \/ \E b \in BOOLEAN : setOnlineStatus(b)
    \/ \E r \in Requests : Request(r) \/ Proceed(r) \/ requestFails(r) \/ flushTimer(r)
    \/ scheduledFlush

Spec == Init /\ [][Next]_vars

(* The process is restarted and reconnects, time passes, the cron runs,    *)
(* handlers and timers proceed; a machine that is awake keeps reporting.   *)
Heartbeat(c) == onMessage(c, "online")

Fairness ==
    /\ WF_vars(onModuleInit) /\ WF_vars(Connect) /\ WF_vars(Age)
    /\ WF_vars(markOfflineSilentMachines)
    /\ \A c \in Callbacks : WF_vars(Callback(c))
    /\ SF_vars(\E c \in Callbacks : Heartbeat(c))
    /\ \A r \in Requests : WF_vars(Proceed(r)) /\ WF_vars(flushTimer(r))

FairSpec == Spec /\ Fairness

-----------------------------------------------------------------------------
(* A machine is in flush mode only while somebody is left to end it: a     *)
(* request under way, its timer, or the next start of the server; unless   *)
(* the database refused to take the flag back.                             *)
FlushHasOwner ==
    flushMode =>
        \/ ~up \/ unreset
        \/ \E r \in Requests : timer[r] \/ step[r] \in {"flush", "unmark"}

(* Every flush ends, although its timer may die with the process; until    *)
(* then the machine is exempt from the offline check.                      *)
FlushEnds == flushMode ~> (~flushMode \/ unreset)

(* A machine that stays silent, or asleep, is not shown as awake and online*)
(* for ever, whatever late or overlapping callbacks write; provided nobody *)
(* keeps flushing it, and it was heard of before: the offline check does   *)
(* not match a lastSeen that is null.                                      *)
SilenceNoticed ==
    <>[](device # "awake" /\ \A r \in Requests : step[r] # "mark")
    => []<>(~isOnline \/ sleepMode \/ unreset \/ lastSeen = "null")

(* A machine that stays awake is shown online again and again, whatever    *)
(* cron, administrators and late callbacks write.                          *)
AwakeShown == <>[](device = "awake") => []<>(isOnline /\ ~sleepMode)
=============================================================================
