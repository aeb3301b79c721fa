---------------------------- MODULE Organizations ----------------------------
(***************************************************************************)
(* Which machine belongs to which organization: OrganizationsService, the  *)
(* operations of MachinesService that create, change and remove machines,  *)
(* and the seeding that runs before every start of the server.             *)
(*                                                                         *)
(* An assignment is kept twice: an organization lists its machines, and a  *)
(* machine names its organization and its client.  No transaction joins    *)
(* the two writes, and administrators may change the machine directly.     *)
(* The number of a new organization is counted one call before it is       *)
(* stored; two unique indexes have the last word.                          *)
(*                                                                         *)
(* Names, addresses, contracts and the agents of an organization, which    *)
(* nothing reads, are left out.  Refused requests are not steps.           *)
(***************************************************************************)
EXTENDS Naturals, FiniteSets

CONSTANTS
    Orgs,           \* documents, never removed
    Machines,       \* machineIds
    Clients,
    Seeded,         \* the machines of the seed data
    SeedClient,     \* its client
    Requests,       \* requests under way at the same time
    MaxRequests,    \* bound of the requests ever started
    null

ASSUME OrganizationsAssumption ==
    /\ Seeded \subseteq Machines
    /\ SeedClient \in Clients
    /\ MaxRequests \in Nat
    /\ null \notin Orgs \cup Machines \cup Clients

VARIABLES
    number, clientUserId, machineIds, isActive,     \* the organizations
    exists, orgId, clientId,                        \* the machines
    server, seeding,        \* it is up, machines still to be seeded
    pc, org, machine, client, count, alone,         \* the requests
    loose,                  \* machines whose documents may disagree
    started

organizations == <<number, clientUserId, machineIds, isActive>>
machines == <<exists, orgId, clientId>>
requests == <<pc, org, machine, client, count, alone>>
vars == <<organizations, machines, server, seeding, requests, loose, started>>

Documents == {o \in Orgs : number[o] # 0}

TypeOK ==
    /\ number \in [Orgs -> Nat]
    /\ clientUserId \in [Orgs -> Clients \cup {null}]
    /\ machineIds \in [Orgs -> SUBSET Machines]
    /\ isActive \in [Orgs -> BOOLEAN]
    /\ exists \subseteq Machines
    /\ orgId \in [Machines -> Orgs \cup {null}] /\ clientId \in [Machines -> Clients \cup {null}]
    /\ \A m \in Machines \ exists : orgId[m] = null /\ clientId[m] = null
    /\ server \in {"down", "up"} /\ seeding \subseteq Seeded
    /\ pc \in [Requests -> {"idle", "count", "save", "assign", "remove"}]
    /\ org \in [Requests -> Orgs \cup {null}] /\ machine \in [Requests -> Machines \cup {null}]
    /\ client \in [Requests -> Clients \cup {null}]
    /\ count \in [Requests -> Nat] /\ alone \in [Requests -> BOOLEAN]
    /\ loose \subseteq Machines
    /\ started \in 0 .. MaxRequests

Init ==
    /\ number = [o \in Orgs |-> 0] /\ clientUserId = [o \in Orgs |-> null]
    /\ machineIds = [o \in Orgs |-> {}] /\ isActive = [o \in Orgs |-> FALSE]
    /\ exists = {}
    /\ orgId = [m \in Machines |-> null] /\ clientId = [m \in Machines |-> null]
    /\ server = "down" /\ seeding = Seeded
    /\ pc = [p \in Requests |-> "idle"]
    /\ org = [p \in Requests |-> null] /\ machine = [p \in Requests |-> null]
    /\ client = [p \in Requests |-> null] /\ count = [p \in Requests |-> 0]
    /\ alone = [p \in Requests |-> TRUE]
    /\ loose = {}
    /\ started = 0

-----------------------------------------------------------------------------
Started == server = "up" /\ started < MaxRequests /\ started' = started + 1

Goto(p, next) == pc' = [pc EXCEPT ![p] = next]

(* Requests that a request about to begin gets in the way of, and is       *)
(* hindered by.                                                            *)
Begin(p, next, rivals) ==
    /\ pc[p] = "idle"
    /\ Started
    /\ Goto(p, next)
    /\ alone' = [q \in Requests |-> IF q = p THEN rivals = {} ELSE alone[q] /\ q \notin rivals]

Ended(p) ==
    /\ Goto(p, "idle")
    /\ org' = [org EXCEPT ![p] = null] /\ machine' = [machine EXCEPT ![p] = null]
    /\ client' = [client EXCEPT ![p] = null] /\ count' = [count EXCEPT ![p] = 0]
    /\ alone' = [alone EXCEPT ![p] = TRUE]

-----------------------------------------------------------------------------
(* Creation of an organization for a client that has none.                 *)
create(p, c) ==
    /\ \A o \in Documents : clientUserId[o] # c
    /\ Begin(p, "count", {q \in Requests : pc[q] \in {"count", "save"}})
    /\ client' = [client EXCEPT ![p] = c]
    /\ UNCHANGED <<organizations, machines, server, seeding, org, machine, count, loose>>

generateOrgId_Active(p) ==
    /\ pc[p] = "count"
    /\ count' = [count EXCEPT ![p] = Cardinality({o \in Documents : isActive[o]}) + 1]
    /\ Goto(p, "save")
    /\ UNCHANGED <<organizations, machines, server, seeding, org, machine, client, alone, loose,
                   started>>

generateOrgId(p) ==
    /\ pc[p] = "count"
    /\ count' = [count EXCEPT ![p] = Cardinality(Documents) + 1]
    /\ Goto(p, "save")
    /\ UNCHANGED <<organizations, machines, server, seeding, org, machine, client, alone, loose,
                   started>>

(* The unique indexes.                                                     *)
Free(n, c) == \A o \in Documents : number[o] # n /\ clientUserId[o] # c

Insert(n, c, listed) ==
    \E o \in Orgs \ Documents :
        /\ number' = [number EXCEPT ![o] = n]
        /\ clientUserId' = [clientUserId EXCEPT ![o] = c]
        /\ machineIds' = [machineIds EXCEPT ![o] = listed]
        /\ isActive' = [isActive EXCEPT ![o] = TRUE]

saveOrganization(p) ==
    /\ pc[p] = "save"
    /\ Free(count[p], client[p])
    /\ Insert(count[p], client[p], {})
    /\ Ended(p)
    /\ UNCHANGED <<machines, server, seeding, loose, started>>

(* Its machines still name it.                                             *)
softDelete(o) ==
    /\ o \in Documents
    /\ Started
    /\ isActive' = [isActive EXCEPT ![o] = FALSE]
    /\ UNCHANGED <<number, clientUserId, machineIds, machines, server, seeding, requests, loose>>

-----------------------------------------------------------------------------
(* Assignments: first the list of the organization, then the machine.      *)

(* Requests for the same assignment that undo each other.                  *)
Rivals(o, m, kind) == {q \in Requests : pc[q] = kind /\ org[q] = o /\ machine[q] = m}

assignMachine(p, o, m) ==
    /\ o \in Documents
    /\ Begin(p, "assign", Rivals(o, m, "remove"))
    /\ machineIds' = [machineIds EXCEPT ![o] = @ \cup {m}]
    /\ org' = [org EXCEPT ![p] = o] /\ machine' = [machine EXCEPT ![p] = m]
    /\ loose' = IF Rivals(o, m, "remove") = {} THEN loose ELSE loose \cup {m}
    /\ UNCHANGED <<number, clientUserId, isActive, machines, server, seeding, client, count>>

removeMachine(p, o, m) ==
    /\ o \in Documents
    /\ Begin(p, "remove", Rivals(o, m, "assign"))
    /\ machineIds' = [machineIds EXCEPT ![o] = @ \ {m}]
    /\ org' = [org EXCEPT ![p] = o] /\ machine' = [machine EXCEPT ![p] = m]
    /\ loose' = IF Rivals(o, m, "assign") = {} THEN loose ELSE loose \cup {m}
    /\ UNCHANGED <<number, clientUserId, isActive, machines, server, seeding, client, count>>

(* What a request about machine m that nothing disturbed leaves behind.    *)
Settled(p) ==
    loose' = IF alone[p] /\ \A q \in Requests \ {p} : machine[q] # machine[p]
             THEN loose \ {machine[p]} ELSE loose

setAssignment(p) ==
    /\ pc[p] = "assign"
    /\ LET m == machine[p] IN
         IF m \in exists
         THEN /\ orgId' = [orgId EXCEPT ![m] = org[p]]
              /\ clientId' = [clientId EXCEPT ![m] = clientUserId[org[p]]]
         ELSE UNCHANGED <<orgId, clientId>>
    /\ Settled(p)
    /\ Ended(p)
    /\ UNCHANGED <<organizations, exists, server, seeding, started>>

clearAssignment_Skipped(p) ==
    /\ pc[p] = "remove"
    /\ Settled(p)
    /\ Ended(p)
    /\ UNCHANGED <<organizations, machines, server, seeding, started>>

(* Also if another organization has it by now.                             *)
clearAssignment(p) ==
    /\ pc[p] = "remove"
    /\ orgId' = [orgId EXCEPT ![machine[p]] = null]
    /\ clientId' = [clientId EXCEPT ![machine[p]] = null]
    /\ Settled(p)
    /\ Ended(p)
    /\ UNCHANGED <<organizations, exists, server, seeding, started>>

-----------------------------------------------------------------------------
(* Machines, which administrators may give any organization and client.    *)
Given(m, o, c) ==
    /\ orgId' = [orgId EXCEPT ![m] = o] /\ clientId' = [clientId EXCEPT ![m] = c]
    /\ loose' = IF o = null THEN loose ELSE loose \cup {m}

createMachine(m, o, c) ==
    /\ m \notin exists
    /\ Started
    /\ exists' = exists \cup {m}
    /\ Given(m, o, c)
    /\ UNCHANGED <<organizations, server, seeding, requests>>

updateMachine(m, o, c) ==
    /\ m \in exists
    /\ Started
    /\ Given(m, o, c)
    /\ UNCHANGED <<organizations, exists, server, seeding, requests>>

(* A new machineId, which the organizations do not hear of.                *)
renameMachine(m, n) ==
    /\ m \in exists /\ n \notin exists
    /\ Started
    /\ exists' = (exists \ {m}) \cup {n}
    /\ orgId' = [orgId EXCEPT ![m] = null, ![n] = orgId[m]]
    /\ clientId' = [clientId EXCEPT ![m] = null, ![n] = clientId[m]]
    /\ loose' = loose \cup {n}
    /\ UNCHANGED <<organizations, server, seeding, requests>>

removeDocument(m) ==
    /\ m \in exists
    /\ Started
    /\ exists' = exists \ {m}
    /\ orgId' = [orgId EXCEPT ![m] = null] /\ clientId' = [clientId EXCEPT ![m] = null]
    /\ UNCHANGED <<organizations, server, seeding, requests, loose>>

-----------------------------------------------------------------------------
(* Every start adds the seed data that is missing, and serves then.        *)
seedMachine(m) ==
    /\ server = "down" /\ m \in seeding
    /\ seeding' = seeding \ {m}
    /\ exists' = exists \cup {m}
    /\ clientId' = IF m \in exists THEN clientId ELSE [clientId EXCEPT ![m] = SeedClient]
    /\ UNCHANGED <<organizations, orgId, server, requests, loose, started>>

seedOrganization ==
    /\ server = "down" /\ seeding = {}
    /\ \/ (\E o \in Documents : number[o] = 1) /\ UNCHANGED organizations
       \/ (\A o \in Documents : number[o] # 1) /\ Free(1, SeedClient)
          /\ Insert(1, SeedClient, Seeded)
    /\ server' = "up"
    /\ UNCHANGED <<machines, seeding, requests, loose, started>>

(* A call rejects or is never answered.                                    *)
Cut(p) == IF pc[p] = "remove" THEN {machine[p]} ELSE {}

fails(p) ==
    /\ pc[p] # "idle"
    /\ loose' = loose \cup Cut(p)
    /\ Ended(p)
    /\ UNCHANGED <<organizations, machines, server, seeding, started>>

Crash ==
    /\ server = "up" /\ started < MaxRequests /\ started' = started + 1
    /\ server' = "down" /\ seeding' = Seeded
    /\ loose' = loose \cup UNION {Cut(p) : p \in Requests}
    /\ pc' = [p \in Requests |-> "idle"]
    /\ org' = [p \in Requests |-> null] /\ machine' = [p \in Requests |-> null]
    /\ client' = [p \in Requests |-> null] /\ count' = [p \in Requests |-> 0]
    /\ alone' = [p \in Requests |-> TRUE]
    /\ UNCHANGED <<organizations, machines>>

Next ==
    \/ \E p \in Requests, c \in Clients : create(p, c)
    \/ \E p \in Requests : generateOrgId(p) \/ saveOrganization(p) \/ fails(p)
    \/ \E o \in Orgs : softDelete(o)
    \/ \E p \in Requests, o \in Orgs, m \in Machines :
          assignMachine(p, o, m) \/ removeMachine(p, o, m)
    \/ \E p \in Requests : setAssignment(p) \/ clearAssignment(p)
    \/ \E m \in Machines, o \in Documents \cup {null}, c \in Clients \cup {null} :
          createMachine(m, o, c) \/ updateMachine(m, o, c)
    \/ \E m, n \in Machines : renameMachine(m, n)
    \/ \E m \in Machines : removeDocument(m) \/ seedMachine(m)
    \/ seedOrganization
    \/ Crash

Spec == Init /\ [][Next]_vars

-----------------------------------------------------------------------------
(* A machine names an organization only if that organization lists it, and *)
(* then it names its client: assignments, removals, other organizations,   *)
(* restarts with their seeding and rejected calls keep the two documents   *)
(* together.  Excepted are machines that an administrator assigned or      *)
(* renamed directly, that a removal is under way for or was cut short for, *)
(* and those whose assignment to one organization overlapped its removal.  *)
AssignmentsAgree ==
    \A m \in exists \ loose :
        \/ orgId[m] = null
        \/ m \in machineIds[orgId[m]] /\ clientId[m] = clientUserId[orgId[m]]
        \/ \E p \in Requests : pc[p] = "remove" /\ machine[p] = m

(* Organizations are numbered without gaps or repetition, and a creation   *)
(* that no other one overlaps is not refused: neither deactivations nor    *)
(* failed creations, restarts and seeding spoil the count that             *)
(* generateOrgId takes (organizations.service.ts:31).                      *)
NumbersInOrder ==
    /\ {number[o] : o \in Documents} = 1 .. Cardinality(Documents)
    /\ \A p \in Requests : pc[p] = "save" /\ alone[p] => Free(count[p], client[p])
=============================================================================
