------------------------- MODULE OrganizationsProofs -------------------------
(* Theorems about Organizations.                                           *)
EXTENDS Organizations, FiniteSetTheorems, TLAPS

-----------------------------------------------------------------------------
(* What the proof needs of the types; the numbers play no part.            *)
Types ==
    /\ machineIds \in [Orgs -> SUBSET Machines]
    /\ clientUserId \in [Orgs -> Clients \cup {null}]
    /\ DOMAIN number = Orgs
    /\ exists \subseteq Machines
    /\ orgId \in [Machines -> Documents \cup {null}]
    /\ clientId \in [Machines -> Clients \cup {null}]
    /\ pc \in [Requests -> {"idle", "count", "save", "assign", "remove"}]
    /\ org \in [Requests -> Documents \cup {null}]
    /\ machine \in [Requests -> Machines \cup {null}]
    /\ client \in [Requests -> Clients \cup {null}]
    /\ loose \subseteq Machines
    /\ seeding \subseteq Seeded
    /\ \A p \in Requests : pc[p] \in {"count", "save"} => client[p] \in Clients
    /\ alone \in [Requests -> BOOLEAN]

(* A machine that does not exist names no organization; a request that     *)
(* assigns or removes knows of what.                                       *)
ShapeOK ==
    /\ \A m \in Machines \ exists : orgId[m] = null
    /\ \A p \in Requests : pc[p] \in {"assign", "remove"} =>
           machine[p] \in Machines /\ org[p] \in Documents

(* A machine about to be assigned is listed, unless its removal from the   *)
(* same organization began since, which makes it loose for as long as the  *)
(* assignment is under way.                                                *)
AssignOK ==
    \A p \in Requests : pc[p] = "assign" =>
        machine[p] \in machineIds[org[p]] \/ (~alone[p] /\ machine[p] \in loose)

IInv == Types /\ ShapeOK /\ AssignOK /\ AssignmentsAgree

-----------------------------------------------------------------------------
(* Starting and ending a request.                                          *)
Untouched(q) ==
    /\ pc'[q] = pc[q] /\ org'[q] = org[q] /\ machine'[q] = machine[q]
    /\ client'[q] = client[q]

RequestTypes ==
    /\ pc \in [Requests -> {"idle", "count", "save", "assign", "remove"}]
    /\ org \in [Requests -> Documents \cup {null}]
    /\ machine \in [Requests -> Machines \cup {null}]
    /\ client \in [Requests -> Clients \cup {null}]

LEMMA BeginShape ==
    ASSUME Types, NEW p \in Requests, NEW next \in {"count", "assign", "remove"},
           NEW rivals, Begin(p, next, rivals)
    PROVE  /\ pc' \in [Requests -> {"idle", "count", "save", "assign", "remove"}]
           /\ pc[p] = "idle" /\ pc'[p] = next
           /\ \A q \in Requests \ {p} : pc'[q] = pc[q]
           /\ alone' \in [Requests -> BOOLEAN]
           /\ alone'[p] <=> rivals = {}
           /\ \A q \in Requests \ {p} : alone'[q] <=> alone[q] /\ q \notin rivals
<1>1. alone' = [q \in Requests |->
                  IF q = p THEN rivals = {} ELSE alone[q] /\ q \notin rivals]
  BY Zenon DEF Begin
<1>2. \A q \in Requests :
         (IF q = p THEN rivals = {} ELSE alone[q] /\ q \notin rivals) \in BOOLEAN
  <2> SUFFICES ASSUME NEW q \in Requests
               PROVE  (IF q = p THEN rivals = {} ELSE alone[q] /\ q \notin rivals) \in BOOLEAN
    OBVIOUS
  <2>1. (rivals = {}) \in BOOLEAN /\ (alone[q] /\ q \notin rivals) \in BOOLEAN
    OBVIOUS
  <2> QED BY <2>1, Zenon
<1>3. alone' \in [Requests -> BOOLEAN]
  BY <1>1, <1>2, Zenon
<1>4. \A q \in Requests :
         alone'[q] = IF q = p THEN rivals = {} ELSE alone[q] /\ q \notin rivals
  BY <1>1, Zenon
<1>5. alone'[p] <=> rivals = {}
  BY <1>4, Zenon
<1>6. \A q \in Requests \ {p} : alone'[q] <=> alone[q] /\ q \notin rivals
  BY <1>4, Zenon
<1>7. /\ pc' \in [Requests -> {"idle", "count", "save", "assign", "remove"}]
      /\ pc[p] = "idle" /\ pc'[p] = next /\ \A q \in Requests \ {p} : pc'[q] = pc[q]
  BY DEF Types, Begin, Goto
<1> QED BY <1>3, <1>5, <1>6, <1>7, Zenon

LEMMA EndedShape ==
    ASSUME Types, NEW p \in Requests, Ended(p), Documents \subseteq Documents'
    PROVE  /\ RequestTypes'
           /\ alone' \in [Requests -> BOOLEAN]
           /\ pc'[p] = "idle"
           /\ \A q \in Requests \ {p} : Untouched(q) /\ (alone'[q] <=> alone[q])
<1>1. RequestTypes' /\ pc'[p] = "idle" /\ \A q \in Requests \ {p} : Untouched(q)
  BY DEF Types, RequestTypes, Ended, Goto, Untouched
<1>2. alone' \in [Requests -> BOOLEAN] /\ \A q \in Requests \ {p} : alone'[q] = alone[q]
  BY DEF Types, Ended
<1> QED BY <1>1, <1>2

(* A new organization lists its machines; the others stay what they are.   *)
LEMMA InsertShape ==
    ASSUME Types, NEW n, NEW c \in Clients, NEW listed \in SUBSET Machines,
           Insert(n, c, listed)
    PROVE  /\ Documents \subseteq Documents'
           /\ DOMAIN number' = Orgs
           /\ machineIds' \in [Orgs -> SUBSET Machines]
           /\ clientUserId' \in [Orgs -> Clients \cup {null}]
           /\ \A o \in Documents :
                 machineIds'[o] = machineIds[o] /\ clientUserId'[o] = clientUserId[o]
  BY DEF Types, Insert, Documents

-----------------------------------------------------------------------------
LEMMA InitIInv == ASSUME Init PROVE IInv
  BY OrganizationsAssumption DEF Init, IInv, Types, ShapeOK, AssignOK, AssignmentsAgree, Documents

(* Steps that change only requests which neither assign nor remove.        *)
LEMMA CreateStep ==
    ASSUME IInv, NEW p \in Requests, NEW c \in Clients,
           create(p, c) \/ generateOrgId(p)
    PROVE  IInv'
<1>1. UNCHANGED <<organizations, machines, seeding, org, machine, loose>>
  BY DEF create, generateOrgId
<1>2. CASE create(p, c)
  <2> DEFINE R == {q \in Requests : pc[q] \in {"count", "save"}}
  <2>1. Begin(p, "count", R)
    BY <1>2 DEF create
  <2> HIDE DEF R
  <2>2. /\ pc' \in [Requests -> {"idle", "count", "save", "assign", "remove"}]
        /\ pc[p] = "idle" /\ pc'[p] = "count"
        /\ \A q \in Requests \ {p} : pc'[q] = pc[q]
        /\ alone' \in [Requests -> BOOLEAN]
        /\ \A q \in Requests \ {p} : alone'[q] => alone[q]
    BY <2>1, BeginShape DEF IInv
  <2>3. client' \in [Requests -> Clients \cup {null}] /\ client'[p] = c
        /\ \A q \in Requests \ {p} : client'[q] = client[q]
    BY <1>2 DEF create, IInv, Types
  <2>4. Types' /\ ShapeOK'
    BY <1>1, <2>2, <2>3 DEF IInv, Types, ShapeOK, Documents, organizations, machines
  <2>5. AssignOK' /\ AssignmentsAgree'
    BY <1>1, <1>2, <2>2 DEF IInv, AssignOK, AssignmentsAgree, organizations, machines
  <2> QED BY <2>4, <2>5 DEF IInv
<1>3. CASE generateOrgId(p)
  <2>1. /\ pc' \in [Requests -> {"idle", "count", "save", "assign", "remove"}]
        /\ pc[p] = "count" /\ pc'[p] = "save" /\ \A q \in Requests \ {p} : pc'[q] = pc[q]
        /\ UNCHANGED <<client, alone>>
    BY <1>3 DEF IInv, Types, generateOrgId, Goto
  <2>2. Types' /\ ShapeOK'
    <3>1. \A q \in Requests : pc'[q] \in {"count", "save"} => client'[q] \in Clients
      BY <2>1 DEF IInv, Types
    <3>2. alone' \in [Requests -> BOOLEAN]
      BY <2>1 DEF IInv, Types
    <3>3. Types'
      BY <1>1, <2>1, <3>1, <3>2 DEF IInv, Types, Documents, organizations, machines
    <3>4. ShapeOK'
      BY <1>1, <2>1 DEF IInv, ShapeOK, Documents, organizations, machines
    <3> QED BY <3>3, <3>4
  <2>3. AssignOK'
    <3> SUFFICES ASSUME NEW q \in Requests, pc'[q] = "assign"
                 PROVE  machine'[q] \in machineIds'[org'[q]] \/ (~alone'[q] /\ machine'[q] \in loose')
      BY DEF AssignOK
    <3>1. pc[q] = "assign"
      BY <2>1
    <3>2. machine[q] \in machineIds[org[q]] \/ (~alone[q] /\ machine[q] \in loose)
      BY <3>1 DEF IInv, AssignOK
    <3> QED BY <1>1, <2>1, <3>2, Zenon DEF organizations
  <2>4. AssignmentsAgree'
    BY <1>1, <2>1 DEF IInv, AssignmentsAgree, organizations, machines
  <2> QED BY <2>2, <2>3, <2>4 DEF IInv
<1> QED BY <1>2, <1>3

-----------------------------------------------------------------------------
(* Assigning and removing: the organization.                               *)
LEMMA AssignMachineStep ==
    ASSUME IInv, NEW p \in Requests, NEW o \in Orgs, NEW m \in Machines, assignMachine(p, o, m)
    PROVE  IInv'
<1> DEFINE R == Rivals(o, m, "remove")
<1>1. o \in Documents /\ Begin(p, "assign", R)
  BY DEF assignMachine
<1> HIDE DEF R
<1>2. /\ pc' \in [Requests -> {"idle", "count", "save", "assign", "remove"}]
      /\ pc[p] = "idle" /\ pc'[p] = "assign"
      /\ \A q \in Requests \ {p} : pc'[q] = pc[q]
      /\ alone' \in [Requests -> BOOLEAN]
      /\ \A q \in Requests \ {p} : alone'[q] => alone[q]
  BY <1>1, BeginShape DEF IInv
<1>3. /\ machineIds' \in [Orgs -> SUBSET Machines] /\ m \in machineIds'[o]
      /\ \A d \in Orgs : machineIds[d] \subseteq machineIds'[d]
  BY DEF assignMachine, IInv, Types
<1>4. /\ org' \in [Requests -> Documents \cup {null}] /\ org'[p] = o
      /\ machine' \in [Requests -> Machines \cup {null}] /\ machine'[p] = m
      /\ \A q \in Requests \ {p} : org'[q] = org[q] /\ machine'[q] = machine[q]
  BY <1>1 DEF assignMachine, IInv, Types
<1>5. loose \subseteq loose' /\ loose' \subseteq Machines
  BY DEF assignMachine, IInv, Types
<1>6. UNCHANGED <<number, clientUserId, machines, seeding, client>>
  BY DEF assignMachine
<1>7. Types'
  BY <1>2, <1>3, <1>4, <1>5, <1>6 DEF IInv, Types, Documents, machines
<1>8. ShapeOK'
  BY <1>1, <1>2, <1>4, <1>6 DEF IInv, ShapeOK, Documents, machines
<1>9. AssignOK'
  <2> SUFFICES ASSUME NEW q \in Requests \ {p}, pc'[q] = "assign"
               PROVE  machine'[q] \in machineIds'[org'[q]] \/ (~alone'[q] /\ machine'[q] \in loose')
    BY <1>3, <1>4 DEF AssignOK
  <2>1. pc[q] = "assign" /\ org[q] \in Orgs
    BY <1>2 DEF IInv, ShapeOK, Documents
  <2> QED BY <1>2, <1>3, <1>4, <1>5, <2>1 DEF IInv, AssignOK
<1>10. AssignmentsAgree'
  <2> SUFFICES ASSUME NEW n \in exists \ loose, orgId[n] # null
               PROVE  \/ n \in machineIds'[orgId[n]] /\ clientId[n] = clientUserId[orgId[n]]
                      \/ \E q \in Requests : pc'[q] = "remove" /\ machine'[q] = n
    BY <1>5, <1>6 DEF AssignmentsAgree, machines
  <2>1. orgId[n] \in Orgs
    BY DEF IInv, Types, Documents
  <2>2. CASE n \in machineIds[orgId[n]] /\ clientId[n] = clientUserId[orgId[n]]
    BY <1>3, <2>1, <2>2
  <2>3. CASE \E q \in Requests : pc[q] = "remove" /\ machine[q] = n
    BY <1>2, <1>4, <2>3
  <2> QED BY <2>2, <2>3 DEF IInv, AssignmentsAgree
<1> QED BY <1>7, <1>8, <1>9, <1>10 DEF IInv

LEMMA RemoveMachineStep ==
    ASSUME IInv, NEW p \in Requests, NEW o \in Orgs, NEW m \in Machines, removeMachine(p, o, m)
    PROVE  IInv'
<1> DEFINE R == Rivals(o, m, "assign")
<1>1. o \in Documents /\ Begin(p, "remove", R)
  BY DEF removeMachine
<1>r. /\ R # {} => m \in loose'
      /\ \A q \in Requests : pc[q] = "assign" /\ org[q] = o /\ machine[q] = m => q \in R
  BY DEF removeMachine, Rivals
<1> HIDE DEF R
<1>2. /\ pc' \in [Requests -> {"idle", "count", "save", "assign", "remove"}]
      /\ pc[p] = "idle" /\ pc'[p] = "remove"
      /\ \A q \in Requests \ {p} : pc'[q] = pc[q]
      /\ alone' \in [Requests -> BOOLEAN]
      /\ \A q \in Requests \ {p} : alone'[q] => alone[q] /\ q \notin R
  BY <1>1, BeginShape DEF IInv
<1>3. /\ machineIds' \in [Orgs -> SUBSET Machines]
      /\ \A d \in Orgs : \A n \in machineIds[d] : n \in machineIds'[d] \/ (d = o /\ n = m)
  BY DEF removeMachine, IInv, Types
<1>4. /\ org' \in [Requests -> Documents \cup {null}] /\ org'[p] = o
      /\ machine' \in [Requests -> Machines \cup {null}] /\ machine'[p] = m
      /\ \A q \in Requests \ {p} : org'[q] = org[q] /\ machine'[q] = machine[q]
  BY <1>1 DEF removeMachine, IInv, Types
<1>5. loose \subseteq loose' /\ loose' \subseteq Machines
  BY DEF removeMachine, IInv, Types
<1>6. UNCHANGED <<number, clientUserId, machines, seeding, client>>
  BY DEF removeMachine
<1>7. Types'
  BY <1>2, <1>3, <1>4, <1>5, <1>6 DEF IInv, Types, Documents, machines
<1>8. ShapeOK'
  BY <1>1, <1>2, <1>4, <1>6 DEF IInv, ShapeOK, Documents, machines
<1>9. AssignOK'
  <2> SUFFICES ASSUME NEW q \in Requests \ {p}, pc'[q] = "assign"
               PROVE  machine'[q] \in machineIds'[org'[q]] \/ (~alone'[q] /\ machine'[q] \in loose')
    BY <1>2 DEF AssignOK
  <2>1. pc[q] = "assign" /\ org[q] \in Orgs
    BY <1>2 DEF IInv, ShapeOK, Documents
  <2>2. CASE org[q] = o /\ machine[q] = m
    BY <1>r, <1>2, <1>4, <2>1, <2>2
  <2>3. CASE ~(org[q] = o /\ machine[q] = m)
    BY <1>2, <1>3, <1>4, <1>5, <2>1, <2>3 DEF IInv, AssignOK
  <2> QED BY <2>2, <2>3
<1>10. AssignmentsAgree'
  <2> SUFFICES ASSUME NEW n \in exists \ loose, orgId[n] # null, n # m
               PROVE  \/ n \in machineIds'[orgId[n]] /\ clientId[n] = clientUserId[orgId[n]]
                      \/ \E q \in Requests : pc'[q] = "remove" /\ machine'[q] = n
    BY <1>2, <1>4, <1>5, <1>6 DEF AssignmentsAgree, machines
  <2>1. orgId[n] \in Orgs
    BY DEF IInv, Types, Documents
  <2>2. CASE n \in machineIds[orgId[n]] /\ clientId[n] = clientUserId[orgId[n]]
    BY <1>3, <2>1, <2>2
  <2>3. CASE \E q \in Requests : pc[q] = "remove" /\ machine[q] = n
    BY <1>2, <1>4, <2>3
  <2> QED BY <2>2, <2>3 DEF IInv, AssignmentsAgree
<1> QED BY <1>7, <1>8, <1>9, <1>10 DEF IInv

-----------------------------------------------------------------------------
(* The end of a request.  What it takes out of loose is no other's.        *)
LEMMA SettledShape ==
    ASSUME IInv, NEW p \in Requests, Settled(p)
    PROVE  /\ loose \ {machine[p]} \subseteq loose' /\ loose' \subseteq loose
           /\ \A q \in Requests \ {p} : machine[q] \in loose => machine[q] \in loose'
           /\ machine[p] \in loose => machine[p] \in loose' \/ alone[p]
  BY DEF Settled

LEMMA EndKeepsAssign ==
    ASSUME IInv, NEW p \in Requests, Ended(p), Documents \subseteq Documents',
           \A d \in Documents : machineIds'[d] = machineIds[d],
           \A q \in Requests \ {p} : machine[q] \in loose => machine[q] \in loose'
    PROVE  AssignOK'
<1>1. pc'[p] = "idle" /\ \A q \in Requests \ {p} : Untouched(q) /\ (alone'[q] <=> alone[q])
  BY EndedShape DEF IInv
<1> SUFFICES ASSUME NEW q \in Requests \ {p}, pc'[q] = "assign"
             PROVE  machine'[q] \in machineIds'[org'[q]] \/ (~alone'[q] /\ machine'[q] \in loose')
  BY <1>1 DEF AssignOK
<1>2. /\ pc[q] = "assign" /\ org'[q] = org[q] /\ machine'[q] = machine[q]
      /\ org[q] \in Documents
  BY <1>1 DEF Untouched, IInv, ShapeOK
<1> QED BY <1>1, <1>2 DEF IInv, AssignOK

LEMMA SetAssignmentStep ==
    ASSUME IInv, NEW p \in Requests, setAssignment(p)
    PROVE  IInv'
<1>1. /\ pc[p] = "assign" /\ machine[p] \in Machines /\ org[p] \in Documents
      /\ UNCHANGED <<organizations, exists, seeding>> /\ Ended(p) /\ Settled(p)
  BY DEF setAssignment, IInv, ShapeOK
<1>2. Documents' = Documents
  BY <1>1 DEF Documents, organizations
<1>3. /\ RequestTypes' /\ alone' \in [Requests -> BOOLEAN] /\ pc'[p] = "idle"
      /\ \A q \in Requests \ {p} : Untouched(q)
  BY <1>1, <1>2, EndedShape DEF IInv
<1>4. /\ orgId' \in [Machines -> Documents \cup {null}]
      /\ clientId' \in [Machines -> Clients \cup {null}]
      /\ \A n \in Machines \ {machine[p]} : orgId'[n] = orgId[n] /\ clientId'[n] = clientId[n]
      /\ machine[p] \notin exists => orgId'[machine[p]] = orgId[machine[p]]
      /\ machine[p] \in exists =>
            orgId'[machine[p]] = org[p] /\ clientId'[machine[p]] = clientUserId[org[p]]
  BY <1>1 DEF setAssignment, IInv, Types, Documents
<1>5. /\ loose \ {machine[p]} \subseteq loose' /\ loose' \subseteq Machines
      /\ \A q \in Requests \ {p} : machine[q] \in loose => machine[q] \in loose'
      /\ machine[p] \in loose => machine[p] \in loose' \/ alone[p]
  BY <1>1, SettledShape DEF IInv, Types
<1>6. Types'
  <2>1. \A q \in Requests : pc'[q] \in {"count", "save"} => client'[q] \in Clients
    BY <1>3 DEF Untouched, IInv, Types
  <2> QED BY <1>1, <1>2, <1>3, <1>4, <1>5, <2>1 DEF IInv, Types, RequestTypes, organizations
<1>7. ShapeOK'
  BY <1>1, <1>2, <1>3, <1>4 DEF IInv, ShapeOK, Untouched
<1>8. AssignOK'
  BY <1>1, <1>2, <1>5, EndKeepsAssign DEF organizations
<1>9. AssignmentsAgree'
  <2> SUFFICES ASSUME NEW n \in exists \ loose', orgId'[n] # null
               PROVE  \/ n \in machineIds[orgId'[n]] /\ clientId'[n] = clientUserId[orgId'[n]]
                      \/ \E q \in Requests : pc'[q] = "remove" /\ machine'[q] = n
    BY <1>1 DEF AssignmentsAgree, organizations
  <2>1. n \in Machines
    BY DEF IInv, Types
  <2>2. CASE n = machine[p]
    BY <1>1, <1>4, <1>5, <2>2 DEF IInv, AssignOK
  <2>3. CASE n # machine[p]
    <3>1. n \notin loose /\ orgId'[n] = orgId[n] /\ clientId'[n] = clientId[n]
      BY <1>4, <1>5, <2>1, <2>3
    <3>2. (\E q \in Requests : pc[q] = "remove" /\ machine[q] = n)
          => \E q \in Requests : pc'[q] = "remove" /\ machine'[q] = n
      BY <1>1, <1>3 DEF Untouched
    <3> QED BY <3>1, <3>2 DEF IInv, AssignmentsAgree
  <2> QED BY <2>2, <2>3
<1> QED BY <1>6, <1>7, <1>8, <1>9 DEF IInv

LEMMA ClearAssignmentStep ==
    ASSUME IInv, NEW p \in Requests, clearAssignment(p)
    PROVE  IInv'
<1>1. /\ pc[p] = "remove" /\ machine[p] \in Machines
      /\ UNCHANGED <<organizations, exists, seeding>> /\ Ended(p) /\ Settled(p)
  BY DEF clearAssignment, IInv, ShapeOK
<1>2. Documents' = Documents
  BY <1>1 DEF Documents, organizations
<1>3. /\ RequestTypes' /\ alone' \in [Requests -> BOOLEAN] /\ pc'[p] = "idle"
      /\ \A q \in Requests \ {p} : Untouched(q)
  BY <1>1, <1>2, EndedShape DEF IInv
<1>4. /\ orgId' \in [Machines -> Documents \cup {null}]
      /\ clientId' \in [Machines -> Clients \cup {null}]
      /\ \A n \in Machines \ {machine[p]} : orgId'[n] = orgId[n] /\ clientId'[n] = clientId[n]
      /\ orgId'[machine[p]] = null
  BY <1>1 DEF clearAssignment, IInv, Types
<1>5. /\ loose \ {machine[p]} \subseteq loose' /\ loose' \subseteq Machines
      /\ \A q \in Requests \ {p} : machine[q] \in loose => machine[q] \in loose'
  BY <1>1, SettledShape DEF IInv, Types
<1>6. Types'
  <2>1. \A q \in Requests : pc'[q] \in {"count", "save"} => client'[q] \in Clients
    BY <1>3 DEF Untouched, IInv, Types
  <2> QED BY <1>1, <1>2, <1>3, <1>4, <1>5, <2>1 DEF IInv, Types, RequestTypes, organizations
<1>7. ShapeOK'
  BY <1>1, <1>2, <1>3, <1>4 DEF IInv, ShapeOK, Untouched
<1>8. AssignOK'
  BY <1>1, <1>2, <1>5, EndKeepsAssign DEF organizations
<1>9. AssignmentsAgree'
  <2> SUFFICES ASSUME NEW n \in exists \ loose', orgId'[n] # null
               PROVE  \/ n \in machineIds[orgId'[n]] /\ clientId'[n] = clientUserId[orgId'[n]]
                      \/ \E q \in Requests : pc'[q] = "remove" /\ machine'[q] = n
    BY <1>1 DEF AssignmentsAgree, organizations
  <2>1. n \in Machines /\ n # machine[p]
    BY <1>4 DEF IInv, Types
  <2>2. n \notin loose /\ orgId'[n] = orgId[n] /\ clientId'[n] = clientId[n]
    BY <1>4, <1>5, <2>1
  <2>3. (\E q \in Requests : pc[q] = "remove" /\ machine[q] = n)
        => \E q \in Requests : pc'[q] = "remove" /\ machine'[q] = n
    BY <1>3, <2>1 DEF Untouched
  <2> QED BY <2>2, <2>3 DEF IInv, AssignmentsAgree
<1> QED BY <1>6, <1>7, <1>8, <1>9 DEF IInv

LEMMA FailsStep ==
    ASSUME IInv, NEW p \in Requests, fails(p)
    PROVE  IInv'
<1>1. /\ UNCHANGED <<organizations, machines, seeding>> /\ Ended(p)
      /\ loose' = loose \cup Cut(p)
      /\ pc[p] = "remove" => machine[p] \in loose' /\ machine[p] \in Machines
      /\ pc[p] # "remove" => loose' = loose
  BY DEF fails, Cut, IInv, ShapeOK
<1>2. Documents' = Documents
  BY <1>1 DEF Documents, organizations
<1>3. /\ RequestTypes' /\ alone' \in [Requests -> BOOLEAN] /\ pc'[p] = "idle"
      /\ \A q \in Requests \ {p} : Untouched(q)
  BY <1>1, <1>2, EndedShape DEF IInv
<1>4. loose \subseteq loose' /\ loose' \subseteq Machines
  BY <1>1 DEF Cut, IInv, Types
<1>5. Types'
  <2>1. \A q \in Requests : pc'[q] \in {"count", "save"} => client'[q] \in Clients
    BY <1>3 DEF Untouched, IInv, Types
  <2> QED BY <1>1, <1>2, <1>3, <1>4, <2>1 DEF IInv, Types, RequestTypes, organizations, machines
<1>6. ShapeOK'
  BY <1>1, <1>2, <1>3 DEF IInv, ShapeOK, Untouched, machines
<1>7. AssignOK'
  BY <1>1, <1>2, <1>4, EndKeepsAssign DEF organizations
<1>8. AssignmentsAgree'
  <2> SUFFICES ASSUME NEW n \in exists \ loose', orgId[n] # null
               PROVE  \/ n \in machineIds[orgId[n]] /\ clientId[n] = clientUserId[orgId[n]]
                      \/ \E q \in Requests : pc'[q] = "remove" /\ machine'[q] = n
    BY <1>1 DEF AssignmentsAgree, organizations, machines
  <2>1. (\E q \in Requests : pc[q] = "remove" /\ machine[q] = n)
        => \E q \in Requests : pc'[q] = "remove" /\ machine'[q] = n
    BY <1>1, <1>3 DEF Untouched
  <2> QED BY <1>4, <2>1 DEF IInv, AssignmentsAgree
<1> QED BY <1>5, <1>6, <1>7, <1>8 DEF IInv

-----------------------------------------------------------------------------
(* Steps that add organizations: nothing names them yet.                   *)
LEMMA SaveOrganizationStep ==
    ASSUME IInv, NEW p \in Requests, saveOrganization(p)
    PROVE  IInv'
<1>1. /\ pc[p] = "save" /\ Ended(p) /\ UNCHANGED <<machines, seeding, loose>>
      /\ client[p] \in Clients /\ Insert(count[p], client[p], {})
  BY DEF saveOrganization, IInv, Types
<1>2. /\ Documents \subseteq Documents' /\ DOMAIN number' = Orgs
      /\ machineIds' \in [Orgs -> SUBSET Machines]
      /\ clientUserId' \in [Orgs -> Clients \cup {null}]
      /\ \A o \in Documents : machineIds'[o] = machineIds[o] /\ clientUserId'[o] = clientUserId[o]
  <2>1. {} \in SUBSET Machines /\ Types
    BY DEF IInv
  <2> QED BY <1>1, <2>1, InsertShape
<1>3. /\ RequestTypes' /\ alone' \in [Requests -> BOOLEAN] /\ pc'[p] = "idle"
      /\ \A q \in Requests \ {p} : Untouched(q)
  BY <1>1, <1>2, EndedShape DEF IInv
<1>4. Types'
  <2>1. \A q \in Requests : pc'[q] \in {"count", "save"} => client'[q] \in Clients
    BY <1>3 DEF Untouched, IInv, Types
  <2> QED BY <1>1, <1>2, <1>3, <2>1 DEF IInv, Types, RequestTypes, machines
<1>5. ShapeOK'
  BY <1>1, <1>2, <1>3 DEF IInv, ShapeOK, Untouched, machines
<1>6. AssignOK'
  BY <1>1, <1>2, EndKeepsAssign
<1>7. AssignmentsAgree'
  <2>1. \A n \in exists : (\E q \in Requests : pc[q] = "remove" /\ machine[q] = n)
            => \E q \in Requests : pc'[q] = "remove" /\ machine'[q] = n
    BY <1>1, <1>3 DEF Untouched
  <2> QED BY <1>1, <1>2, <2>1 DEF IInv, Types, AssignmentsAgree, machines
<1> QED BY <1>4, <1>5, <1>6, <1>7 DEF IInv

LEMMA SeedOrganizationStep ==
    ASSUME IInv, seedOrganization
    PROVE  IInv'
<1>1. UNCHANGED <<machines, seeding, requests, loose>>
  BY DEF seedOrganization
<1>2. /\ Documents \subseteq Documents' /\ DOMAIN number' = Orgs
      /\ machineIds' \in [Orgs -> SUBSET Machines]
      /\ clientUserId' \in [Orgs -> Clients \cup {null}]
      /\ \A o \in Documents : machineIds'[o] = machineIds[o] /\ clientUserId'[o] = clientUserId[o]
  <2>1. CASE UNCHANGED organizations
    BY <2>1 DEF organizations, Documents, IInv, Types
  <2>2. CASE Insert(1, SeedClient, Seeded)
    <3>1. SeedClient \in Clients /\ Seeded \in SUBSET Machines
      BY OrganizationsAssumption
    <3> QED BY <2>2, <3>1, InsertShape DEF IInv
  <2> QED BY <2>1, <2>2 DEF seedOrganization
<1>3. Types'
  BY <1>1, <1>2 DEF IInv, Types, machines, requests
<1>4. ShapeOK'
  BY <1>1, <1>2 DEF IInv, ShapeOK, machines, requests
<1>5. AssignOK'
  <2> SUFFICES ASSUME NEW q \in Requests, pc[q] = "assign"
               PROVE  machine[q] \in machineIds'[org[q]] \/ (~alone[q] /\ machine[q] \in loose)
    BY <1>1, Zenon DEF AssignOK, requests
  <2>1. org[q] \in Documents
    BY DEF IInv, ShapeOK
  <2> QED BY <1>2, <2>1 DEF IInv, AssignOK
<1>6. AssignmentsAgree'
  BY <1>1, <1>2 DEF IInv, Types, AssignmentsAgree, machines, requests
<1> QED BY <1>3, <1>4, <1>5, <1>6 DEF IInv

(* Steps on machines and seeding.  Whoever gives a machine an organization *)
(* makes it loose.                                                         *)
LEMMA MachinesStep ==
    ASSUME IInv, UNCHANGED <<number, clientUserId, machineIds, requests>>,
           exists' \subseteq Machines, seeding' \subseteq Seeded,
           loose \subseteq loose', loose' \subseteq Machines,
           orgId' \in [Machines -> Documents \cup {null}],
           clientId' \in [Machines -> Clients \cup {null}],
           \A n \in Machines \ exists' : orgId'[n] = null,
           \A n \in exists' \ loose' :
               \/ orgId'[n] = null
               \/ n \in exists /\ orgId'[n] = orgId[n] /\ clientId'[n] = clientId[n]
    PROVE  IInv'
<1>1. Types'
  BY DEF IInv, Types, Documents, requests
<1>2. ShapeOK'
  BY DEF IInv, ShapeOK, Documents, requests
<1>3. AssignOK'
  <2> SUFFICES ASSUME NEW q \in Requests, pc[q] = "assign"
               PROVE  machine[q] \in machineIds[org[q]] \/ (~alone[q] /\ machine[q] \in loose')
    BY Zenon DEF AssignOK, requests
  <2> QED BY DEF IInv, AssignOK
<1>4. AssignmentsAgree'
  BY DEF IInv, Types, AssignmentsAgree, requests
<1> QED BY <1>1, <1>2, <1>3, <1>4 DEF IInv

LEMMA AdministratorStep ==
    ASSUME IInv, NEW m \in Machines, NEW n \in Machines, NEW o \in Documents \cup {null},
           NEW c \in Clients \cup {null},
           \/ createMachine(m, o, c) \/ updateMachine(m, o, c)
           \/ renameMachine(m, n) \/ removeDocument(m) \/ seedMachine(m)
    PROVE  IInv'
<1>1. CASE createMachine(m, o, c) \/ updateMachine(m, o, c)
  <2>1. /\ UNCHANGED <<number, clientUserId, machineIds, requests, seeding>>
        /\ exists \subseteq exists' /\ exists' \subseteq exists \cup {m}
        /\ m \in exists' /\ Given(m, o, c)
    BY <1>1 DEF createMachine, updateMachine, organizations
  <2>2. /\ orgId' \in [Machines -> Documents \cup {null}]
        /\ clientId' \in [Machines -> Clients \cup {null}]
        /\ orgId'[m] = o
        /\ \A x \in Machines \ {m} : orgId'[x] = orgId[x] /\ clientId'[x] = clientId[x]
        /\ loose \subseteq loose' /\ loose' \subseteq Machines
        /\ o = null \/ m \in loose'
    BY <2>1 DEF Given, IInv, Types
  <2>3. \A x \in Machines \ exists' : orgId'[x] = null
    BY <2>1, <2>2 DEF IInv, ShapeOK
  <2>4. exists' \subseteq Machines /\ seeding' \subseteq Seeded
    BY <2>1 DEF IInv, Types
  <2>5. \A x \in exists' \ loose' :
            \/ orgId'[x] = null
            \/ x \in exists /\ orgId'[x] = orgId[x] /\ clientId'[x] = clientId[x]
    BY <2>1, <2>2, <2>4
  <2> QED BY <2>1, <2>2, <2>3, <2>4, <2>5, MachinesStep
<1>2. CASE renameMachine(m, n)
  <2>1. /\ UNCHANGED <<number, clientUserId, machineIds, requests, seeding>>
        /\ m \in exists /\ n \notin exists /\ exists' = (exists \ {m}) \cup {n}
        /\ loose' = loose \cup {n}
    BY <1>2 DEF renameMachine, organizations
  <2>2. /\ orgId' \in [Machines -> Documents \cup {null}]
        /\ clientId' \in [Machines -> Clients \cup {null}]
        /\ orgId'[m] = null
        /\ \A x \in Machines \ {m, n} : orgId'[x] = orgId[x] /\ clientId'[x] = clientId[x]
    BY <1>2, <2>1 DEF renameMachine, IInv, Types
  <2>3. exists' \subseteq Machines /\ loose' \subseteq Machines /\ seeding' \subseteq Seeded
    BY <2>1 DEF IInv, Types
  <2>4. \A x \in Machines \ exists' : orgId'[x] = null
    BY <2>1, <2>2 DEF IInv, ShapeOK
  <2>5. \A x \in exists' \ loose' :
            x \in exists /\ orgId'[x] = orgId[x] /\ clientId'[x] = clientId[x]
    BY <2>1, <2>2, <2>3
  <2> QED BY <2>1, <2>2, <2>3, <2>4, <2>5, MachinesStep
<1>3. CASE removeDocument(m)
  <2>1. /\ UNCHANGED <<number, clientUserId, machineIds, requests, seeding, loose>>
        /\ exists' = exists \ {m}
    BY <1>3 DEF removeDocument, organizations
  <2>2. /\ orgId' \in [Machines -> Documents \cup {null}]
        /\ clientId' \in [Machines -> Clients \cup {null}]
        /\ orgId'[m] = null
        /\ \A x \in Machines \ {m} : orgId'[x] = orgId[x] /\ clientId'[x] = clientId[x]
    BY <1>3 DEF removeDocument, IInv, Types
  <2>3. exists' \subseteq Machines /\ loose' \subseteq Machines /\ seeding' \subseteq Seeded
    BY <2>1 DEF IInv, Types
  <2>4. \A x \in Machines \ exists' : orgId'[x] = null
    BY <2>1, <2>2 DEF IInv, ShapeOK
  <2>5. \A x \in exists' \ loose' :
            x \in exists /\ orgId'[x] = orgId[x] /\ clientId'[x] = clientId[x]
    BY <2>1, <2>2, <2>3
  <2> QED BY <2>1, <2>2, <2>3, <2>4, <2>5, MachinesStep
<1>4. CASE seedMachine(m)
  <2>1. /\ UNCHANGED <<number, clientUserId, machineIds, requests, orgId, loose>>
        /\ exists' = exists \cup {m} /\ seeding' \subseteq Seeded
    BY <1>4 DEF seedMachine, organizations, IInv, Types
  <2>2. /\ clientId' \in [Machines -> Clients \cup {null}]
        /\ \A x \in exists : clientId'[x] = clientId[x]
    BY <1>4, OrganizationsAssumption DEF seedMachine, IInv, Types
  <2>3. /\ exists' \subseteq Machines /\ loose' \subseteq Machines
        /\ orgId' \in [Machines -> Documents \cup {null}]
        /\ \A x \in Machines \ exists : orgId'[x] = null
    BY <2>1 DEF IInv, Types, ShapeOK
  <2> QED BY <2>1, <2>2, <2>3, MachinesStep
<1> QED BY <1>1, <1>2, <1>3, <1>4

LEMMA CrashStep ==
    ASSUME IInv, Crash
    PROVE  IInv'
<1>1. /\ UNCHANGED <<organizations, machines>> /\ seeding' = Seeded
      /\ pc' = [p \in Requests |-> "idle"] /\ org' = [p \in Requests |-> null]
      /\ machine' = [p \in Requests |-> null] /\ client' = [p \in Requests |-> null]
      /\ alone' \in [Requests -> BOOLEAN]
  BY DEF Crash
<1>2. /\ loose \subseteq loose' /\ loose' \subseteq Machines
      /\ \A p \in Requests : pc[p] = "remove" => machine[p] \in loose'
  BY DEF Crash, Cut, IInv, Types, ShapeOK
<1>3. Types'
  BY <1>1, <1>2 DEF IInv, Types, Documents, organizations, machines
<1>4. ShapeOK' /\ AssignOK'
  BY <1>1 DEF IInv, ShapeOK, AssignOK, machines
<1>5. AssignmentsAgree'
  BY <1>1, <1>2 DEF IInv, AssignmentsAgree, organizations, machines
<1> QED BY <1>3, <1>4, <1>5 DEF IInv

-----------------------------------------------------------------------------
LEMMA NextIInv == ASSUME IInv, [Next]_vars PROVE IInv'
<1>1. ASSUME NEW p \in Requests, NEW c \in Clients, create(p, c) PROVE IInv'
  BY <1>1, CreateStep
<1>2. ASSUME NEW p \in Requests, generateOrgId(p) PROVE IInv'
  <2>1. SeedClient \in Clients
    BY OrganizationsAssumption
  <2> QED BY <1>2, <2>1, CreateStep
<1>3. ASSUME NEW p \in Requests, saveOrganization(p) PROVE IInv'
  BY <1>3, SaveOrganizationStep
<1>4. ASSUME NEW p \in Requests, fails(p) PROVE IInv'
  BY <1>4, FailsStep
<1>5. ASSUME NEW o \in Orgs, softDelete(o) PROVE IInv'
  <2>1. UNCHANGED <<number, clientUserId, machineIds, machines, seeding, requests, loose>>
    BY <1>5 DEF softDelete
  <2> QED BY <2>1, MachinesStep DEF machines, IInv, Types, ShapeOK
<1>6. ASSUME NEW p \in Requests, NEW o \in Orgs, NEW m \in Machines, assignMachine(p, o, m)
      PROVE  IInv'
  BY <1>6, AssignMachineStep
<1>7. ASSUME NEW p \in Requests, NEW o \in Orgs, NEW m \in Machines, removeMachine(p, o, m)
      PROVE  IInv'
  BY <1>7, RemoveMachineStep
<1>8. ASSUME NEW p \in Requests, setAssignment(p) PROVE IInv'
  BY <1>8, SetAssignmentStep
<1>9. ASSUME NEW p \in Requests, clearAssignment(p) PROVE IInv'
  BY <1>9, ClearAssignmentStep
<1>10. ASSUME NEW m \in Machines, NEW o \in Documents \cup {null}, NEW c \in Clients \cup {null},
              createMachine(m, o, c) \/ updateMachine(m, o, c)
       PROVE  IInv'
  BY <1>10, AdministratorStep
<1>11. ASSUME NEW m \in Machines, NEW n \in Machines, renameMachine(m, n) PROVE IInv'
  <2>1. null \in Documents \cup {null} /\ null \in Clients \cup {null}
    OBVIOUS
  <2> QED BY <1>11, <2>1, AdministratorStep
<1>12. ASSUME NEW m \in Machines, removeDocument(m) \/ seedMachine(m) PROVE IInv'
  <2>1. null \in Documents \cup {null} /\ null \in Clients \cup {null}
    OBVIOUS
  <2> QED BY <1>12, <2>1, AdministratorStep
<1>13. CASE seedOrganization
  BY <1>13, SeedOrganizationStep
<1>14. CASE Crash
  BY <1>14, CrashStep
<1>15. CASE UNCHANGED vars
  <2>1. UNCHANGED <<number, clientUserId, machineIds, machines, seeding, requests, loose>>
    BY <1>15 DEF vars, organizations
  <2> QED BY <2>1, MachinesStep DEF machines, IInv, Types, ShapeOK
<1> QED
  BY <1>1, <1>2, <1>3, <1>4, <1>5, <1>6, <1>7, <1>8, <1>9, <1>10, <1>11, <1>12, <1>13, <1>14, <1>15
  DEF Next

(* A machine and the organization it names agree (assignMachine and        *)
(* removeMachine of organizations.service.ts, the seeding, administrators).*)
THEOREM OrganizationsAssignmentsAgree == Spec => []AssignmentsAgree
<1>1. Init => IInv
  BY InitIInv
<1>2. IInv /\ [Next]_vars => IInv'
  BY NextIInv
<1>3. IInv => AssignmentsAgree
  BY DEF IInv
<1> QED BY <1>1, <1>2, <1>3, PTL DEF Spec
-----------------------------------------------------------------------------
(* The numbers.  A creation that has counted holds a number that follows   *)
(* on or is taken, the next one exactly if no other creation overlaps it.  *)
Creating == {p \in Requests : pc[p] \in {"count", "save"}}

CountOK(p) ==
    /\ pc[p] = "save" => count[p] \in 1 .. Cardinality(Documents) + 1
    /\ alone[p] =>
          /\ pc[p] = "save" => count[p] = Cardinality(Documents) + 1
          /\ \A o \in Documents : clientUserId[o] # client[p]

NumbersInv ==
    /\ number \in [Orgs -> Nat] /\ count \in [Requests -> Nat]
    /\ IsFiniteSet(Documents)
    /\ {number[o] : o \in Documents} = 1 .. Cardinality(Documents)
    /\ server = "down" => \A p \in Requests : pc[p] = "idle"
    /\ \A p, q \in Creating : p # q => ~alone[p]
    /\ \A p \in Creating : CountOK(p)

(* A step that stores no organization and only ends creations.             *)
LEMMA NumbersKept ==
    ASSUME NumbersInv, UNCHANGED <<number, clientUserId>>, count' \in [Requests -> Nat],
           server' = "down" => \A p \in Requests : pc'[p] = "idle",
           \A p \in Requests : pc'[p] \in {"count", "save"} =>
               /\ pc'[p] = pc[p] /\ client'[p] = client[p] /\ count'[p] = count[p]
               /\ alone'[p] => alone[p]
    PROVE  NumbersInv'
<1>1. Documents' = Documents /\ Creating' \subseteq Creating
  BY DEF Documents, Creating
<1>2. ASSUME NEW p \in Creating' PROVE CountOK(p)'
  <2>1. CountOK(p)
    BY <1>1, <1>2 DEF NumbersInv
  <2> QED BY <1>1, <1>2, <2>1 DEF CountOK, Creating
<1>3. \A p, q \in Creating' : p # q => ~alone'[p]
  BY <1>1 DEF NumbersInv, Creating
<1> QED BY <1>1, <1>2, <1>3 DEF NumbersInv

LEMMA CreateNumbers ==
    ASSUME IInv, NumbersInv, NEW p \in Requests, NEW c \in Clients, create(p, c)
    PROVE  NumbersInv'
<1>1. /\ UNCHANGED <<number, clientUserId, server, count>> /\ server = "up"
      /\ Begin(p, "count", Creating) /\ client' = [client EXCEPT ![p] = c]
      /\ \A o \in Documents : clientUserId[o] # c
  BY DEF create, organizations, Begin, Started, Creating
<1>2. /\ pc'[p] = "count"
      /\ \A q \in Requests \ {p} : pc'[q] = pc[q] /\ client'[q] = client[q]
      /\ alone'[p] <=> Creating = {}
      /\ \A q \in Requests \ {p} : alone'[q] <=> alone[q] /\ q \notin Creating
      /\ client'[p] = c
  BY <1>1, BeginShape DEF IInv, Types
<1>3. Documents' = Documents /\ Creating' = Creating \cup {p}
  BY <1>1, <1>2 DEF Documents, Creating
<1>4. \A q, r \in Creating' : q # r => ~alone'[q]
  BY <1>2, <1>3 DEF Creating
<1>5. ASSUME NEW q \in Creating' PROVE CountOK(q)'
  <2>1. CASE q = p
    BY <1>1, <1>2, <1>3, <2>1 DEF CountOK
  <2>2. CASE q # p
    <3>1. q \in Creating /\ CountOK(q)
      BY <1>3, <1>5, <2>2 DEF NumbersInv
    <3> QED BY <1>1, <1>2, <1>3, <2>2, <3>1 DEF CountOK, Creating
  <2> QED BY <2>1, <2>2
<1> QED BY <1>1, <1>3, <1>4, <1>5 DEF NumbersInv

LEMMA GenerateNumbers ==
    ASSUME IInv, NumbersInv, NEW p \in Requests, generateOrgId(p)
    PROVE  NumbersInv'
<1>1. /\ UNCHANGED <<number, clientUserId, server, client, alone>> /\ pc[p] = "count"
      /\ count' = [count EXCEPT ![p] = Cardinality(Documents) + 1]
      /\ pc' = [pc EXCEPT ![p] = "save"]
  BY DEF generateOrgId, organizations, Goto
<1>2. Cardinality(Documents) \in Nat
  BY FS_CardinalityType DEF NumbersInv
<1>3. /\ Documents' = Documents /\ Creating' = Creating /\ p \in Creating
      /\ server # "down"
  BY <1>1 DEF Documents, Creating, NumbersInv, IInv, Types
<1>4. /\ count' \in [Requests -> Nat] /\ count'[p] = Cardinality(Documents) + 1
      /\ \A q \in Requests \ {p} : count'[q] = count[q] /\ pc'[q] = pc[q]
  BY <1>1, <1>2 DEF NumbersInv
<1>5. ASSUME NEW q \in Creating' PROVE CountOK(q)'
  <2>1. CountOK(q) /\ q \in Requests
    BY <1>3, <1>5 DEF NumbersInv, Creating
  <2>2. CASE q = p
    BY <1>1, <1>2, <1>3, <1>4, <2>1, <2>2 DEF CountOK
  <2>3. CASE q # p
    BY <1>1, <1>3, <1>4, <2>1, <2>3 DEF CountOK
  <2> QED BY <2>2, <2>3
<1> QED BY <1>1, <1>3, <1>4, <1>5 DEF NumbersInv

(* Another organization, with the next number.                             *)
LEMMA InsertNumbers ==
    ASSUME NumbersInv, NEW n \in Nat, n = Cardinality(Documents) + 1, NEW c, NEW listed,
           Insert(n, c, listed)
    PROVE  /\ number' \in [Orgs -> Nat] /\ IsFiniteSet(Documents')
           /\ Cardinality(Documents') = n
           /\ {number'[o] : o \in Documents'} = 1 .. n
<1>1. PICK o \in Orgs \ Documents : number' = [number EXCEPT ![o] = n]
  BY DEF Insert
<1>2. Cardinality(Documents) \in Nat
  BY FS_CardinalityType DEF NumbersInv
<1>3. number' \in [Orgs -> Nat] /\ number'[o] = n /\ \A x \in Documents : number'[x] = number[x]
  BY <1>1 DEF NumbersInv
<1>4. Documents' = Documents \cup {o}
  BY <1>1, <1>2 DEF NumbersInv, Documents
<1>5. IsFiniteSet(Documents') /\ Cardinality(Documents') = n
  BY <1>1, <1>4, FS_AddElement DEF NumbersInv
<1>6. {number'[x] : x \in Documents'} = {number[x] : x \in Documents} \cup {n}
  BY <1>3, <1>4
<1>7. {number'[x] : x \in Documents'} = (1 .. Cardinality(Documents)) \cup {n}
  BY <1>6 DEF NumbersInv
<1>8. (1 .. Cardinality(Documents)) \cup {n} = 1 .. n
  BY <1>2
<1> QED BY <1>3, <1>5, <1>7, <1>8

(* A number that is free and was counted is the next one.                  *)
LEMMA FreeIsNext ==
    ASSUME NumbersInv, NEW n \in 1 .. Cardinality(Documents) + 1,
           \A o \in Documents : number[o] # n
    PROVE  n = Cardinality(Documents) + 1
<1>1. n \notin 1 .. Cardinality(Documents)
  <2>1. n \notin {number[o] : o \in Documents}
    OBVIOUS
  <2> QED BY <2>1 DEF NumbersInv
<1>2. Cardinality(Documents) \in Nat
  BY FS_CardinalityType DEF NumbersInv
<1> QED BY <1>1, <1>2

LEMMA SaveNumbers ==
    ASSUME IInv, NumbersInv, NEW p \in Requests, saveOrganization(p)
    PROVE  NumbersInv'
<1>1. /\ pc[p] = "save" /\ Free(count[p], client[p]) /\ Insert(count[p], client[p], {})
      /\ Ended(p) /\ server' = server
  BY DEF saveOrganization
<1>2. p \in Creating /\ CountOK(p) /\ client[p] \in Clients
  BY <1>1 DEF NumbersInv, Creating, IInv, Types
<1>3. count[p] \in Nat /\ count[p] = Cardinality(Documents) + 1
  BY <1>1, <1>2, FreeIsNext DEF CountOK, Free, NumbersInv
<1>4. /\ number' \in [Orgs -> Nat] /\ IsFiniteSet(Documents')
      /\ Cardinality(Documents') = count[p]
      /\ {number'[o] : o \in Documents'} = 1 .. count[p]
  BY <1>1, <1>3, InsertNumbers
<1>5. Documents \subseteq Documents'
  BY <1>1, <1>2, InsertShape DEF IInv
<1>6. /\ pc'[p] = "idle"
      /\ \A q \in Requests \ {p} : Untouched(q) /\ (alone'[q] <=> alone[q])
  BY <1>1, <1>5, EndedShape DEF IInv
<1>7. count' \in [Requests -> Nat] /\ \A q \in Requests \ {p} : count'[q] = count[q]
  BY <1>1 DEF Ended, NumbersInv
<1>8. Creating' = Creating \ {p}
  BY <1>6 DEF Creating, Untouched
<1>9. \A q \in Creating' : ~alone'[q]
  BY <1>2, <1>6, <1>8 DEF NumbersInv, Creating
<1>10. ASSUME NEW q \in Creating' PROVE CountOK(q)'
  <2>1. CountOK(q) /\ q \in Requests \ {p}
    BY <1>8, <1>10 DEF NumbersInv, Creating
  <2>2. ~alone'[q]
    BY <1>9, <1>10
  <2>3. pc'[q] = pc[q] /\ count'[q] = count[q]
    BY <1>6, <1>7, <2>1 DEF Untouched
  <2> QED BY <1>3, <1>4, <2>1, <2>2, <2>3 DEF CountOK
<1>11. server # "down"
  BY <1>1 DEF NumbersInv
<1> QED BY <1>1, <1>4, <1>7, <1>9, <1>10, <1>11 DEF NumbersInv

(* The seed has number 1, and is stored only where there is none yet.      *)
LEMMA SeedNumbers ==
    ASSUME IInv, NumbersInv, seedOrganization
    PROVE  NumbersInv'
<1>1. server = "down" /\ server' = "up" /\ UNCHANGED requests
  BY DEF seedOrganization
<1>2. Creating = {} /\ Creating' = {} /\ count' = count
  BY <1>1 DEF Creating, NumbersInv, requests
<1>3. CASE UNCHANGED organizations
  BY <1>1, <1>2, <1>3 DEF NumbersInv, Documents, organizations
<1>4. CASE (\A o \in Documents : number[o] # 1) /\ Insert(1, SeedClient, Seeded)
  <2>1. Cardinality(Documents) \in Nat
    BY FS_CardinalityType DEF NumbersInv
  <2>2. 1 = Cardinality(Documents) + 1
    BY <1>4, <2>1, FreeIsNext
  <2>3. /\ number' \in [Orgs -> Nat] /\ IsFiniteSet(Documents')
        /\ Cardinality(Documents') = 1
        /\ {number'[o] : o \in Documents'} = 1 .. 1
    BY <1>4, <2>2, InsertNumbers
  <2> QED BY <1>1, <1>2, <2>3 DEF NumbersInv
<1> QED BY <1>3, <1>4 DEF seedOrganization

LEMMA InitNumbers == ASSUME Init PROVE NumbersInv
<1>1. Documents = {} /\ Creating = {}
  BY DEF Init, Documents, Creating
<1>2. 1 .. 0 = {}
  OBVIOUS
<1> QED BY <1>1, <1>2, FS_EmptySet DEF Init, NumbersInv

LEMMA NextNumbers == ASSUME IInv, NumbersInv, [Next]_vars PROVE NumbersInv'
<1>1. ASSUME NEW p \in Requests, NEW c \in Clients, create(p, c) PROVE NumbersInv'
  BY <1>1, CreateNumbers
<1>2. ASSUME NEW p \in Requests, generateOrgId(p) PROVE NumbersInv'
  BY <1>2, GenerateNumbers
<1>3. ASSUME NEW p \in Requests, saveOrganization(p) PROVE NumbersInv'
  BY <1>3, SaveNumbers
<1>4. ASSUME NEW p \in Requests, fails(p) \/ setAssignment(p) \/ clearAssignment(p)
      PROVE  NumbersInv'
  <2>1. UNCHANGED <<organizations, server>> /\ Ended(p) /\ pc[p] # "idle"
    BY <1>4 DEF fails, setAssignment, clearAssignment
  <2>2. Documents' = Documents
    BY <2>1 DEF organizations, Documents
  <2>3. pc'[p] = "idle" /\ \A q \in Requests \ {p} : Untouched(q) /\ (alone'[q] <=> alone[q])
    BY <2>1, <2>2, EndedShape DEF IInv
  <2>4. count' \in [Requests -> Nat] /\ \A q \in Requests \ {p} : count'[q] = count[q]
    BY <2>1 DEF Ended, NumbersInv
  <2> QED BY <2>1, <2>3, <2>4, NumbersKept DEF Untouched, organizations, NumbersInv
<1>5. ASSUME NEW p \in Requests, NEW o \in Orgs, NEW m \in Machines,
             assignMachine(p, o, m) \/ removeMachine(p, o, m)
      PROVE  NumbersInv'
  <2>1. /\ UNCHANGED <<number, clientUserId, server, client, count>> /\ server = "up"
        /\ \E next \in {"assign", "remove"}, rivals \in SUBSET Requests : Begin(p, next, rivals)
    BY <1>5 DEF assignMachine, removeMachine, Begin, Started, Rivals
  <2>2. /\ pc'[p] \in {"assign", "remove"}
        /\ \A q \in Requests \ {p} : pc'[q] = pc[q] /\ (alone'[q] => alone[q])
    BY <2>1, BeginShape DEF IInv
  <2> QED BY <2>1, <2>2, NumbersKept DEF NumbersInv
<1>6. CASE UNCHANGED <<number, clientUserId, requests>> /\ server' = server
  BY <1>6, NumbersKept DEF requests, NumbersInv
<1>7. CASE seedOrganization
  BY <1>7, SeedNumbers
<1>8. CASE Crash
  BY <1>8, NumbersKept DEF Crash, organizations
<1>9. CASE Next
  BY <1>1, <1>2, <1>3, <1>4, <1>5, <1>6, <1>7, <1>8, <1>9
     DEF Next, softDelete, createMachine, updateMachine, renameMachine, removeDocument,
         seedMachine, organizations
<1>10. CASE UNCHANGED vars
  BY <1>6, <1>10 DEF vars, organizations
<1> QED BY <1>9, <1>10

(* Organizations are numbered 1, 2, 3 and so on, and a creation that no    *)
(* other overlaps gets its number (organizations.service.ts:31).           *)
THEOREM OrganizationsNumbersInOrder == Spec => []NumbersInOrder
<1>1. Init => IInv /\ NumbersInv
  BY InitIInv, InitNumbers
<1>2. IInv /\ NumbersInv /\ [Next]_vars => IInv' /\ NumbersInv'
  BY NextIInv, NextNumbers
<1>3. NumbersInv => NumbersInOrder
  <2> SUFFICES ASSUME NumbersInv PROVE NumbersInOrder
    OBVIOUS
  <2>1. ASSUME NEW p \in Requests, pc[p] = "save", alone[p]
        PROVE  Free(count[p], client[p])
    <3>1. CountOK(p)
      BY <2>1 DEF NumbersInv, Creating
    <3>2. Cardinality(Documents) \in Nat
      BY FS_CardinalityType DEF NumbersInv
    <3>3. \A o \in Documents : number[o] \in 1 .. Cardinality(Documents)
      BY DEF NumbersInv
    <3> QED BY <2>1, <3>1, <3>2, <3>3 DEF CountOK, Free
  <2> QED BY <2>1 DEF NumbersInv, NumbersInOrder
<1> QED BY <1>1, <1>2, <1>3, PTL DEF Spec
=============================================================================
