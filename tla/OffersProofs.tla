---------------------------- MODULE OffersProofs ----------------------------
(***************************************************************************)
(* Proofs about Offers for any number of customers, memberships,           *)
(* promotions and overlapping requests, with every failure and restart.    *)
(***************************************************************************)
EXTENDS Offers, FiniteSetTheorems, TLAPS

(* A membership that was stored has a customer and a plan.                 *)
SlotOK(m) ==
    IF status[m] = "none" THEN userId[m] = null /\ ~ended[m]
    ELSE userId[m] \in Customers /\ plan[m] \in Plans

(* What a request remembers.                                               *)
RequestOK(p) ==
    /\ pc[p] \in {"charge", "save"} => who[p] \in Customers /\ about[p] \in Plans
    /\ pc[p] = "cancel" => about[p] \in Memberships /\ status[about[p]] # "none"
    /\ pc[p] \in Pricing => who[p] \in Customers /\ about[p] \in Items

ShapeOK ==
    /\ TypeOK
    /\ \A m \in Memberships : SlotOK(m)
    /\ \A p \in Requests : RequestOK(p)

Subscribing(c) == {p \in Requests : pc[p] \in {"charge", "save"} /\ who[p] = c}

(* Without overlap, a customer who subscribes has no membership yet.       *)
AloneOK(c) ==
    c \notin overlapped =>
        /\ \A p, q \in Subscribing(c) : p = q
        /\ Subscribing(c) # {} => Active(c) = {}
        /\ \A m, n \in Active(c) : m = n

(* What was there all the time is there now, and what is there now was     *)
(* there at some time.                                                     *)
WatchOK(p) ==
    pc[p] \in Pricing =>
        /\ always[p] \subseteq Offered(who[p], about[p])
        /\ Offered(who[p], about[p]) \subseteq ever[p]

(* What an order has read so far is as good as what it could have read.    *)
BatchOK(p) ==
    pc[p] \in {"membership", "promotion"} =>
        /\ \A d \in Discounts : <<"batch", d>> \in always[p] => d <= discount[p]
        /\ discount[p] = 0 \/ <<"batch", discount[p]>> \in ever[p]

MemberOK(p) ==
    pc[p] = "promotion" =>
        /\ who[p] \notin overlapped =>
              \A d \in Discounts : <<"membership", d>> \in always[p] => d <= member[p]
        /\ member[p] = 0 \/ <<"membership", member[p]>> \in ever[p]

PricedOK(p) ==
    pc[p] = "priced" =>
        /\ who[p] \notin overlapped => \A x \in always[p] : x[2] <= discount[p]
        /\ discount[p] = 0 \/ \E x \in ever[p] : x[2] = discount[p]

IInv ==
    /\ ShapeOK
    /\ \A c \in Customers : AloneOK(c)
    /\ \A p \in Requests : WatchOK(p) /\ BatchOK(p) /\ MemberOK(p) /\ PricedOK(p)

-----------------------------------------------------------------------------
(* The invariant holds at the start.                                       *)
LEMMA InitIInv == Init => IInv
<1> SUFFICES ASSUME Init PROVE IInv
  OBVIOUS
<1>1. TypeOK
  BY OffersAssumption DEF Init, TypeOK, Discounts, OffersAssumption
<1>2. \A m \in Memberships : SlotOK(m)
  BY DEF Init, SlotOK
<1>3. \A p \in Requests : pc[p] = "idle"
  BY DEF Init
<1>4. \A p \in Requests :
         RequestOK(p) /\ WatchOK(p) /\ BatchOK(p) /\ MemberOK(p) /\ PricedOK(p)
  BY <1>3 DEF RequestOK, WatchOK, BatchOK, MemberOK, PricedOK, Pricing
<1>5. \A c \in Customers : Active(c) = {} /\ Subscribing(c) = {}
  BY <1>3 DEF Init, Active, Subscribing
<1>6. \A c \in Customers : AloneOK(c)
  BY <1>5 DEF AloneOK
<1> QED BY <1>1, <1>2, <1>4, <1>6 DEF IInv, ShapeOK

-----------------------------------------------------------------------------
(* Starting a request, going on and ending it keep the shape of requests.  *)
LEMMA StartShape ==
    ASSUME TypeOK, NEW p \in Requests, NEW s \in {"charge", "cancel", "membership"},
           NEW c \in Customers \cup {null},
           NEW a \in Items \cup Plans \cup Memberships \cup {null}, Start(p, s, c, a)
    PROVE  /\ pc' \in [Requests -> {"idle", "charge", "save", "cancel", "membership",
                                    "promotion", "priced"}]
           /\ who' \in [Requests -> Customers \cup {null}]
           /\ about' \in [Requests -> Items \cup Plans \cup Memberships \cup {null}]
           /\ started' \in 0 .. MaxRequests /\ ticks' = ticks
           /\ pc'[p] = s /\ who'[p] = c /\ about'[p] = a /\ pc[p] = "idle"
           /\ \A q \in Requests \ {p} :
                 pc'[q] = pc[q] /\ who'[q] = who[q] /\ about'[q] = about[q]
  BY OffersAssumption DEF TypeOK, Start, Started, OffersAssumption

LEMMA EndedShape ==
    ASSUME TypeOK, NEW p \in Requests, Ended(p)
    PROVE  /\ pc' \in [Requests -> {"idle", "charge", "save", "cancel", "membership",
                                    "promotion", "priced"}]
           /\ who' \in [Requests -> Customers \cup {null}]
           /\ about' \in [Requests -> Items \cup Plans \cup Memberships \cup {null}]
           /\ member' \in [Requests -> Discounts] /\ discount' \in [Requests -> Discounts]
           /\ pc'[p] = "idle"
           /\ \A q \in Requests \ {p} :
                 /\ pc'[q] = pc[q] /\ who'[q] = who[q] /\ about'[q] = about[q]
                 /\ member'[q] = member[q] /\ discount'[q] = discount[q]
<1>1. 0 \in Discounts
  BY DEF Discounts
<1> QED BY <1>1 DEF TypeOK, Ended, Goto

LEMMA GotoShape ==
    ASSUME TypeOK, NEW p \in Requests, NEW s \in {"save", "promotion", "priced"}, Goto(p, s)
    PROVE  /\ pc' \in [Requests -> {"idle", "charge", "save", "cancel", "membership",
                                    "promotion", "priced"}]
           /\ pc'[p] = s /\ \A q \in Requests \ {p} : pc'[q] = pc[q]
  BY DEF TypeOK, Goto

-----------------------------------------------------------------------------
(* What a step leaves alone.                                               *)
Same(q) ==
    /\ pc'[q] = pc[q] /\ who'[q] = who[q] /\ about'[q] = about[q]
    /\ member'[q] = member[q] /\ discount'[q] = discount[q]

Kept == \A m \in Memberships : status[m] # "none" => status'[m] # "none"

Shrinks == \A c \in Customers : Active(c)' \subseteq Active(c)

ReadsOK(q) == RequestOK(q) /\ BatchOK(q) /\ MemberOK(q) /\ PricedOK(q)

(* A request that does nothing is as right as before: what it was offered  *)
(* all the time only shrinks, what it was ever offered only grows.         *)
LEMMA Undisturbed ==
    ASSUME IInv, Watch, Kept, overlapped \subseteq overlapped',
           NEW q \in Requests, Same(q)
    PROVE  ReadsOK(q)'
<1>1. RequestOK(q) /\ BatchOK(q) /\ MemberOK(q) /\ PricedOK(q)
  BY DEF IInv, ShapeOK
<1>2. RequestOK(q)'
  BY <1>1 DEF RequestOK, Same, Kept
<1>3. pc[q] \in Pricing => always'[q] \subseteq always[q] /\ ever[q] \subseteq ever'[q]
  BY DEF Watch, Same, Pricing
<1>4. BatchOK(q)'
  BY <1>1, <1>3 DEF BatchOK, Same, Pricing
<1>5. MemberOK(q)'
  BY <1>1, <1>3 DEF MemberOK, Same, Pricing
<1>6. PricedOK(q)'
  BY <1>1, <1>3 DEF PricedOK, Same, Pricing
<1> QED BY <1>2, <1>4, <1>5, <1>6 DEF ReadsOK

LEMMA OutsidePricing ==
    ASSUME NEW q \in Requests, pc'[q] \notin Pricing
    PROVE  BatchOK(q)' /\ MemberOK(q)' /\ PricedOK(q)'
  BY DEF BatchOK, MemberOK, PricedOK, Pricing

LEMMA IdleReadsOK ==
    ASSUME NEW q \in Requests, pc'[q] = "idle"
    PROVE  ReadsOK(q)'
  BY OutsidePricing DEF ReadsOK, RequestOK, Pricing

LEMMA AloneKept ==
    ASSUME IInv, NEW c \in Customers, Subscribing(c)' \subseteq Subscribing(c),
           Active(c)' \subseteq Active(c), overlapped \subseteq overlapped'
    PROVE  AloneOK(c)'
<1>1. AloneOK(c)
  BY DEF IInv
<1> QED BY <1>1 DEF AloneOK

LEMMA SubscribingShrinks ==
    ASSUME NEW c \in Customers,
           \A q \in Requests : pc'[q] \in {"charge", "save"} =>
                                  pc[q] \in {"charge", "save"} /\ who'[q] = who[q]
    PROVE  Subscribing(c)' \subseteq Subscribing(c)
  BY DEF Subscribing

-----------------------------------------------------------------------------
(* The parts of the invariant that an action has to keep; Watch keeps      *)
(* WatchOK by itself.                                                      *)
Kinds ==
    /\ ShapeOK
    /\ \A c \in Customers : AloneOK(c)
    /\ \A q \in Requests : ReadsOK(q)

LEMMA RequestsUnchanged ==
    ASSUME IInv, Watch, UNCHANGED <<requests, overlapped>>, Kept, Shrinks, TypeOK',
           \A m \in Memberships : SlotOK(m)'
    PROVE  Kinds'
<1>1. \A q \in Requests : Same(q)
  BY DEF requests, Same
<1>2. \A q \in Requests : ReadsOK(q)'
  BY <1>1, Undisturbed
<1>3. \A c \in Customers : Subscribing(c)' \subseteq Subscribing(c)
  BY DEF requests, Subscribing
<1>4. \A c \in Customers : AloneOK(c)'
  BY <1>3, AloneKept DEF Shrinks
<1> QED BY <1>2, <1>4 DEF Kinds, ShapeOK, ReadsOK

LEMMA RequestEnded ==
    ASSUME IInv, Watch, NEW p \in Requests, Ended(p), overlapped' = overlapped,
           Kept, Shrinks, TypeOK', \A m \in Memberships : SlotOK(m)'
    PROVE  Kinds'
<1>1. pc'[p] = "idle" /\ \A q \in Requests \ {p} : Same(q)
  BY EndedShape DEF IInv, ShapeOK, Same
<1>2. \A q \in Requests : ReadsOK(q)'
  BY <1>1, Undisturbed, IdleReadsOK
<1>3. \A c \in Customers : Subscribing(c)' \subseteq Subscribing(c)
  BY <1>1 DEF Same, Subscribing
<1>4. \A c \in Customers : AloneOK(c)'
  BY <1>3, AloneKept DEF Shrinks
<1> QED BY <1>2, <1>4 DEF Kinds, ShapeOK, ReadsOK
-----------------------------------------------------------------------------
(* Memberships.                                                            *)
LEMMA SubscribeKinds ==
    ASSUME IInv, Watch, NEW p \in Requests, NEW c \in Customers, NEW l \in Plans,
           subscribe(p, c, l)
    PROVE  Kinds'
<1> USE DEF subscribe
<1>1. /\ TypeOK /\ \A m \in Memberships : SlotOK(m)
      /\ \A d \in Customers : AloneOK(d)
  BY DEF IInv, ShapeOK
<1>2. /\ pc' \in [Requests -> {"idle", "charge", "save", "cancel", "membership",
                               "promotion", "priced"}]
      /\ who' \in [Requests -> Customers \cup {null}]
      /\ about' \in [Requests -> Items \cup Plans \cup Memberships \cup {null}]
      /\ started' \in 0 .. MaxRequests /\ ticks' = ticks
      /\ pc'[p] = "charge" /\ who'[p] = c /\ about'[p] = l /\ pc[p] = "idle"
      /\ \A q \in Requests \ {p} :
            pc'[q] = pc[q] /\ who'[q] = who[q] /\ about'[q] = about[q]
  BY <1>1, StartShape
<1>3. TypeOK'
  BY <1>1, <1>2 DEF TypeOK, memberships, promotions
<1>4. \A m \in Memberships : SlotOK(m)'
  BY <1>1 DEF SlotOK, memberships
<1>5. Kept /\ \A d \in Customers : Active(d)' = Active(d)
  BY DEF Kept, Active, memberships
<1>6. \A q \in Requests \ {p} : ReadsOK(q)'
  BY <1>2, <1>5, Undisturbed DEF Same
<1>7. ReadsOK(p)'
  BY <1>2, OutsidePricing DEF ReadsOK, RequestOK, Pricing
<1>8. \A d \in Customers \ {c} : AloneOK(d)'
  <2> SUFFICES ASSUME NEW d \in Customers \ {c} PROVE AloneOK(d)'
    OBVIOUS
  <2>1. Subscribing(d)' \subseteq Subscribing(d)
    BY <1>2 DEF Subscribing
  <2> QED BY <2>1, <1>5, AloneKept
<1>9. AloneOK(c)'
  <2>1. CASE Subscribing(c) = {}
    <3>1. Subscribing(c)' = {p}
      BY <2>1, <1>2 DEF Subscribing
    <3> QED BY <3>1, <1>5 DEF AloneOK
  <2>2. CASE Subscribing(c) # {}
    <3>1. c \in overlapped'
      BY <2>2 DEF Subscribing
    <3> QED BY <3>1 DEF AloneOK
  <2> QED BY <2>1, <2>2
<1> QED BY <1>3, <1>4, <1>6, <1>7, <1>8, <1>9 DEF Kinds, ShapeOK, ReadsOK

LEMMA ChargesType ==
    ASSUME TypeOK, NEW c \in Customers, NEW l \in Plans
    PROVE  /\ [charges EXCEPT ![c][l] = @ + 1] \in [Customers -> [Plans -> Nat]]
           /\ [lost EXCEPT ![c][l] = @ + 1] \in [Customers -> [Plans -> Nat]]
  BY DEF TypeOK

LEMMA DeductKinds ==
    ASSUME IInv, Watch, NEW p \in Requests, deduct(p)
    PROVE  Kinds'
<1> USE DEF deduct
<1>1. /\ TypeOK /\ \A m \in Memberships : SlotOK(m) /\ RequestOK(p)
  BY DEF IInv, ShapeOK
<1>2. who[p] \in Customers /\ about[p] \in Plans
  BY <1>1 DEF IInv, ShapeOK, RequestOK
<1>3. /\ pc' \in [Requests -> {"idle", "charge", "save", "cancel", "membership",
                               "promotion", "priced"}]
      /\ pc'[p] = "save" /\ \A q \in Requests \ {p} : pc'[q] = pc[q]
  BY <1>1, GotoShape
<1>4. TypeOK'
  BY <1>1, <1>2, <1>3, ChargesType DEF TypeOK, memberships, promotions, bounds
<1>5. \A m \in Memberships : SlotOK(m)'
  BY <1>1 DEF SlotOK, memberships
<1>6. Kept /\ \A d \in Customers : Active(d)' = Active(d)
  BY DEF Kept, Active, memberships
<1>7. \A q \in Requests \ {p} : ReadsOK(q)'
  BY <1>3, <1>6, Undisturbed DEF Same
<1>8. ReadsOK(p)'
  BY <1>2, <1>3, OutsidePricing DEF ReadsOK, RequestOK, Pricing
<1>9. \A d \in Customers : AloneOK(d)'
  <2> SUFFICES ASSUME NEW d \in Customers PROVE AloneOK(d)'
    OBVIOUS
  <2>1. Subscribing(d)' \subseteq Subscribing(d)
    BY <1>3 DEF Subscribing
  <2> QED BY <2>1, <1>6, AloneKept
<1> QED BY <1>4, <1>5, <1>7, <1>8, <1>9 DEF Kinds, ShapeOK, ReadsOK

(* A request that ends without touching the memberships.                   *)
LEMMA EndKinds ==
    ASSUME IInv, Watch, NEW p \in Requests, Ended(p),
           UNCHANGED <<memberships, promotions, near, overlapped, bounds>>,
           charges' \in [Customers -> [Plans -> Nat]], lost' \in [Customers -> [Plans -> Nat]]
    PROVE  Kinds'
<1>1. TypeOK /\ \A m \in Memberships : SlotOK(m)
  BY DEF IInv, ShapeOK
<1>2. TypeOK'
  BY <1>1, EndedShape DEF TypeOK, memberships, promotions, bounds
<1>3. \A m \in Memberships : SlotOK(m)'
  BY <1>1 DEF SlotOK, memberships
<1>4. Kept /\ Shrinks
  BY DEF Kept, Shrinks, Active, memberships
<1> QED BY <1>2, <1>3, <1>4, RequestEnded

LEMMA EndingKinds ==
    ASSUME IInv, Watch, NEW p \in Requests,
           deductRefused(p) \/ deductLost(p) \/ saveFails(p) \/ storeOrder(p) \/ fails(p)
    PROVE  Kinds'
<1>1. TypeOK /\ RequestOK(p)
  BY DEF IInv, ShapeOK
<1>2. charges \in [Customers -> [Plans -> Nat]] /\ lost \in [Customers -> [Plans -> Nat]]
  BY <1>1 DEF TypeOK
<1>3. CASE deductRefused(p)
  BY <1>2, <1>3, EndKinds DEF deductRefused
<1>4. CASE deductLost(p)
  <2>1. who[p] \in Customers /\ about[p] \in Plans
    BY <1>1, <1>4 DEF deductLost, RequestOK
  <2> QED BY <1>1, <1>4, <2>1, ChargesType, EndKinds DEF deductLost
<1>5. CASE saveFails(p)
  <2>1. who[p] \in Customers /\ about[p] \in Plans
    BY <1>1, <1>5 DEF saveFails, RequestOK
  <2> QED BY <1>1, <1>2, <1>5, <2>1, ChargesType, EndKinds DEF saveFails
<1>6. CASE storeOrder(p)
  BY <1>2, <1>6, EndKinds DEF storeOrder
<1>7. CASE fails(p)
  BY <1>2, <1>7, EndKinds DEF fails
<1> QED BY <1>3, <1>4, <1>5, <1>6, <1>7

LEMMA SaveKinds ==
    ASSUME IInv, Watch, NEW p \in Requests, saveMembership(p)
    PROVE  Kinds'
<1> USE DEF saveMembership
<1>1. /\ TypeOK /\ RequestOK(p) /\ \A m \in Memberships : SlotOK(m)
      /\ \A d \in Customers : AloneOK(d)
  BY DEF IInv, ShapeOK
<1>2. who[p] \in Customers /\ about[p] \in Plans /\ pc[p] = "save"
  BY <1>1 DEF RequestOK
<1>3. PICK n \in Memberships :
         /\ status[n] = "none"
         /\ userId' = [userId EXCEPT ![n] = who[p]]
         /\ plan' = [plan EXCEPT ![n] = about[p]]
         /\ status' = [status EXCEPT ![n] = "active"]
  OBVIOUS
<1>4. TypeOK'
  BY <1>1, <1>2, <1>3, EndedShape DEF TypeOK, promotions, bounds
<1>5. \A m \in Memberships : SlotOK(m)'
  BY <1>1, <1>2, <1>3 DEF TypeOK, SlotOK
<1>6. Kept
  BY <1>1, <1>3 DEF TypeOK, Kept
<1>7. pc'[p] = "idle" /\ \A q \in Requests \ {p} : Same(q)
  BY <1>1, EndedShape DEF Same
<1>8. \A q \in Requests : ReadsOK(q)'
  BY <1>6, <1>7, Undisturbed, IdleReadsOK
<1>9. \A d \in Customers : AloneOK(d)'
  <2> SUFFICES ASSUME NEW d \in Customers PROVE AloneOK(d)'
    OBVIOUS
  <2>1. Subscribing(d)' = Subscribing(d) \ {p}
    BY <1>7 DEF Subscribing, Same
  <2>2. CASE d # who[p]
    <3>1. Active(d)' \subseteq Active(d)
      BY <1>1, <1>3, <2>2 DEF TypeOK, Active
    <3> QED BY <2>1, <3>1, AloneKept
  <2>3. CASE d = who[p] /\ d \notin overlapped
    <3>1. p \in Subscribing(d)
      BY <1>2, <2>3 DEF Subscribing
    <3>2. Active(d) = {} /\ Subscribing(d) = {p}
      BY <1>1, <2>3, <3>1 DEF AloneOK
    <3>3. Active(d)' \subseteq {n}
      BY <1>1, <1>3, <3>2 DEF TypeOK, Active
    <3> QED BY <2>1, <3>2, <3>3 DEF AloneOK
  <2>4. CASE d \in overlapped
    BY <2>4 DEF AloneOK
  <2> QED BY <2>2, <2>3, <2>4
<1> QED BY <1>4, <1>5, <1>8, <1>9 DEF Kinds, ShapeOK, ReadsOK

LEMMA CancelKinds ==
    ASSUME IInv, Watch, NEW p \in Requests, NEW n \in Memberships, cancelMembership(p, n)
    PROVE  Kinds'
<1> USE DEF cancelMembership
<1>1. TypeOK /\ \A m \in Memberships : SlotOK(m)
  BY DEF IInv, ShapeOK
<1>2. /\ pc' \in [Requests -> {"idle", "charge", "save", "cancel", "membership",
                               "promotion", "priced"}]
      /\ who' \in [Requests -> Customers \cup {null}]
      /\ about' \in [Requests -> Items \cup Plans \cup Memberships \cup {null}]
      /\ started' \in 0 .. MaxRequests /\ ticks' = ticks
      /\ pc'[p] = "cancel" /\ about'[p] = n /\ pc[p] = "idle"
      /\ \A q \in Requests \ {p} :
            pc'[q] = pc[q] /\ who'[q] = who[q] /\ about'[q] = about[q]
  <2>1. userId[n] \in Customers \cup {null}
    BY <1>1 DEF TypeOK
  <2> QED BY <1>1, <2>1, StartShape
<1>3. TypeOK'
  BY <1>1, <1>2 DEF TypeOK, memberships, promotions
<1>4. \A m \in Memberships : SlotOK(m)'
  BY <1>1 DEF SlotOK, memberships
<1>5. Kept /\ \A d \in Customers : Active(d)' = Active(d)
  BY DEF Kept, Active, memberships
<1>6. \A q \in Requests \ {p} : ReadsOK(q)'
  BY <1>2, <1>5, Undisturbed DEF Same
<1>7. ReadsOK(p)'
  BY <1>2, OutsidePricing DEF ReadsOK, RequestOK, Pricing, memberships
<1>8. \A d \in Customers : AloneOK(d)'
  <2> SUFFICES ASSUME NEW d \in Customers PROVE AloneOK(d)'
    OBVIOUS
  <2>1. Subscribing(d)' \subseteq Subscribing(d)
    BY <1>2 DEF Subscribing
  <2> QED BY <2>1, <1>5, AloneKept
<1> QED BY <1>3, <1>4, <1>6, <1>7, <1>8 DEF Kinds, ShapeOK, ReadsOK

LEMMA SaveCancelledKinds ==
    ASSUME IInv, Watch, NEW p \in Requests, saveCancelled(p)
    PROVE  Kinds'
<1> USE DEF saveCancelled
<1>1. TypeOK /\ RequestOK(p) /\ \A m \in Memberships : SlotOK(m)
  BY DEF IInv, ShapeOK
<1>2. about[p] \in Memberships /\ status[about[p]] # "none"
  BY <1>1 DEF RequestOK
<1>3. TypeOK'
  BY <1>1, <1>2, EndedShape DEF TypeOK, promotions, bounds
<1>4. \A m \in Memberships : SlotOK(m)'
  BY <1>1, <1>2 DEF TypeOK, SlotOK
<1>5. Kept /\ Shrinks
  BY <1>1, <1>2 DEF TypeOK, Kept, Shrinks, Active
<1> QED BY <1>3, <1>4, <1>5, RequestEnded

(* What the cron and time do to memberships, and every step of promotions  *)
(* and batches.                                                            *)
LEMMA MembershipsAgeKinds ==
    ASSUME IInv, Watch, NEW n \in Memberships, expireMemberships \/ endDatePasses(n)
    PROVE  Kinds'
<1>1. TypeOK /\ \A m \in Memberships : SlotOK(m)
  BY DEF IInv, ShapeOK
<1>2. CASE expireMemberships
  <2> USE <1>2 DEF expireMemberships
  <2>1. TypeOK'
    BY <1>1 DEF TypeOK, promotions, requests, bounds
  <2>2. \A m \in Memberships : SlotOK(m)'
    BY <1>1 DEF TypeOK, SlotOK
  <2>3. Kept /\ Shrinks
    BY <1>1 DEF TypeOK, Kept, Shrinks, Active
  <2> QED BY <2>1, <2>2, <2>3, RequestsUnchanged
<1>3. CASE endDatePasses(n)
  <2> USE <1>3 DEF endDatePasses, Tick
  <2>1. TypeOK'
    BY <1>1, OffersAssumption DEF TypeOK, promotions, requests, OffersAssumption
  <2>2. \A m \in Memberships : SlotOK(m)'
    BY <1>1 DEF TypeOK, SlotOK
  <2>3. Kept /\ Shrinks
    BY <1>1 DEF TypeOK, Kept, Shrinks, Active
  <2> QED BY <2>1, <2>2, <2>3, RequestsUnchanged
<1> QED BY <1>2, <1>3
LEMMA OffersChangeKinds ==
    ASSUME IInv, Watch, UNCHANGED <<memberships, charges, requests, overlapped, lost>>,
           itemId' \in [Promotions -> Items \cup {null}],
           discountPct' \in [Promotions -> Discounts],
           isActive' \in [Promotions -> BOOLEAN], open' \in [Promotions -> BOOLEAN],
           near' \in [Items -> BOOLEAN],
           started' \in 0 .. MaxRequests, ticks' \in 0 .. MaxTicks
    PROVE  Kinds'
<1>1. TypeOK /\ \A m \in Memberships : SlotOK(m)
  BY DEF IInv, ShapeOK
<1>2. TypeOK'
  BY <1>1 DEF TypeOK, memberships, requests
<1>3. \A m \in Memberships : SlotOK(m)'
  BY <1>1 DEF SlotOK, memberships
<1>4. Kept /\ Shrinks
  BY DEF Kept, Shrinks, Active, memberships
<1> QED BY <1>2, <1>3, <1>4, RequestsUnchanged

LEMMA PromotionsKinds ==
    ASSUME IInv, Watch, NEW o \in Promotions, NEW i \in Items \cup {null},
           NEW d \in Percents, NEW a \in BOOLEAN, NEW b \in BOOLEAN,
           create(o, i, d, b) \/ update(o, i, d, a, b)
    PROVE  Kinds'
<1>1. TypeOK
  BY DEF IInv, ShapeOK
<1>2. d \in Discounts
  BY OffersAssumption DEF OffersAssumption, Discounts
<1>3. /\ near \in [Items -> BOOLEAN]
      /\ itemId \in [Promotions -> Items \cup {null}]
      /\ discountPct \in [Promotions -> Discounts]
      /\ isActive \in [Promotions -> BOOLEAN] /\ open \in [Promotions -> BOOLEAN]
  BY <1>1 DEF TypeOK
<1>4. Started => started' \in 0 .. MaxRequests /\ ticks' \in 0 .. MaxTicks
  BY <1>1, OffersAssumption DEF TypeOK, Started, OffersAssumption
<1>5. CASE create(o, i, d, b)
  BY <1>2, <1>3, <1>4, <1>5, OffersChangeKinds DEF create
<1>6. CASE update(o, i, d, a, b)
  BY <1>2, <1>3, <1>4, <1>6, OffersChangeKinds DEF update
<1> QED BY <1>5, <1>6

LEMMA RemoveKinds ==
    ASSUME IInv, Watch, NEW o \in Promotions, remove(o) \/ windowOpensOrCloses(o)
    PROVE  Kinds'
<1>1. TypeOK
  BY DEF IInv, ShapeOK
<1>2. /\ near \in [Items -> BOOLEAN]
      /\ itemId \in [Promotions -> Items \cup {null}]
      /\ discountPct \in [Promotions -> Discounts]
      /\ isActive \in [Promotions -> BOOLEAN] /\ open \in [Promotions -> BOOLEAN]
  BY <1>1 DEF TypeOK
<1>3. Started \/ Tick => started' \in 0 .. MaxRequests /\ ticks' \in 0 .. MaxTicks
  BY <1>1, OffersAssumption DEF TypeOK, Started, Tick, OffersAssumption
<1>4. CASE remove(o)
  BY <1>2, <1>3, <1>4, OffersChangeKinds DEF remove
<1>5. CASE windowOpensOrCloses(o)
  BY <1>2, <1>3, <1>5, OffersChangeKinds DEF windowOpensOrCloses
<1> QED BY <1>4, <1>5

LEMMA BatchesKinds ==
    ASSUME IInv, Watch, NEW i \in Items, batchesAge(i)
    PROVE  Kinds'
<1>1. TypeOK
  BY DEF IInv, ShapeOK
<1>2. started' \in 0 .. MaxRequests /\ ticks' \in 0 .. MaxTicks
  BY <1>1, OffersAssumption DEF batchesAge, Tick, TypeOK, OffersAssumption
<1>3. near' \in [Items -> BOOLEAN]
  BY <1>1 DEF batchesAge, TypeOK
<1>4. /\ itemId \in [Promotions -> Items \cup {null}]
      /\ discountPct \in [Promotions -> Discounts]
      /\ isActive \in [Promotions -> BOOLEAN] /\ open \in [Promotions -> BOOLEAN]
  BY <1>1 DEF TypeOK
<1> QED BY <1>2, <1>3, <1>4, OffersChangeKinds DEF batchesAge, promotions

LEMMA CrashKinds ==
    ASSUME IInv, Watch, Crash
    PROVE  Kinds'
<1>1. TypeOK /\ \A m \in Memberships : SlotOK(m)
  BY DEF IInv, ShapeOK
<1> DEFINE Cut(c, l) == {p \in Requests : pc[p] = "save" /\ who[p] = c /\ about[p] = l}
<1>2. ASSUME NEW c \in Customers, NEW l \in Plans PROVE Cardinality(Cut(c, l)) \in Nat
  <2>1. IsFiniteSet(Cut(c, l))
    BY OffersAssumption, FS_Subset DEF OffersAssumption
  <2> QED BY <2>1, FS_CardinalityType
<1>3. lost' \in [Customers -> [Plans -> Nat]]
  <2> DEFINE sum == [c \in Customers |-> [l \in Plans |-> lost[c][l] + Cardinality(Cut(c, l))]]
  <2>1. lost' = sum
    BY DEF Crash
  <2>2. \A c \in Customers, l \in Plans : lost[c][l] + Cardinality(Cut(c, l)) \in Nat
    <3> HIDE DEF Cut
    <3> QED BY <1>1, <1>2 DEF TypeOK
  <2> HIDE DEF Cut
  <2> QED BY <2>1, <2>2
<1>4. 0 \in Discounts
  BY DEF Discounts
<1>5. TypeOK'
  BY <1>1, <1>3, <1>4 DEF Crash, TypeOK, memberships, promotions, bounds
<1>6. \A m \in Memberships : SlotOK(m)'
  BY <1>1 DEF Crash, SlotOK, memberships
<1>7. \A q \in Requests : pc'[q] = "idle"
  BY DEF Crash
<1>8. \A q \in Requests : ReadsOK(q)'
  BY <1>7, IdleReadsOK
<1>9. \A c \in Customers : AloneOK(c)'
  <2> SUFFICES ASSUME NEW c \in Customers PROVE AloneOK(c)'
    OBVIOUS
  <2>1. Subscribing(c)' \subseteq Subscribing(c)
    BY <1>7 DEF Subscribing
  <2>2. Active(c)' = Active(c) /\ overlapped' = overlapped
    BY DEF Crash, Active, memberships
  <2> QED BY <2>1, <2>2, AloneKept
<1> QED BY <1>5, <1>6, <1>8, <1>9 DEF Kinds, ShapeOK, ReadsOK

-----------------------------------------------------------------------------
(* The three reads of an order.                                            *)
LEMMA DiscountsType ==
    /\ 0 \in Discounts /\ NEAR_EXPIRY_DISCOUNT_PCT \in Discounts
    /\ \A l \in Plans : PLAN_DISCOUNT[l] \in Discounts
  BY OffersAssumption DEF OffersAssumption, Discounts, PLAN_DISCOUNT, NEAR_EXPIRY_DISCOUNT_PCT

(* What an order reads leaves the rest alone.                              *)
LEMMA ReadKinds ==
    ASSUME IInv, Watch, NEW p \in Requests,
           UNCHANGED <<memberships, promotions, near, charges, overlapped, lost>>,
           TypeOK', \A q \in Requests \ {p} : Same(q), pc'[p] \in Pricing, ReadsOK(p)'
    PROVE  Kinds'
<1>1. \A m \in Memberships : SlotOK(m)'
  BY DEF IInv, ShapeOK, SlotOK, memberships
<1>2. Kept /\ \A d \in Customers : Active(d)' = Active(d)
  BY DEF Kept, Active, memberships
<1>3. \A q \in Requests : ReadsOK(q)'
  BY <1>2, Undisturbed
<1>4. \A d \in Customers : AloneOK(d)'
  <2> SUFFICES ASSUME NEW d \in Customers PROVE AloneOK(d)'
    OBVIOUS
  <2>1. Subscribing(d)' \subseteq Subscribing(d)
    BY DEF Subscribing, Same, Pricing
  <2> QED BY <2>1, <1>2, AloneKept
<1> QED BY <1>1, <1>3, <1>4 DEF Kinds, ShapeOK, ReadsOK

LEMMA ReadBatchKinds ==
    ASSUME IInv, Watch, NEW p \in Requests, NEW c \in Customers, NEW i \in Items,
           readBatch(p, c, i)
    PROVE  Kinds'
<1> USE DEF readBatch
<1>1. TypeOK
  BY DEF IInv, ShapeOK
<1>2. /\ pc' \in [Requests -> {"idle", "charge", "save", "cancel", "membership",
                               "promotion", "priced"}]
      /\ who' \in [Requests -> Customers \cup {null}]
      /\ about' \in [Requests -> Items \cup Plans \cup Memberships \cup {null}]
      /\ started' \in 0 .. MaxRequests /\ ticks' = ticks
      /\ pc'[p] = "membership" /\ who'[p] = c /\ about'[p] = i /\ pc[p] = "idle"
      /\ \A q \in Requests \ {p} :
            pc'[q] = pc[q] /\ who'[q] = who[q] /\ about'[q] = about[q]
  BY <1>1, StartShape
<1>3. /\ discount' \in [Requests -> Discounts]
      /\ discount'[p] = IF near[i] THEN NEAR_EXPIRY_DISCOUNT_PCT ELSE 0
      /\ \A q \in Requests \ {p} : discount'[q] = discount[q]
  BY <1>1, DiscountsType DEF TypeOK
<1>4. TypeOK'
  BY <1>1, <1>2, <1>3 DEF TypeOK, memberships, promotions
<1>5. \A q \in Requests \ {p} : Same(q)
  BY <1>2, <1>3 DEF Same
<1>6. always'[p] = Offered(c, i)' /\ Offered(c, i)' \subseteq ever'[p]
  BY <1>2 DEF Watch, Pricing
<1>7. BatchOK(p)'
  <2>1. near' = near
    OBVIOUS
  <2>2. ASSUME NEW d \in Discounts, <<"batch", d>> \in always'[p] PROVE d <= discount'[p]
    BY <1>3, <1>6, <2>1, <2>2 DEF Offered, NEAR_EXPIRY_DISCOUNT_PCT
  <2>3. ASSUME near[i] PROVE <<"batch", NEAR_EXPIRY_DISCOUNT_PCT>> \in Offered(c, i)'
    BY <2>1, <2>3 DEF Offered
  <2>4. discount'[p] = 0 \/ <<"batch", discount'[p]>> \in ever'[p]
    BY <1>3, <1>6, <2>3
  <2> QED BY <2>2, <2>4 DEF BatchOK
<1>8. ReadsOK(p)'
  BY <1>2, <1>7 DEF ReadsOK, RequestOK, MemberOK, PricedOK, Pricing
<1> QED BY <1>2, <1>4, <1>5, <1>8, ReadKinds DEF Pricing
(* After the first read of an order, what it was and is offered.           *)
LEMMA OfferedKept ==
    ASSUME IInv, Watch, NEW p \in Requests, pc[p] \in Pricing, pc'[p] \in Pricing,
           UNCHANGED <<memberships, promotions, near, who, about>>
    PROVE  /\ always'[p] \subseteq always[p]
           /\ always'[p] \subseteq Offered(who[p], about[p])
           /\ ever[p] \subseteq ever'[p]
           /\ Offered(who[p], about[p]) \subseteq ever'[p]
<1>1. Offered(who[p], about[p])' = Offered(who[p], about[p])
  BY DEF Offered, Active, Live, memberships, promotions
<1>2. pc[p] # "idle"
  BY DEF Pricing
<1> QED BY <1>1, <1>2 DEF Watch

LEMMA OfferedPercents ==
    ASSUME ShapeOK, NEW c, NEW i, NEW x \in Offered(c, i)
    PROVE  x[2] \in Discounts
<1>1. ASSUME NEW m \in Active(c) PROVE PLAN_DISCOUNT[plan[m]] \in Discounts
  <2>1. plan[m] \in Plans
    BY DEF ShapeOK, SlotOK, Active
  <2> QED BY <2>1, DiscountsType
<1>2. ASSUME NEW o \in Live(i) PROVE discountPct[o] \in Discounts
  BY DEF ShapeOK, TypeOK, Live
<1> QED BY <1>1, <1>2, DiscountsType DEF Offered

LEMMA ReadMembershipKinds ==
    ASSUME IInv, Watch, NEW p \in Requests, readMembership(p)
    PROVE  Kinds'
<1> USE DEF readMembership
<1>1. /\ TypeOK /\ ShapeOK /\ RequestOK(p) /\ BatchOK(p)
      /\ \A d \in Customers : AloneOK(d)
  BY DEF IInv, ShapeOK
<1>2. /\ pc' \in [Requests -> {"idle", "charge", "save", "cancel", "membership",
                               "promotion", "priced"}]
      /\ pc'[p] = "promotion" /\ \A q \in Requests \ {p} : pc'[q] = pc[q]
  BY <1>1, GotoShape
<1>3. pc[p] \in Pricing /\ who[p] \in Customers /\ about[p] \in Items
  BY <1>1 DEF RequestOK, Pricing
<1>4. /\ member' \in [Requests -> Discounts]
      /\ \A q \in Requests \ {p} : member'[q] = member[q]
      /\ \/ Active(who[p]) = {} /\ member'[p] = 0
         \/ \E m \in Active(who[p]) : member'[p] = PLAN_DISCOUNT[plan[m]]
  <2>1. CASE Active(who[p]) = {} /\ member' = [member EXCEPT ![p] = 0]
    BY <1>1, <2>1, DiscountsType DEF TypeOK
  <2>2. CASE \E m \in Active(who[p]) : member' = [member EXCEPT ![p] = PLAN_DISCOUNT[plan[m]]]
    <3>1. PICK m \in Active(who[p]) : member' = [member EXCEPT ![p] = PLAN_DISCOUNT[plan[m]]]
      BY <2>2
    <3>2. PLAN_DISCOUNT[plan[m]] \in Discounts
      BY <1>1, DiscountsType DEF ShapeOK, SlotOK, Active
    <3> QED BY <1>1, <3>1, <3>2 DEF TypeOK
  <2> QED BY <2>1, <2>2
<1>5. TypeOK'
  BY <1>1, <1>2, <1>4 DEF TypeOK, memberships, promotions, bounds
<1>6. \A q \in Requests \ {p} : Same(q)
  BY <1>2, <1>4 DEF Same
<1>7. /\ always'[p] \subseteq always[p] /\ always'[p] \subseteq Offered(who[p], about[p])
      /\ ever[p] \subseteq ever'[p] /\ Offered(who[p], about[p]) \subseteq ever'[p]
  BY <1>2, <1>3, OfferedKept DEF Pricing
<1>8. BatchOK(p)'
  BY <1>1, <1>2, <1>7 DEF BatchOK
<1>9. MemberOK(p)'
  <2>1. ASSUME who[p] \notin overlapped, NEW d \in Discounts, <<"membership", d>> \in always'[p]
        PROVE  d <= member'[p]
    <3>1. \A m, n \in Active(who[p]) : m = n
      BY <1>1, <1>3, <2>1 DEF AloneOK
    <3>2. PICK m \in Active(who[p]) : d = PLAN_DISCOUNT[plan[m]]
      BY <1>7, <2>1 DEF Offered
    <3>3. d = member'[p]
      BY <1>4, <3>1, <3>2
    <3> QED BY <3>3 DEF Discounts
  <2>2. member'[p] = 0 \/ <<"membership", member'[p]>> \in ever'[p]
    <3>1. ASSUME NEW m \in Active(who[p])
          PROVE  <<"membership", PLAN_DISCOUNT[plan[m]]>> \in ever'[p]
      BY <1>7 DEF Offered
    <3> QED BY <1>4, <3>1
  <2> QED BY <2>1, <2>2 DEF MemberOK
<1>10. ReadsOK(p)'
  BY <1>2, <1>3, <1>8, <1>9 DEF ReadsOK, RequestOK, PricedOK, Pricing
<1> QED BY <1>2, <1>5, <1>6, <1>10, ReadKinds DEF Pricing

(* The better of three percentages is one of them, and none is better.     *)
LEMMA BestIsLargest ==
    ASSUME NEW d \in Discounts, NEW m \in Discounts, NEW n \in Discounts
    PROVE  /\ Best(d, m, n) \in Discounts
           /\ d <= Best(d, m, n) /\ m <= Best(d, m, n) /\ n <= Best(d, m, n)
           /\ Best(d, m, n) = d \/ Best(d, m, n) = m \/ Best(d, m, n) = n
  BY DEF Best, Discounts

LEMMA AtMost ==
    ASSUME NEW x \in Discounts, NEW y \in Discounts, NEW z \in Discounts, x <= y, y <= z
    PROVE  x <= z
  BY DEF Discounts

LEMMA ReadPromotionKinds ==
    ASSUME IInv, Watch, NEW p \in Requests, readPromotion(p)
    PROVE  Kinds'
<1> USE DEF readPromotion
<1>1. TypeOK /\ ShapeOK /\ RequestOK(p) /\ BatchOK(p) /\ MemberOK(p)
  BY DEF IInv, ShapeOK
<1>2. /\ pc' \in [Requests -> {"idle", "charge", "save", "cancel", "membership",
                               "promotion", "priced"}]
      /\ pc'[p] = "priced" /\ \A q \in Requests \ {p} : pc'[q] = pc[q]
  BY <1>1, GotoShape
<1>3. pc[p] \in Pricing /\ who[p] \in Customers /\ about[p] \in Items
  BY <1>1 DEF RequestOK, Pricing
<1>4. PICK d \in Discounts :
         /\ \/ d = 0 /\ Live(about[p]) = {}
            \/ \E o \in Live(about[p]) :
                  d = discountPct[o] /\ \A x \in Live(about[p]) : discountPct[x] <= d
         /\ discount' = [discount EXCEPT ![p] = Best(d, member[p], discount[p])]
  OBVIOUS
<1>5. member[p] \in Discounts /\ discount[p] \in Discounts
  BY <1>1 DEF TypeOK
<1> DEFINE b == Best(d, member[p], discount[p])
<1>6. /\ d <= b /\ member[p] <= b /\ discount[p] <= b
      /\ b = d \/ b = member[p] \/ b = discount[p]
  BY <1>5, BestIsLargest
<1>7. b \in Discounts
  BY <1>5, BestIsLargest
<1> HIDE DEF b
<1>8. /\ discount' \in [Requests -> Discounts] /\ discount'[p] = b
      /\ \A q \in Requests \ {p} : discount'[q] = discount[q]
  BY <1>1, <1>4, <1>7 DEF TypeOK, b
<1>9. TypeOK'
  BY <1>1, <1>2, <1>8 DEF TypeOK, memberships, promotions, bounds
<1>10. \A q \in Requests \ {p} : Same(q)
  BY <1>2, <1>8 DEF Same
<1>11. /\ always'[p] \subseteq always[p] /\ always'[p] \subseteq Offered(who[p], about[p])
       /\ ever[p] \subseteq ever'[p] /\ Offered(who[p], about[p]) \subseteq ever'[p]
  BY <1>2, <1>3, OfferedKept DEF Pricing
<1>12. ASSUME who[p] \notin overlapped, NEW x \in always'[p] PROVE x[2] <= b
  <2>1. x[2] \in Discounts
    BY <1>1, <1>11, <1>12, OfferedPercents
  <2>2. CASE \E m \in Active(who[p]) : x = <<"membership", PLAN_DISCOUNT[plan[m]]>>
    <3>1. x = <<"membership", x[2]>>
      BY <2>2
    <3>2. x[2] <= member[p]
      BY <1>1, <1>11, <1>12, <2>1, <3>1 DEF MemberOK
    <3> QED BY <1>5, <1>6, <1>7, <2>1, <3>2, AtMost
  <2>3. CASE \E o \in Live(about[p]) : x = <<"promotion", discountPct[o]>>
    <3>1. x[2] <= d
      BY <1>4, <2>3
    <3> QED BY <1>6, <1>7, <2>1, <3>1, AtMost
  <2>4. CASE x = <<"batch", NEAR_EXPIRY_DISCOUNT_PCT>>
    <3>1. x = <<"batch", x[2]>>
      BY <2>4
    <3>2. x[2] <= discount[p]
      BY <1>1, <1>12, <1>11, <2>1, <3>1 DEF BatchOK
    <3> QED BY <1>5, <1>6, <1>7, <2>1, <3>2, AtMost
  <2> QED BY <1>11, <1>12, <2>2, <2>3, <2>4 DEF Offered
<1>13. b = 0 \/ \E x \in ever'[p] : x[2] = b
  <2>1. CASE b = d
    <3>1. CASE d # 0
      <4>1. PICK o \in Live(about[p]) : d = discountPct[o]
        BY <1>4, <3>1
      <4>2. <<"promotion", d>> \in ever'[p]
        BY <1>11, <4>1 DEF Offered
      <4> QED BY <2>1, <4>2
    <3> QED BY <2>1, <3>1
  <2>2. CASE b = member[p]
    <3>1. CASE b # 0
      <4>1. <<"membership", b>> \in ever'[p]
        BY <1>1, <1>11, <2>2, <3>1 DEF MemberOK
      <4> QED BY <4>1
    <3> QED BY <3>1
  <2>3. CASE b = discount[p]
    <3>1. CASE b # 0
      <4>1. <<"batch", b>> \in ever'[p]
        BY <1>1, <1>11, <2>3, <3>1 DEF BatchOK
      <4> QED BY <4>1
    <3> QED BY <3>1
  <2> QED BY <1>6, <2>1, <2>2, <2>3
<1>14. PricedOK(p)'
  BY <1>8, <1>12, <1>13 DEF PricedOK
<1>15. ReadsOK(p)'
  BY <1>2, <1>3, <1>14 DEF ReadsOK, RequestOK, BatchOK, MemberOK, Pricing
<1> QED BY <1>2, <1>9, <1>10, <1>15, ReadKinds DEF Pricing

-----------------------------------------------------------------------------
(* Every step keeps the invariant.                                         *)
LEMMA StepKinds ==
    ASSUME IInv, Watch, Step
    PROVE  Kinds'
<1> USE DEF Step
<1>1. CASE \E p \in Requests, c \in Customers, l \in Plans : subscribe(p, c, l)
  BY <1>1, SubscribeKinds
<1>2. CASE \E p \in Requests : deduct(p) \/ deductRefused(p) \/ deductLost(p)
  BY <1>2, DeductKinds, EndingKinds
<1>3. CASE \E p \in Requests : saveMembership(p) \/ saveFails(p) \/ saveCancelled(p)
  BY <1>3, SaveKinds, EndingKinds, SaveCancelledKinds
<1>4. CASE \E p \in Requests, m \in Memberships : cancelMembership(p, m)
  BY <1>4, CancelKinds
<1>5. CASE expireMemberships
  <2>1. PICK m \in Memberships : status[m] = "active"
    BY <1>5 DEF expireMemberships
  <2> QED BY <1>5, <2>1, MembershipsAgeKinds
<1>6. CASE \E o \in Promotions, i \in Items \cup {null}, d \in Percents, b \in BOOLEAN :
              create(o, i, d, b) \/ \E a \in BOOLEAN : update(o, i, d, a, b)
  BY <1>6, PromotionsKinds
<1>7. CASE \E o \in Promotions : remove(o) \/ windowOpensOrCloses(o)
  BY <1>7, RemoveKinds
<1>8. CASE \E p \in Requests, c \in Customers, i \in Items : readBatch(p, c, i)
  BY <1>8, ReadBatchKinds
<1>9. CASE \E p \in Requests :
              readMembership(p) \/ readPromotion(p) \/ storeOrder(p) \/ fails(p)
  BY <1>9, ReadMembershipKinds, ReadPromotionKinds, EndingKinds
<1>10. CASE \E m \in Memberships : endDatePasses(m)
  BY <1>10, MembershipsAgeKinds
<1>11. CASE \E i \in Items : batchesAge(i)
  BY <1>11, BatchesKinds
<1>12. CASE Crash
  BY <1>12, CrashKinds
<1> QED
  BY <1>1, <1>2, <1>3, <1>4, <1>5, <1>6, <1>7, <1>8, <1>9, <1>10, <1>11, <1>12

LEMMA NextIInv == IInv /\ [Next]_vars => IInv'
<1> SUFFICES ASSUME IInv, [Next]_vars PROVE IInv'
  OBVIOUS
<1>1. CASE Next
  <2>1. Kinds'
    BY <1>1, StepKinds DEF Next
  <2>2. \A p \in Requests : WatchOK(p)'
    BY <1>1 DEF Next, Watch, WatchOK
  <2> QED BY <2>1, <2>2 DEF Kinds, IInv, ReadsOK
<1>2. CASE UNCHANGED vars
  <2>1. UNCHANGED <<memberships, promotions, near, charges, requests, always, ever,
                    overlapped, lost, bounds>>
    BY <1>2 DEF vars
  <2>2. ShapeOK'
    <3>1. TypeOK'
      BY <2>1 DEF IInv, ShapeOK, TypeOK, memberships, promotions, requests, bounds
    <3>2. \A m \in Memberships : SlotOK(m)'
      BY <2>1 DEF IInv, ShapeOK, SlotOK, memberships
    <3>3. \A p \in Requests : RequestOK(p)'
      BY <2>1 DEF IInv, ShapeOK, RequestOK, memberships, requests
    <3> QED BY <3>1, <3>2, <3>3 DEF ShapeOK
  <2>3. \A c \in Customers : Active(c)' = Active(c) /\ Subscribing(c)' = Subscribing(c)
    BY <2>1 DEF Active, Subscribing, memberships, requests
  <2>4. \A c \in Customers : AloneOK(c)'
    BY <2>1, <2>3 DEF IInv, AloneOK
  <2>5. \A i \in Items : Live(i)' = Live(i)
    BY <2>1 DEF Live, promotions
  <2>6. \A c \in Customers, i \in Items : Offered(c, i)' = Offered(c, i)
    BY <2>1, <2>3, <2>5 DEF Offered, memberships, promotions
  <2>7. \A p \in Requests : WatchOK(p)'
    <3> SUFFICES ASSUME NEW p \in Requests, pc[p] \in Pricing
                 PROVE  WatchOK(p)'
      BY <2>1 DEF WatchOK, requests
    <3>1. who[p] \in Customers /\ about[p] \in Items /\ WatchOK(p)
      BY DEF IInv, ShapeOK, RequestOK
    <3> QED BY <2>1, <2>6, <3>1 DEF WatchOK, requests
  <2>8. \A p \in Requests : BatchOK(p)' /\ MemberOK(p)' /\ PricedOK(p)'
    BY <2>1 DEF IInv, BatchOK, MemberOK, PricedOK, requests
  <2> QED BY <2>2, <2>4, <2>7, <2>8 DEF IInv
<1> QED BY <1>1, <1>2

-----------------------------------------------------------------------------
(* Every reachable state has values of the declared types, and requests    *)
(* remember what their next call needs (memberships.service.ts,            *)
(* promotions.service.ts, orders.service.ts:244).                          *)
THEOREM OffersTypeCorrect == Spec => []TypeOK
<1>1. IInv => TypeOK
  BY DEF IInv, ShapeOK
<1> QED BY InitIInv, NextIInv, <1>1, PTL DEF Spec

(* Unless two subscriptions of one customer overlap, nobody has two        *)
(* memberships at a time (memberships.service.ts:69).                      *)
THEOREM OffersOneMembership == Spec => []OneMembership
<1>1. IInv => OneMembership
  BY DEF IInv, AloneOK, OneMembership
<1> QED BY InitIInv, NextIInv, <1>1, PTL DEF Spec

(* Every order is as cheap as what it was offered all the time, and not    *)
(* cheaper than what it was ever offered (orders.service.ts:244).          *)
THEOREM OffersFairPrice == Spec => []FairPrice
<1>1. IInv => FairPrice
  BY DEF IInv, PricedOK, FairPrice
<1> QED BY InitIInv, NextIInv, <1>1, PTL DEF Spec
-----------------------------------------------------------------------------
(* What is counted for the money: memberships stored, charges under way.   *)
Bought(c, l) == {m \in Memberships : userId[m] = c /\ plan[m] = l}

Saving(c, l) == {p \in Requests : pc[p] = "save" /\ who[p] = c /\ about[p] = l}

Paid(c, l) ==
    /\ IsFiniteSet(Bought(c, l))
    /\ charges[c][l] = Cardinality(Bought(c, l)) + Cardinality(Saving(c, l)) + lost[c][l]

PaidInv == \A c \in Customers, l \in Plans : Paid(c, l)

(* What is counted is finite.                                              *)
LEMMA Counted ==
    ASSUME IInv, PaidInv, NEW c \in Customers, NEW l \in Plans
    PROVE  /\ IsFiniteSet(Saving(c, l)) /\ Cardinality(Saving(c, l)) \in Nat
           /\ IsFiniteSet(Bought(c, l)) /\ Cardinality(Bought(c, l)) \in Nat
           /\ charges[c][l] \in Nat /\ lost[c][l] \in Nat
           /\ charges[c][l] = Cardinality(Bought(c, l)) + Cardinality(Saving(c, l)) + lost[c][l]
<1>1. IsFiniteSet(Saving(c, l))
  <2>1. Saving(c, l) \subseteq Requests
    BY DEF Saving
  <2> QED BY <2>1, FS_Subset, OffersAssumption DEF OffersAssumption
<1>2. Paid(c, l)
  BY DEF PaidInv
<1>3. charges[c][l] \in Nat /\ lost[c][l] \in Nat
  BY DEF IInv, ShapeOK, TypeOK
<1> QED BY <1>1, <1>2, <1>3, FS_CardinalityType DEF Paid

(* A step that stores no membership and touches no charged request.        *)
LEMMA PaidUntouched ==
    ASSUME PaidInv, UNCHANGED <<userId, plan, charges, lost>>,
           \A p \in Requests : \/ pc[p] # "save" /\ pc'[p] # "save"
                               \/ pc'[p] = pc[p] /\ who'[p] = who[p] /\ about'[p] = about[p]
    PROVE  PaidInv'
<1> SUFFICES ASSUME NEW c \in Customers, NEW l \in Plans PROVE Paid(c, l)'
  BY DEF PaidInv
<1>1. Bought(c, l)' = Bought(c, l)
  BY DEF Bought
<1>2. Saving(c, l)' = Saving(c, l)
  BY DEF Saving
<1> QED BY <1>1, <1>2 DEF PaidInv, Paid

(* Of the steps that end a charged request only that request's plan and    *)
(* customer notice.                                                        *)
LEMMA SavingEnds ==
    ASSUME IInv, PaidInv, NEW p \in Requests, pc[p] = "save", Ended(p)
    PROVE  \A c \in Customers, l \in Plans :
             IF c = who[p] /\ l = about[p]
             THEN Cardinality(Saving(c, l)') = Cardinality(Saving(c, l)) - 1
             ELSE Saving(c, l)' = Saving(c, l)
<1> SUFFICES ASSUME NEW c \in Customers, NEW l \in Plans
             PROVE  IF c = who[p] /\ l = about[p]
                    THEN Cardinality(Saving(c, l)') = Cardinality(Saving(c, l)) - 1
                    ELSE Saving(c, l)' = Saving(c, l)
  OBVIOUS
<1>1. Saving(c, l)' = Saving(c, l) \ {p}
  BY EndedShape DEF IInv, ShapeOK, Saving
<1>2. CASE c = who[p] /\ l = about[p]
  <2>1. p \in Saving(c, l)
    BY <1>2 DEF Saving
  <2>2. IsFiniteSet(Saving(c, l))
    BY Counted
  <2>3. Cardinality(Saving(c, l) \ {p}) = Cardinality(Saving(c, l)) - 1
    BY <2>1, <2>2, FS_RemoveElement
  <2>4. Cardinality(Saving(c, l)') = Cardinality(Saving(c, l)) - 1
    BY <1>1, <2>3
  <2> QED BY <1>2, <2>4
<1>3. CASE ~(c = who[p] /\ l = about[p])
  BY <1>1, <1>3 DEF Saving
<1> QED BY <1>2, <1>3

LEMMA DeductPaid ==
    ASSUME IInv, PaidInv, NEW p \in Requests, deduct(p)
    PROVE  PaidInv'
<1> SUFFICES ASSUME NEW c \in Customers, NEW l \in Plans PROVE Paid(c, l)'
  BY DEF PaidInv
<1>1. /\ Bought(c, l)' = Bought(c, l) /\ lost' = lost /\ pc[p] = "charge"
      /\ charges' = [charges EXCEPT ![who[p]][about[p]] = @ + 1]
      /\ who[p] \in Customers /\ about[p] \in Plans
  BY DEF deduct, memberships, Bought, IInv, ShapeOK, RequestOK
<1>2. charges \in [Customers -> [Plans -> Nat]]
  BY DEF IInv, ShapeOK, TypeOK
<1>3. CASE c = who[p] /\ l = about[p]
  <2>1. Saving(c, l)' = Saving(c, l) \cup {p} /\ p \notin Saving(c, l)
    BY <1>1, <1>3, GotoShape DEF deduct, IInv, ShapeOK, Saving
  <2>2. Cardinality(Saving(c, l)') = Cardinality(Saving(c, l)) + 1
    BY <2>1, Counted, FS_AddElement
  <2>3. charges'[c][l] = charges[c][l] + 1
    BY <1>1, <1>2, <1>3
  <2> QED BY <1>1, <2>2, <2>3, Counted DEF Paid
<1>4. CASE ~(c = who[p] /\ l = about[p])
  <2>1. Saving(c, l)' = Saving(c, l)
    BY <1>1, <1>4, GotoShape DEF deduct, IInv, ShapeOK, Saving
  <2>2. charges'[c][l] = charges[c][l]
    BY <1>1, <1>2, <1>4
  <2> QED BY <1>1, <2>1, <2>2, Counted DEF Paid
<1> QED BY <1>3, <1>4

LEMMA DeductLostPaid ==
    ASSUME IInv, PaidInv, NEW p \in Requests, deductLost(p)
    PROVE  PaidInv'
<1> SUFFICES ASSUME NEW c \in Customers, NEW l \in Plans PROVE Paid(c, l)'
  BY DEF PaidInv
<1>1. /\ Bought(c, l)' = Bought(c, l) /\ pc[p] = "charge"
      /\ charges' = [charges EXCEPT ![who[p]][about[p]] = @ + 1]
      /\ lost' = [lost EXCEPT ![who[p]][about[p]] = @ + 1]
      /\ who[p] \in Customers /\ about[p] \in Plans
  BY DEF deductLost, memberships, Bought, IInv, ShapeOK, RequestOK
<1>2. charges \in [Customers -> [Plans -> Nat]] /\ lost \in [Customers -> [Plans -> Nat]]
  BY DEF IInv, ShapeOK, TypeOK
<1>3. Saving(c, l)' = Saving(c, l)
  BY <1>1, EndedShape DEF deductLost, IInv, ShapeOK, Saving
<1>4. \/ charges'[c][l] = charges[c][l] + 1 /\ lost'[c][l] = lost[c][l] + 1
      \/ charges'[c][l] = charges[c][l] /\ lost'[c][l] = lost[c][l]
  BY <1>1, <1>2
<1> QED BY <1>1, <1>3, <1>4, Counted DEF Paid

LEMMA SaveFailsPaid ==
    ASSUME IInv, PaidInv, NEW p \in Requests, saveFails(p)
    PROVE  PaidInv'
<1> SUFFICES ASSUME NEW c \in Customers, NEW l \in Plans PROVE Paid(c, l)'
  BY DEF PaidInv
<1>1. /\ Bought(c, l)' = Bought(c, l) /\ charges' = charges
      /\ lost' = [lost EXCEPT ![who[p]][about[p]] = @ + 1]
      /\ pc[p] = "save" /\ Ended(p)
      /\ who[p] \in Customers /\ about[p] \in Plans
  BY DEF saveFails, memberships, Bought, IInv, ShapeOK, RequestOK
<1>2. lost \in [Customers -> [Plans -> Nat]]
  BY DEF IInv, ShapeOK, TypeOK
<1>3. CASE c = who[p] /\ l = about[p]
  <2>1. Cardinality(Saving(c, l)') = Cardinality(Saving(c, l)) - 1
    BY <1>1, <1>3, SavingEnds
  <2>2. lost'[c][l] = lost[c][l] + 1
    BY <1>1, <1>2, <1>3
  <2> QED BY <1>1, <2>1, <2>2, Counted DEF Paid
<1>4. CASE ~(c = who[p] /\ l = about[p])
  <2>1. Saving(c, l)' = Saving(c, l)
    BY <1>1, <1>4, SavingEnds
  <2>2. lost'[c][l] = lost[c][l]
    BY <1>1, <1>2, <1>4
  <2> QED BY <1>1, <2>1, <2>2, Counted DEF Paid
<1> QED BY <1>3, <1>4

LEMMA SaveMembershipPaid ==
    ASSUME IInv, PaidInv, NEW p \in Requests, saveMembership(p)
    PROVE  PaidInv'
<1> SUFFICES ASSUME NEW c \in Customers, NEW l \in Plans PROVE Paid(c, l)'
  BY DEF PaidInv
<1>1. /\ UNCHANGED <<charges, lost>> /\ pc[p] = "save" /\ Ended(p)
      /\ who[p] \in Customers /\ about[p] \in Plans
  BY DEF saveMembership, IInv, ShapeOK, RequestOK
<1>2. PICK m \in Memberships :
         /\ status[m] = "none"
         /\ userId' = [userId EXCEPT ![m] = who[p]] /\ plan' = [plan EXCEPT ![m] = about[p]]
  BY DEF saveMembership
<1>3. m \notin Bought(c, l)
  BY <1>2, OffersAssumption DEF IInv, ShapeOK, SlotOK, Bought, OffersAssumption
<1>4. userId \in [Memberships -> Customers \cup {null}] /\ plan \in [Memberships -> Plans \cup {null}]
  BY DEF IInv, ShapeOK, TypeOK
<1>5. CASE c = who[p] /\ l = about[p]
  <2>1. Cardinality(Saving(c, l)') = Cardinality(Saving(c, l)) - 1
    BY <1>1, <1>5, SavingEnds
  <2>2. Bought(c, l)' = Bought(c, l) \cup {m}
    BY <1>2, <1>4, <1>5 DEF Bought
  <2>3. IsFiniteSet(Bought(c, l)') /\ Cardinality(Bought(c, l)') = Cardinality(Bought(c, l)) + 1
    BY <1>3, <2>2, Counted, FS_AddElement
  <2> QED BY <1>1, <2>1, <2>3, Counted DEF Paid
<1>6. CASE ~(c = who[p] /\ l = about[p])
  <2>1. Saving(c, l)' = Saving(c, l)
    BY <1>1, <1>6, SavingEnds
  <2>2. Bought(c, l)' = Bought(c, l)
    BY <1>2, <1>3, <1>4, <1>6 DEF Bought
  <2> QED BY <1>1, <2>1, <2>2, Counted DEF Paid
<1> QED BY <1>5, <1>6

(* A restart loses the charges of the subscriptions it interrupts.         *)
LEMMA CrashPaid ==
    ASSUME IInv, PaidInv, Crash
    PROVE  PaidInv'
<1> SUFFICES ASSUME NEW c \in Customers, NEW l \in Plans PROVE Paid(c, l)'
  BY DEF PaidInv
<1>1. Bought(c, l)' = Bought(c, l) /\ charges' = charges
  BY DEF Crash, memberships, Bought
<1>2. lost'[c][l] = lost[c][l] + Cardinality(Saving(c, l))
  BY DEF Crash, Saving
<1>3. Saving(c, l)' = {}
  BY DEF Crash, Saving
<1> QED BY <1>1, <1>2, <1>3, Counted, FS_EmptySet DEF Paid

LEMMA InitPaid == Init => PaidInv
<1> SUFFICES ASSUME Init, NEW c \in Customers, NEW l \in Plans PROVE Paid(c, l)
  BY DEF PaidInv
<1>1. Bought(c, l) = {} /\ Saving(c, l) = {}
  BY OffersAssumption DEF Init, Bought, Saving, OffersAssumption
<1>2. charges[c][l] = 0 /\ lost[c][l] = 0
  BY DEF Init
<1> QED BY <1>1, <1>2, FS_EmptySet DEF Paid

LEMMA NextPaid == IInv /\ PaidInv /\ [Next]_vars => PaidInv'
<1> SUFFICES ASSUME IInv, PaidInv, [Next]_vars PROVE PaidInv'
  OBVIOUS
<1> USE DEF IInv, ShapeOK
<1>1. ASSUME NEW p \in Requests, NEW c \in Customers, NEW l \in Plans, subscribe(p, c, l)
      PROVE  PaidInv'
  BY <1>1, StartShape, PaidUntouched DEF subscribe, memberships
<1>2. ASSUME NEW p \in Requests,
             deductRefused(p) \/ saveCancelled(p) \/ storeOrder(p) \/ fails(p)
      PROVE  PaidInv'
  BY <1>2, EndedShape, PaidUntouched DEF deductRefused, saveCancelled, storeOrder, fails, memberships
<1>3. ASSUME NEW p \in Requests, NEW m \in Memberships, cancelMembership(p, m)
      PROVE  PaidInv'
  <2>1. userId[m] \in Customers \cup {null}
    BY DEF TypeOK
  <2> QED BY <1>3, <2>1, StartShape, PaidUntouched DEF cancelMembership, memberships
<1>4. ASSUME NEW p \in Requests, readMembership(p) \/ readPromotion(p)
      PROVE  PaidInv'
  BY <1>4, GotoShape, PaidUntouched DEF readMembership, readPromotion, memberships
<1>5. ASSUME NEW p \in Requests, NEW c \in Customers, NEW i \in Items, readBatch(p, c, i)
      PROVE  PaidInv'
  BY <1>5, StartShape, PaidUntouched DEF readBatch, memberships
<1>6. CASE UNCHANGED <<userId, plan, charges, lost, requests>>
  BY <1>6, PaidUntouched DEF requests
<1>7. CASE Next
  BY <1>1, <1>2, <1>3, <1>4, <1>5, <1>6, <1>7, DeductPaid, DeductLostPaid, SaveFailsPaid,
     SaveMembershipPaid, CrashPaid
     DEF Next, Step, expireMemberships, create, update, remove, endDatePasses,
         windowOpensOrCloses, batchesAge, memberships
<1>8. CASE UNCHANGED vars
  BY <1>6, <1>8 DEF vars, memberships
<1> QED BY <1>7, <1>8

(* Every debit of the price of a plan is accounted for: a membership, a    *)
(* subscription under way, or one that was cut short                       *)
(* (memberships.service.ts:85).                                            *)
THEOREM OffersPaidForMembership == Spec => []PaidForMembership
<1>1. PaidInv => PaidForMembership
  BY DEF PaidInv, Paid, Bought, Saving, PaidForMembership
<1> QED BY InitIInv, NextIInv, InitPaid, NextPaid, <1>1, PTL DEF Spec
=============================================================================
