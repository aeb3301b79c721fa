------------------------------- MODULE Offers -------------------------------
(***************************************************************************)
(* What makes an order cheaper, and what it costs to get it: the           *)
(* memberships that customers buy, the promotions, the batches about to    *)
(* expire, and the part of OrdersService.placeOrder that chooses among     *)
(* them.                                                                   *)
(*                                                                         *)
(* A subscription looks for a membership, takes the price from the wallet  *)
(* and stores the membership in three calls; a cancellation loads and      *)
(* saves; an order reads the batch, the membership and the promotion in    *)
(* three calls, while all of them change.                                  *)
(*                                                                         *)
(* A price is known by the percentage taken off it: the amount and its     *)
(* rounding follow from that.  WalletService.deduct, whose steps are in    *)
(* module Wallet, is one step with its outcomes.  Refused requests, which  *)
(* change nothing, are not steps, and neither are orders of the legacy     *)
(* endpoint, which knows no offers.                                        *)
(***************************************************************************)
EXTENDS Integers, FiniteSets

CONSTANTS
    Customers, Items,
    Memberships, Promotions,    \* documents, never used again
    Plans,                      \* of PLAN_DISCOUNT
    Percents,                   \* that administrators give to promotions
    Requests,                   \* requests under way at the same time
    MaxRequests,                \* bound of the requests ever started
    MaxTicks,                   \* bound of the changes that time brings
    null

PLAN_DISCOUNT == [month1 |-> 15, month3 |-> 20, month5 |-> 25]
NEAR_EXPIRY_DISCOUNT_PCT == 30

ASSUME OffersAssumption ==
    /\ Plans \subseteq DOMAIN PLAN_DISCOUNT
    /\ Percents \subseteq 1 .. 100
    /\ IsFiniteSet(Requests)
    /\ MaxRequests \in Nat /\ MaxTicks \in Nat
    /\ null \notin Items \cup Customers

VARIABLES
    userId, plan, status, ended,                \* the memberships
    itemId, discountPct, isActive, open,        \* the promotions
    near,                   \* items sold from a batch that is about to expire
    charges,                \* debits that were made and not restored
    pc, who, about, member, discount,           \* the requests
    always, ever,           \* what an order was offered all the time, and ever
    overlapped,             \* customers whose subscriptions overlapped
    lost,                   \* charges whose request was cut short
    started, ticks          \* bounds

memberships == <<userId, plan, status, ended>>
promotions == <<itemId, discountPct, isActive, open>>
requests == <<pc, who, about, member, discount>>
bounds == <<started, ticks>>
vars == <<memberships, promotions, near, charges, requests, always, ever,
          overlapped, lost, bounds>>

Discounts == 0 .. 100

TypeOK ==
    /\ userId \in [Memberships -> Customers \cup {null}]
    /\ plan \in [Memberships -> Plans \cup {null}]
    /\ status \in [Memberships -> {"none", "active", "expired", "cancelled"}]
    /\ ended \in [Memberships -> BOOLEAN]
    /\ itemId \in [Promotions -> Items \cup {null}]
    /\ discountPct \in [Promotions -> Discounts]
    /\ isActive \in [Promotions -> BOOLEAN] /\ open \in [Promotions -> BOOLEAN]
    /\ near \in [Items -> BOOLEAN]
    /\ charges \in [Customers -> [Plans -> Nat]] /\ lost \in [Customers -> [Plans -> Nat]]
    /\ pc \in [Requests -> {"idle", "charge", "save", "cancel", "membership", "promotion", "priced"}]
    /\ who \in [Requests -> Customers \cup {null}]
    /\ about \in [Requests -> Items \cup Plans \cup Memberships \cup {null}]
    /\ member \in [Requests -> Discounts] /\ discount \in [Requests -> Discounts]
    /\ overlapped \subseteq Customers
    /\ started \in 0 .. MaxRequests /\ ticks \in 0 .. MaxTicks

Init ==
    /\ userId = [m \in Memberships |-> null] /\ plan = [m \in Memberships |-> null]
    /\ status = [m \in Memberships |-> "none"] /\ ended = [m \in Memberships |-> FALSE]
    /\ itemId = [o \in Promotions |-> null] /\ discountPct = [o \in Promotions |-> 0]
    /\ isActive = [o \in Promotions |-> FALSE] /\ open = [o \in Promotions |-> FALSE]
    /\ near = [i \in Items |-> FALSE]
    /\ charges = [c \in Customers |-> [l \in Plans |-> 0]] /\ lost = charges
    /\ pc = [p \in Requests |-> "idle"]
    /\ who = [p \in Requests |-> null] /\ about = [p \in Requests |-> null]
    /\ member = [p \in Requests |-> 0] /\ discount = [p \in Requests |-> 0]
    /\ always = [p \in Requests |-> {}] /\ ever = [p \in Requests |-> {}]
    /\ overlapped = {}
    /\ started = 0 /\ ticks = 0

-----------------------------------------------------------------------------
Started == started < MaxRequests /\ started' = started + 1 /\ UNCHANGED ticks

Start(p, next, c, a) ==
    /\ pc[p] = "idle"
    /\ Started
    /\ pc' = [pc EXCEPT ![p] = next]
    /\ who' = [who EXCEPT ![p] = c]
    /\ about' = [about EXCEPT ![p] = a]

Goto(p, next) == pc' = [pc EXCEPT ![p] = next]

Ended(p) ==
    /\ Goto(p, "idle")
    /\ who' = [who EXCEPT ![p] = null] /\ about' = [about EXCEPT ![p] = null]
    /\ member' = [member EXCEPT ![p] = 0] /\ discount' = [discount EXCEPT ![p] = 0]

(* What getActiveMembership and findBestPromotion look for.                *)
Active(c) == {m \in Memberships : userId[m] = c /\ status[m] = "active" /\ ~ended[m]}

Live(i) == {o \in Promotions : isActive[o] /\ open[o] /\ itemId[o] \in {i, null}}

-----------------------------------------------------------------------------
(* Memberships.                                                            *)

subscribe_Free(p, c, l) ==
    /\ Active(c) = {}
    /\ Start(p, "save", c, l)
    /\ overlapped' = IF \E q \in Requests : pc[q] \in {"charge", "save"} /\ who[q] = c
                     THEN overlapped \cup {c} ELSE overlapped
    /\ UNCHANGED <<memberships, promotions, near, charges, member, discount, lost>>

subscribe_OtherPlan(p, c, l) ==
    /\ \A m \in Active(c) : plan[m] # l
    /\ Start(p, "charge", c, l)
    /\ overlapped' = IF \E q \in Requests : pc[q] \in {"charge", "save"} /\ who[q] = c
                     THEN overlapped \cup {c} ELSE overlapped
    /\ UNCHANGED <<memberships, promotions, near, charges, member, discount, lost>>

subscribe(p, c, l) ==
    /\ Active(c) = {}
    /\ Start(p, "charge", c, l)
    /\ overlapped' = IF \E q \in Requests : pc[q] \in {"charge", "save"} /\ who[q] = c
                     THEN overlapped \cup {c} ELSE overlapped
    /\ UNCHANGED <<memberships, promotions, near, charges, member, discount, lost>>

(* The wallet is debited.                                                  *)
deduct(p) ==
    /\ pc[p] = "charge"
    /\ charges' = [charges EXCEPT ![who[p]][about[p]] = @ + 1]
    /\ Goto(p, "save")
    /\ UNCHANGED <<memberships, promotions, near, who, about, member, discount, overlapped,
                   lost, bounds>>

(* It refuses, or restores the balance after its second write failed.      *)
deductRefused(p) ==
    /\ pc[p] = "charge"
    /\ Ended(p)
    /\ UNCHANGED <<memberships, promotions, near, charges, overlapped, lost, bounds>>

(* It is neither recorded nor restored.                                    *)
deductLost(p) ==
    /\ pc[p] = "charge"
    /\ charges' = [charges EXCEPT ![who[p]][about[p]] = @ + 1]
    /\ lost' = [lost EXCEPT ![who[p]][about[p]] = @ + 1]
    /\ Ended(p)
    /\ UNCHANGED <<memberships, promotions, near, overlapped, bounds>>

saveMembership(p) ==
    /\ pc[p] = "save"
    /\ \E m \in Memberships :
          /\ status[m] = "none"
          /\ userId' = [userId EXCEPT ![m] = who[p]]
          /\ plan' = [plan EXCEPT ![m] = about[p]]
          /\ status' = [status EXCEPT ![m] = "active"]
    /\ Ended(p)
    /\ UNCHANGED <<ended, promotions, near, charges, overlapped, lost, bounds>>

saveFails(p) ==
    /\ pc[p] = "save"
    /\ lost' = [lost EXCEPT ![who[p]][about[p]] = @ + 1]
    /\ Ended(p)
    /\ UNCHANGED <<memberships, promotions, near, charges, overlapped, bounds>>

cancelMembership(p, m) ==
    /\ status[m] # "none"
    /\ Start(p, "cancel", userId[m], m)
    /\ UNCHANGED <<memberships, promotions, near, charges, member, discount, overlapped, lost>>

(* Whatever its status has become since.                                   *)
saveCancelled(p) ==
    /\ pc[p] = "cancel"
    /\ status' = [status EXCEPT ![about[p]] = "cancelled"]
    /\ Ended(p)
    /\ UNCHANGED <<userId, plan, ended, promotions, near, charges, overlapped, lost, bounds>>

expireMemberships ==
    /\ \E m \in Memberships : status[m] = "active" /\ ended[m]
    /\ status' = [m \in Memberships |->
                     IF status[m] = "active" /\ ended[m] THEN "expired" ELSE status[m]]
    /\ UNCHANGED <<userId, plan, ended, promotions, near, charges, requests, overlapped, lost,
                   bounds>>

-----------------------------------------------------------------------------
(* Promotions, for one item or (null) for all: one write each.             *)

create(o, i, d, isOpen) ==
    /\ discountPct[o] = 0
    /\ Started
    /\ itemId' = [itemId EXCEPT ![o] = i]
    /\ discountPct' = [discountPct EXCEPT ![o] = d]
    /\ isActive' = [isActive EXCEPT ![o] = TRUE]
    /\ open' = [open EXCEPT ![o] = isOpen]
    /\ UNCHANGED <<memberships, near, charges, requests, overlapped, lost>>

update(o, i, d, active, isOpen) ==
    /\ discountPct[o] # 0
    /\ Started
    /\ itemId' = [itemId EXCEPT ![o] = i]
    /\ discountPct' = [discountPct EXCEPT ![o] = d]
    /\ isActive' = [isActive EXCEPT ![o] = active]
    /\ open' = [open EXCEPT ![o] = isOpen]
    /\ UNCHANGED <<memberships, near, charges, requests, overlapped, lost>>

remove(o) ==
    /\ discountPct[o] # 0
    /\ Started
    /\ isActive' = [isActive EXCEPT ![o] = FALSE]
    /\ UNCHANGED <<memberships, itemId, discountPct, open, near, charges, requests, overlapped,
                   lost>>

-----------------------------------------------------------------------------
(* The offers in placeOrder, in the order in which it reads them.          *)

readBatch(p, c, i) ==
    /\ Start(p, "membership", c, i)
    /\ discount' = [discount EXCEPT ![p] = IF near[i] THEN NEAR_EXPIRY_DISCOUNT_PCT ELSE 0]
    /\ UNCHANGED <<memberships, promotions, near, charges, member, overlapped, lost>>

(* findOne gives any membership that matches.                              *)
readMembership(p) ==
    /\ pc[p] = "membership"
    /\ \/ Active(who[p]) = {} /\ member' = [member EXCEPT ![p] = 0]
       \/ \E m \in Active(who[p]) : member' = [member EXCEPT ![p] = PLAN_DISCOUNT[plan[m]]]
    /\ Goto(p, "promotion")
    /\ UNCHANGED <<memberships, promotions, near, charges, who, about, discount, overlapped,
                   lost, bounds>>

(* The percentage of a promotion counts if it beats the membership, and    *)
(* that of the batch if it beats both.                                     *)
Best_Stacked(promotion, membership, batch) == promotion + membership + batch

Best_PromotionWins(promotion, membership, batch) ==
    LET best == IF promotion > 0 THEN promotion ELSE membership
    IN  IF batch > best THEN batch ELSE best

Best(promotion, membership, batch) ==
    LET best == IF promotion > membership THEN promotion ELSE membership
    IN  IF batch > best THEN batch ELSE best

readPromotion(p) ==
    /\ pc[p] = "promotion"
    /\ \E d \in Discounts :
          /\ \/ d = 0 /\ Live(about[p]) = {}
             \/ \E o \in Live(about[p]) :
                   d = discountPct[o] /\ \A x \in Live(about[p]) : discountPct[x] <= d
          /\ discount' = [discount EXCEPT ![p] = Best(d, member[p], discount[p])]
    /\ Goto(p, "priced")
    /\ UNCHANGED <<memberships, promotions, near, charges, who, about, member, overlapped, lost,
                   bounds>>

(* The order is stored with its price; module Orders goes on from here.    *)
storeOrder(p) ==
    /\ pc[p] = "priced"
    /\ Ended(p)
    /\ UNCHANGED <<memberships, promotions, near, charges, overlapped, lost, bounds>>

-----------------------------------------------------------------------------
(* Time, and the requests that it cuts short.                              *)

Tick == ticks < MaxTicks /\ ticks' = ticks + 1 /\ UNCHANGED started

endDatePasses(m) ==
    /\ status[m] # "none" /\ ~ended[m]
    /\ Tick
    /\ ended' = [ended EXCEPT ![m] = TRUE]
    /\ UNCHANGED <<userId, plan, status, promotions, near, charges, requests, overlapped, lost>>

windowOpensOrCloses(o) ==
    /\ discountPct[o] # 0
    /\ Tick
    /\ open' = [open EXCEPT ![o] = ~@]
    /\ UNCHANGED <<memberships, itemId, discountPct, isActive, near, charges, requests,
                   overlapped, lost>>

batchesAge(i) ==
    /\ Tick
    /\ near' = [near EXCEPT ![i] = ~@]
    /\ UNCHANGED <<memberships, promotions, charges, requests, overlapped, lost>>

(* An awaited call of any other kind rejects.                              *)
fails(p) ==
    /\ pc[p] \in {"cancel", "membership", "promotion", "priced"}
    /\ Ended(p)
    /\ UNCHANGED <<memberships, promotions, near, charges, overlapped, lost, bounds>>

Crash ==
    /\ \E p \in Requests : pc[p] # "idle"
    /\ lost' = [c \in Customers |-> [l \in Plans |-> lost[c][l]
                  + Cardinality({p \in Requests : pc[p] = "save" /\ who[p] = c /\ about[p] = l})]]
    /\ pc' = [p \in Requests |-> "idle"]
    /\ who' = [p \in Requests |-> null] /\ about' = [p \in Requests |-> null]
    /\ member' = [p \in Requests |-> 0] /\ discount' = [p \in Requests |-> 0]
    /\ UNCHANGED <<memberships, promotions, near, charges, overlapped, bounds>>

-----------------------------------------------------------------------------
(* What an order of customer c for item i may be made cheaper by.          *)
Offered(c, i) ==
    {<<"membership", PLAN_DISCOUNT[plan[m]]>> : m \in Active(c)}
        \cup {<<"promotion", discountPct[o]>> : o \in Live(i)}
        \cup {<<"batch", NEAR_EXPIRY_DISCOUNT_PCT>> : x \in {i} \cap {y \in Items : near[y]}}

Pricing == {"membership", "promotion", "priced"}

(* The offers that orders see come and go.                                 *)
Watch ==
    /\ always' = [p \in Requests |->
                    IF pc'[p] \notin Pricing THEN {}
                    ELSE IF pc[p] = "idle" THEN Offered(who[p], about[p])'
                    ELSE always[p] \cap Offered(who[p], about[p])']
    /\ ever' = [p \in Requests |->
                    IF pc'[p] \notin Pricing THEN {}
                    ELSE ever[p] \cup Offered(who[p], about[p])']

Step ==
    \/ \E p \in Requests, c \in Customers, l \in Plans : subscribe(p, c, l)
    \/ \E p \in Requests : deduct(p) \/ deductRefused(p) \/ deductLost(p)
    \/ \E p \in Requests : saveMembership(p) \/ saveFails(p) \/ saveCancelled(p)
    \/ \E p \in Requests, m \in Memberships : cancelMembership(p, m)
    \/ expireMemberships
    \/ \E o \in Promotions, i \in Items \cup {null}, d \in Percents, b \in BOOLEAN :
          \/ create(o, i, d, b)
          \/ \E a \in BOOLEAN : update(o, i, d, a, b)
    \/ \E o \in Promotions : remove(o)
    \/ \E p \in Requests, c \in Customers, i \in Items : readBatch(p, c, i)
    \/ \E p \in Requests :
          readMembership(p) \/ readPromotion(p) \/ storeOrder(p) \/ fails(p)
    \/ \E m \in Memberships : endDatePasses(m)
    \/ \E o \in Promotions : windowOpensOrCloses(o)
    \/ \E i \in Items : batchesAge(i)
    \/ Crash

Next == Step /\ Watch

Spec == Init /\ [][Next]_vars

-----------------------------------------------------------------------------
(* Money for memberships: every debit of the price of a plan is that of a  *)
(* membership of the customer, of a subscription under way, or of one that *)
(* was cut short (memberships.service.ts:85): whatever fails, nobody has a  *)
(* membership that was not paid, or pays twice for one.                    *)
PaidForMembership ==
    \A c \in Customers, l \in Plans :
        charges[c][l] =
            Cardinality({m \in Memberships : userId[m] = c /\ plan[m] = l})
            + Cardinality({p \in Requests : pc[p] = "save" /\ who[p] = c /\ about[p] = l})
            + lost[c][l]

(* A customer has at most one membership at a time, however subscriptions, *)
(* cancellations, the cron and time alternate, unless two subscriptions of *)
(* the customer overlapped.                                                *)
OneMembership ==
    \A c \in Customers \ overlapped : \A m, n \in Active(c) : m = n

(* An order is at least as cheap as each offer that was there all the time *)
(* while it was priced, and not cheaper than all offers that were there at *)
(* any time: placeOrder reads them one after the other while they change,  *)
(* and lets the best win.                                                  *)
FairPrice ==
    \A p \in Requests : pc[p] = "priced" =>
        /\ who[p] \notin overlapped => \A x \in always[p] : x[2] <= discount[p]
        /\ discount[p] = 0 \/ \E x \in ever[p] : x[2] = discount[p]
=============================================================================
