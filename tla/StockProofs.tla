---------------------------- MODULE StockProofs ----------------------------
(***************************************************************************)
(* Proofs about Stock for any number of items, batches, sales and edits    *)
(* that overlap in any way.  The batches and the inventory of the machine  *)
(* have an invariant each: their steps leave the other half alone.         *)
(***************************************************************************)
EXTENDS Stock, FiniteSetTheorems, WellFoundedInduction, TLAPS

Fresh == fresh \in [Sales \cup Edits -> BOOLEAN]

-----------------------------------------------------------------------------
(* The batches.                                                            *)
BatchTypes ==
    /\ clock \in Nat
    /\ status \in [Slots -> {None, "active", "expired", "depleted"}]
    /\ item \in [Slots -> Items \cup {None}]
    /\ loadedAt \in [Slots -> Nat]
    /\ quantity \in [Slots -> Nat]

SaleTypes ==
    /\ pc \in [Sales -> {"idle", "placed", "read", "sold", "refused", "settled"}]
    /\ want \in [Sales -> Items \cup {None}]
    /\ units \in [Sales -> Nat]
    /\ seen \in [Sales -> Nat \cup {None}]
    /\ left \in [Sales -> Int]
    /\ priced \in [Sales -> Nat \cup {None}]

(* Batches are loaded one after the other.                                 *)
LoadingOrder ==
    /\ \A s \in Loaded : loadedAt[s] <= clock
    /\ \A s, t \in Loaded : s < t => loadedAt[s] <= loadedAt[t]

(* What is going to be written back was covered.                           *)
LeftOK(p) == pc[p] = "read" => left[p] >= 0

(* The price was that of the first batch that can be sold, and still is if *)
(* nothing was written since.                                              *)
PriceOK(p) ==
    pc[p] = "placed" /\ fresh[p]
        => priced[p] = loadedAt[First(CanSell(want[p], units[p]))]

BatchInv ==
    /\ Fresh /\ BatchTypes /\ SaleTypes /\ LoadingOrder
    /\ \A p \in Sales : LeftOK(p)
    /\ \A p \in Orders : PriceOK(p)

-----------------------------------------------------------------------------
(* The inventory.  A document that was read is still as it was unless      *)
(* something was saved since.                                              *)
InventoryTypes ==
    /\ grams \in [Items -> Int \cup {None}]
    /\ dose \in [Items -> DoseTypes]
    /\ cups \in [Items -> Int]
    /\ version \in Nat

EditTypes ==
    /\ edit \in [Edits -> {"idle", "find", "save", "done"}]
    /\ canister \in [Edits -> Items \cup {None}]
    /\ stockTo \in [Edits -> Int]
    /\ doseTo \in [Edits -> DoseTypes \cup {None}]
    /\ entry \in [Edits -> Entries \cup {None}]

Document(i) == [grams |-> grams[i], dose |-> dose[i], cups |-> cups[i], version |-> version,
                moved |-> FALSE]

(* CupsFollowGrams for one entry.                                          *)
CupsOK(i) ==
    grams[i] # None /\ dose[i] # Null /\ ~(i \in Seeded /\ AsSeeded(i))
        => cups[i] = CupsIn(grams[i], Divisor(dose[i]))

EditOK(e) ==
    /\ edit[e] \in {"find", "save"} => canister[e] \in Items
    /\ edit[e] = "save" =>
          /\ entry[e] \in Entries
          /\ entry[e].grams # None /\ ~entry[e].moved => grams[canister[e]] # None
          /\ fresh[e] => entry[e] = Document(canister[e])

InventoryInv ==
    /\ Fresh /\ InventoryTypes /\ EditTypes
    /\ mixed \in BOOLEAN
    /\ \A i \in Items : grams[i] = None => dose[i] = 0
    /\ \A e \in Edits : EditOK(e)
    /\ CupsFollowGrams

IInv == BatchInv /\ InventoryInv

-----------------------------------------------------------------------------
(* A set of natural numbers that is not empty has a first element.         *)
Less == {ss \in Nat \X Nat : ss[1] < ss[2]}

LEMMA NumbersWellFounded == IsWellFoundedOn(Less, Nat)
  BY NatLessThanWellFounded, Zenon DEF OpToRel, Less

LEMMA FirstOf ==
    ASSUME NEW S, S \subseteq Nat, S # {}
    PROVE  First(S) \in S /\ \A t \in S : First(S) <= t
<1>1. PICK x \in S : \A y \in S : ~(<<y, x>> \in Less)
  BY NumbersWellFounded, WFMin
<1>2. \A a, b \in Nat : a < b => <<a, b>> \in Less
  BY DEF Less
<1>3. ASSUME NEW y \in S PROVE x <= y
  <2>1. x \in Nat /\ y \in Nat
    OBVIOUS
  <2>2. ~(y < x)
    BY <1>1, <1>2, <2>1, Zenon
  <2> QED BY <2>1, <2>2
<1>4. \E s \in S : \A t \in S : s <= t
  BY <1>3
<1> QED BY <1>4 DEF First

LEMMA SlotsAreNumbers ==
    /\ Slots \subseteq Nat
    /\ Cardinality(Slots) \in Nat /\ \A s \in Slots : s <= Cardinality(Slots)
<1>1. Cardinality(Slots) \in Nat /\ Slots = 1 .. Cardinality(Slots)
  BY FS_CardinalityType, StockAssumption DEF StockAssumption
<1> DEFINE n == Cardinality(Slots)
<1> HIDE DEF n
<1>2. n \in Nat /\ Slots = 1 .. n
  BY <1>1 DEF n
<1>3. Slots \subseteq Nat /\ \A s \in Slots : s <= n
  BY <1>2
<1>4. \A s \in Slots : s <= Cardinality(Slots)
  BY <1>3, Zenon DEF n
<1> QED BY <1>1, <1>3, <1>4, Zenon

(* Overtaking a read makes no other read fresh.                            *)
LEMMA OvertakeAll ==
    ASSUME Fresh, Overtake({})
    PROVE  /\ Fresh' /\ \A p \in Sales : ~fresh'[p]
           /\ \A e \in Edits : fresh'[e] = fresh[e]
<1>1. \A e \in Edits : e \notin Sales
  BY StockAssumption DEF StockAssumption
<1>2. fresh' = [p \in Sales \cup Edits |-> IF p \in Sales THEN p \in {} ELSE fresh[p]]
  BY Zenon DEF Overtake
<1>3. \A p \in Sales \cup Edits : fresh[p] \in BOOLEAN
  BY DEF Fresh
<1>4. \A p \in Sales \cup Edits : fresh'[p] = IF p \in Sales THEN p \in {} ELSE fresh[p]
  BY <1>2, Zenon
<1>5. \A p \in Sales : ~fresh'[p]
  BY <1>4, Zenon
<1>6. \A e \in Edits : fresh'[e] = fresh[e]
  BY <1>1, <1>4, Zenon
<1>7. Fresh'
  <2>1. ASSUME NEW p \in Sales \cup Edits
        PROVE  (IF p \in Sales THEN p \in {} ELSE fresh[p]) \in BOOLEAN
    <3>1. CASE p \in Sales
      <4>1. (p \in {}) \in BOOLEAN
        OBVIOUS
      <4> QED BY <3>1, <4>1, Zenon
    <3>2. CASE p \notin Sales
      BY <1>3, <3>2, Zenon
    <3> QED BY <3>1, <3>2
  <2> QED BY <1>2, <2>1, Zenon DEF Fresh
<1> QED BY <1>5, <1>6, <1>7

-----------------------------------------------------------------------------
(* What a step has to leave alone.                                         *)
LEMMA InventoryKept ==
    ASSUME InventoryInv, Fresh', UNCHANGED <<inventory, edits, mixed>>,
           \A e \in Edits : fresh'[e] = fresh[e]
    PROVE  InventoryInv'
<1>1. UNCHANGED <<grams, dose, cups, version, edit, canister, stockTo, doseTo, entry, mixed>>
  BY DEF inventory, edits
<1>2. InventoryTypes' /\ EditTypes' /\ mixed' \in BOOLEAN
  BY <1>1 DEF InventoryInv, InventoryTypes, EditTypes
<1>3. \A e \in Edits : EditOK(e)'
  BY <1>1 DEF InventoryInv, EditOK, Document
<1>4. CupsFollowGrams'
  BY <1>1 DEF InventoryInv, CupsFollowGrams, AsSeeded
<1>5. \A i \in Items : grams'[i] = None => dose'[i] = 0
  BY <1>1 DEF InventoryInv
<1> QED BY <1>1, <1>2, <1>3, <1>4, <1>5 DEF InventoryInv

Untouched(p) ==
    /\ pc'[p] = pc[p] /\ want'[p] = want[p] /\ units'[p] = units[p]
    /\ left'[p] = left[p] /\ priced'[p] = priced[p]

LEMMA CanSellKept ==
    ASSUME UNCHANGED <<status, item, loadedAt, quantity>>
    PROVE  \A i, q : CanSell(i, q)' = CanSell(i, q)
  BY DEF CanSell

LEMMA SaleKept ==
    ASSUME BatchInv, UNCHANGED <<status, item, loadedAt, quantity>>,
           NEW p \in Sales, Untouched(p), fresh'[p] => fresh[p]
    PROVE  LeftOK(p)' /\ (p \in Orders => PriceOK(p)')
<1>1. LeftOK(p)'
  BY DEF BatchInv, LeftOK, Untouched
<1>2. ASSUME p \in Orders PROVE PriceOK(p)'
  <2>1. PriceOK(p)
    BY <1>2 DEF BatchInv
  <2>2. CanSell(want[p], units[p])' = CanSell(want[p], units[p])
    BY DEF CanSell, Untouched
  <2> QED BY <2>1, <2>2 DEF PriceOK, Untouched
<1> QED BY <1>1, <1>2

(* A step of one sale that writes no batch.                                *)
LEMMA SaleStep ==
    ASSUME BatchInv, NEW p \in Sales, Fresh', SaleTypes',
           UNCHANGED <<clock, status, item, loadedAt, quantity>>,
           \A q \in Sales \ {p} : Untouched(q) /\ fresh'[q] = fresh[q],
           LeftOK(p)', p \in Orders => PriceOK(p)'
    PROVE  BatchInv'
<1>1. BatchTypes' /\ LoadingOrder'
  BY DEF BatchInv, BatchTypes, LoadingOrder, Loaded
<1>2. \A q \in Sales : LeftOK(q)' /\ (q \in Orders => PriceOK(q)')
  BY SaleKept
<1> QED BY <1>1, <1>2 DEF BatchInv, Sales

(* A step that writes no batch and is none of a sale.                      *)
LEMMA BatchesKept ==
    ASSUME BatchInv, Fresh', clock' \in Nat, clock <= clock',
           UNCHANGED <<status, item, loadedAt, quantity, pc, want, units, seen, left, priced>>,
           \A p \in Sales : fresh'[p] => fresh[p]
    PROVE  BatchInv'
<1>1. BatchTypes' /\ SaleTypes'
  BY DEF BatchInv, BatchTypes, SaleTypes
<1>2. Loaded' = Loaded /\ Loaded \subseteq Slots
  BY DEF Loaded
<1>3. LoadingOrder'
  <2>1. \A s \in Loaded : loadedAt[s] \in Nat /\ clock \in Nat /\ loadedAt[s] <= clock
    BY <1>2 DEF BatchInv, BatchTypes, LoadingOrder
  <2>2. \A s \in Loaded : loadedAt[s] <= clock'
    BY <2>1
  <2> QED BY <1>2, <2>2 DEF BatchInv, LoadingOrder
<1>4. \A p \in Sales : Untouched(p)
  BY DEF Untouched
<1>5. \A p \in Sales : LeftOK(p)' /\ (p \in Orders => PriceOK(p)')
  BY <1>4, SaleKept
<1> QED BY <1>1, <1>3, <1>5 DEF BatchInv, Sales

(* A step that writes the batches: every price may be out of date.         *)
LEMMA BatchesWritten ==
    ASSUME Fresh, Overtake({}), BatchTypes', SaleTypes', LoadingOrder',
           \A p \in Sales : LeftOK(p)'
    PROVE  BatchInv'
<1>1. \A p \in Orders : PriceOK(p)'
  BY OvertakeAll DEF PriceOK, Sales
<1> QED BY <1>1, OvertakeAll DEF BatchInv

-----------------------------------------------------------------------------
(* Loading, removing and expiring batches.                                 *)
LEMMA TickInv ==
    ASSUME IInv, Tick
    PROVE  IInv'
<1> USE DEF IInv, Tick, history
<1>1. Fresh'
  BY DEF BatchInv, Fresh
<1>2. clock' \in Nat /\ clock <= clock'
  BY DEF BatchInv, BatchTypes
<1>3. BatchInv'
  BY <1>1, <1>2, BatchesKept DEF batches, sales
<1>4. InventoryInv'
  BY <1>1, InventoryKept
<1> QED BY <1>3, <1>4

(* The next batch goes behind those there are.                             *)
LEMMA NextSlot ==
    ASSUME NEW s \in Slots, s \notin Loaded,
           s = First({t \in Slots : \A l \in Loaded : l < t} \cup {Cardinality(Slots)})
    PROVE  \A l \in Loaded : l < s
<1> DEFINE T == {t \in Slots : \A l \in Loaded : l < t} \cup {Cardinality(Slots)}
<1>1. T \subseteq Nat /\ T # {}
  BY SlotsAreNumbers
<1>2. s \in T
  <2> HIDE DEF T
  <2>1. First(T) \in T
    BY <1>1, FirstOf
  <2> QED BY <2>1 DEF T
<1>3. CASE s = Cardinality(Slots)
  <2> SUFFICES ASSUME NEW l \in Loaded PROVE l < s
    OBVIOUS
  <2>1. l \in Slots /\ l # s
    BY DEF Loaded
  <2>2. l \in Nat /\ s \in Nat /\ l <= s
    BY <1>3, <2>1, SlotsAreNumbers
  <2> QED BY <2>1, <2>2
<1>4. CASE s # Cardinality(Slots)
  BY <1>2, <1>4
<1> QED BY <1>3, <1>4

LEMMA LoadBatchInv ==
    ASSUME IInv, NEW i \in Items, NEW n \in BatchSizes, NEW life \in ShelfLife,
           loadBatch(i, n, life)
    PROVE  IInv'
<1> USE DEF IInv, loadBatch
<1>1. Fresh /\ BatchTypes /\ SaleTypes /\ LoadingOrder /\ n \in Nat
  BY StockAssumption DEF BatchInv, StockAssumption
<1>2. PICK s \in Slots :
         /\ s = First({t \in Slots : \A l \in Loaded : l < t} \cup {Cardinality(Slots)})
         /\ s \notin Loaded
         /\ status' = [status EXCEPT ![s] = "active"]
         /\ item' = [item EXCEPT ![s] = i]
         /\ loadedAt' = [loadedAt EXCEPT ![s] = clock]
         /\ quantity' = [quantity EXCEPT ![s] = n]
  OBVIOUS
<1>3. BatchTypes'
  BY <1>1, <1>2 DEF BatchTypes
<1>4. \A l \in Loaded : l < s
  BY <1>2, NextSlot
<1>5. Loaded' = Loaded \cup {s}
  <2> HIDE DEF IInv, loadBatch
  <2>1. status'[s] = "active" /\ \A t \in Slots : t # s => status'[t] = status[t]
    BY <1>1, <1>2 DEF BatchTypes
  <2>2. None # "active"
    BY StockAssumption DEF StockAssumption
  <2> QED BY <2>1, <2>2 DEF Loaded
<1>6. /\ loadedAt'[s] = clock /\ clock' = clock /\ clock \in Nat
      /\ \A l \in Loaded : loadedAt'[l] = loadedAt[l] /\ l # s /\ l \in Slots /\ l \in Nat
  BY <1>1, <1>2, SlotsAreNumbers DEF Loaded, BatchTypes
<1>7. LoadingOrder'
  <2>1. \A l \in Loaded : loadedAt[l] <= clock
    BY <1>1 DEF LoadingOrder
  <2>2. \A l \in Loaded' : loadedAt'[l] <= clock'
    BY <1>5, <1>6, <2>1
  <2>3. ASSUME NEW l \in Loaded', NEW m \in Loaded', l < m
        PROVE  loadedAt'[l] <= loadedAt'[m]
    <3>1. CASE m = s
      BY <1>5, <1>6, <2>1, <3>1
    <3>2. CASE m # s /\ l # s
      BY <1>1, <1>5, <1>6, <2>3, <3>2 DEF LoadingOrder
    <3>3. CASE m # s /\ l = s
      <4>1. m < s /\ m \in Nat /\ s \in Nat
        BY <1>4, <1>5, <1>6, <3>3, SlotsAreNumbers
      <4> QED BY <2>3, <3>3, <4>1
    <3> QED BY <3>1, <3>2, <3>3
  <2> QED BY <2>2, <2>3 DEF LoadingOrder
<1>8. SaleTypes' /\ \A p \in Sales : LeftOK(p)'
  BY <1>1 DEF BatchInv, SaleTypes, LeftOK, sales
<1>9. BatchInv'
  BY <1>1, <1>3, <1>7, <1>8, BatchesWritten
<1>10. InventoryInv'
  BY <1>1, OvertakeAll, InventoryKept
<1> QED BY <1>9, <1>10

LEMMA RemoveBatchInv ==
    ASSUME IInv, NEW id \in 0 .. MaxClock, removeBatch(id)
    PROVE  IInv'
<1> USE DEF IInv, removeBatch
<1>1. Fresh /\ BatchTypes /\ SaleTypes /\ LoadingOrder
  BY DEF BatchInv
<1>2. BatchTypes'
  BY <1>1 DEF BatchTypes
<1>3. Loaded' = Loaded \ WithId(id) /\ Loaded \subseteq Slots
  BY <1>1 DEF Loaded, WithId, BatchTypes
<1>4. \A l \in Loaded' : loadedAt'[l] = loadedAt[l]
  BY <1>3
<1>5. LoadingOrder'
  BY <1>1, <1>3, <1>4 DEF LoadingOrder
<1>6. SaleTypes' /\ \A p \in Sales : LeftOK(p)'
  BY <1>1 DEF BatchInv, SaleTypes, LeftOK, sales
<1>7. BatchInv'
  BY <1>1, <1>2, <1>5, <1>6, BatchesWritten
<1>8. InventoryInv'
  BY <1>1, OvertakeAll, InventoryKept
<1> QED BY <1>7, <1>8

LEMMA ExpiryInv ==
    ASSUME IInv, checkBatchExpiry
    PROVE  IInv'
<1> USE DEF IInv, checkBatchExpiry
<1>1. Fresh /\ BatchTypes /\ SaleTypes /\ LoadingOrder
  BY DEF BatchInv
<1>2. BatchTypes'
  BY <1>1 DEF BatchTypes
<1>3. Loaded' = Loaded
  BY <1>1, StockAssumption DEF Loaded, Due, BatchTypes, StockAssumption
<1>4. LoadingOrder'
  BY <1>1, <1>3 DEF LoadingOrder
<1>5. SaleTypes' /\ \A p \in Sales : LeftOK(p)'
  BY <1>1 DEF BatchInv, SaleTypes, LeftOK, sales
<1>6. BatchInv'
  BY <1>1, <1>2, <1>4, <1>5, BatchesWritten
<1>7. InventoryInv'
  BY <1>1, OvertakeAll, InventoryKept
<1> QED BY <1>6, <1>7

-----------------------------------------------------------------------------
(* Sales.                                                                  *)
LEMMA SaleNumbers ==
    /\ Quantities \subseteq Nat
    /\ \A p \in Orders : p \in Sales /\ p \notin Unloads /\ p \notin Edits
    /\ \A p \in Unloads : p \in Sales /\ p \notin Orders /\ p \notin Edits
    /\ \A p \in Sales : p \notin Edits
  BY StockAssumption DEF StockAssumption, Sales

LEMMA PlaceOrderInv ==
    ASSUME IInv, NEW p \in Orders, NEW i \in Items, NEW n \in Quantities,
           placeOrder(p, i, n)
    PROVE  IInv'
<1> USE DEF IInv, placeOrder
<1>1. Fresh /\ BatchTypes /\ SaleTypes /\ p \in Sales /\ n \in Nat /\ p \notin Edits
  BY SaleNumbers DEF BatchInv
<1>2. UNCHANGED <<clock, status, item, loadedAt, quantity, seen, left>>
  BY DEF batches
<1>3. loadedAt[First(CanSell(i, n))] \in Nat
  <2>1. CanSell(i, n) \subseteq Slots /\ CanSell(i, n) # {}
    BY DEF CanSell
  <2>2. First(CanSell(i, n)) \in Slots
    BY <2>1, FirstOf, SlotsAreNumbers
  <2> QED BY <1>1, <2>2 DEF BatchTypes
<1>4. Fresh' /\ fresh'[p] /\ \A q \in (Sales \cup Edits) \ {p} : fresh'[q] = fresh[q]
  BY <1>1 DEF Fresh
<1>5. SaleTypes'
  BY <1>1, <1>2, <1>3 DEF SaleTypes
<1>6. \A q \in Sales \ {p} : Untouched(q) /\ fresh'[q] = fresh[q]
  BY <1>1, <1>2, <1>4 DEF Untouched, SaleTypes
<1>7. LeftOK(p)'
  BY <1>1 DEF LeftOK, SaleTypes
<1>8. PriceOK(p)'
  <2>1. want'[p] = i /\ units'[p] = n /\ priced'[p] = loadedAt[First(CanSell(i, n))]
    BY <1>1 DEF SaleTypes
  <2>2. CanSell(want[p], units[p])' = CanSell(i, n)
    BY <1>2, <2>1 DEF CanSell
  <2> QED BY <1>2, <2>1, <2>2 DEF PriceOK
<1>9. BatchInv'
  BY <1>1, <1>2, <1>4, <1>5, <1>6, <1>7, <1>8, SaleStep
<1>10. InventoryInv'
  BY <1>1, <1>4, InventoryKept
<1> QED BY <1>9, <1>10

LEMMA UnloadInv ==
    ASSUME IInv, NEW p \in Unloads, NEW i \in Items, NEW n \in Quantities,
           unload(p, i, n)
    PROVE  IInv'
<1> USE DEF IInv, unload
<1>1. Fresh /\ SaleTypes /\ p \in Sales /\ n \in Nat /\ p \notin Edits /\ p \notin Orders
  BY SaleNumbers DEF BatchInv
<1>2. UNCHANGED <<clock, status, item, loadedAt, quantity, seen, left, priced, fresh, mixed>>
  BY DEF batches, history
<1>3. Fresh'
  BY <1>1, <1>2 DEF Fresh
<1>4. SaleTypes'
  BY <1>1, <1>2 DEF SaleTypes
<1>5. \A q \in Sales \ {p} : Untouched(q) /\ fresh'[q] = fresh[q]
  BY <1>1, <1>2 DEF Untouched, SaleTypes
<1>6. LeftOK(p)'
  BY <1>1 DEF LeftOK, SaleTypes
<1>7. BatchInv'
  BY <1>1, <1>2, <1>3, <1>4, <1>5, <1>6, SaleStep
<1>8. InventoryInv'
  BY <1>2, <1>3, InventoryKept
<1> QED BY <1>7, <1>8

LEMMA FindBatchInv ==
    ASSUME IInv, NEW p \in Sales, findBatch(p)
    PROVE  IInv'
<1> USE DEF IInv
<1> DEFINE active == CanSell(want[p], units[p])
<1>1. Fresh /\ BatchTypes /\ SaleTypes /\ p \notin Edits /\ pc[p] = "placed"
  BY SaleNumbers DEF BatchInv, findBatch
<1>2. UNCHANGED <<clock, status, item, loadedAt, quantity, want, units, priced,
                  inventory, edits, mixed>>
  BY DEF findBatch, batches
<1>3. \/ pc' = [pc EXCEPT ![p] = "refused"] /\ UNCHANGED <<seen, left, fresh>>
      \/ \E s \in Oldest(active) :
            /\ seen' = [seen EXCEPT ![p] = loadedAt[s]]
            /\ left' = [left EXCEPT ![p] = quantity[s] - units[p]]
            /\ pc' = [pc EXCEPT ![p] = "read"]
            /\ fresh' = [fresh EXCEPT ![p] = TRUE]
  BY DEF findBatch
<1>4. Fresh' /\ \A q \in (Sales \cup Edits) \ {p} : fresh'[q] = fresh[q]
  BY <1>1, <1>3 DEF Fresh
<1>5. SaleTypes' /\ LeftOK(p)' /\ pc'[p] # "placed"
  <2>1. CASE pc' = [pc EXCEPT ![p] = "refused"] /\ UNCHANGED <<seen, left, fresh>>
    BY <1>1, <1>2, <2>1 DEF SaleTypes, LeftOK
  <2>2. ASSUME NEW s \in Oldest(active),
               seen' = [seen EXCEPT ![p] = loadedAt[s]],
               left' = [left EXCEPT ![p] = quantity[s] - units[p]],
               pc' = [pc EXCEPT ![p] = "read"]
        PROVE  SaleTypes' /\ LeftOK(p)' /\ pc'[p] # "placed"
    <3>1. s \in Slots /\ quantity[s] >= units[p]
      BY DEF Oldest, CanSell
    <3>2. loadedAt[s] \in Nat /\ quantity[s] - units[p] \in Nat
      BY <1>1, <3>1 DEF BatchTypes, SaleTypes
    <3> HIDE DEF active
    <3> QED BY <1>1, <1>2, <2>2, <3>2 DEF SaleTypes, LeftOK
  <2> QED BY <1>3, <2>1, <2>2
<1>6. \A q \in Sales \ {p} : Untouched(q) /\ fresh'[q] = fresh[q]
  BY <1>1, <1>2, <1>3, <1>4 DEF Untouched, SaleTypes
<1>7. BatchInv'
  BY <1>1, <1>2, <1>4, <1>5, <1>6, SaleStep DEF PriceOK
<1>8. InventoryInv'
  BY <1>1, <1>2, <1>4, InventoryKept
<1> QED BY <1>7, <1>8

LEMMA TakeBatchInv ==
    ASSUME IInv, NEW p \in Sales, takeBatch(p)
    PROVE  IInv'
<1> USE DEF IInv, takeBatch
<1>1. Fresh /\ BatchTypes /\ SaleTypes /\ LoadingOrder
  BY DEF BatchInv
<1>2. left[p] \in Nat
  BY <1>1 DEF BatchInv, LeftOK, SaleTypes
<1>3. UNCHANGED <<clock, item, loadedAt, want, units>>
  OBVIOUS
<1>4. \/ UNCHANGED <<quantity, status>>
      \/ \E s \in Loaded :
            /\ quantity' = [quantity EXCEPT ![s] = left[p]]
            /\ status' = [status EXCEPT ![s] = IF left[p] <= 0 THEN "depleted" ELSE @]
  <2>1. CASE WithId(seen[p]) = {}
    BY <2>1
  <2>2. CASE WithId(seen[p]) # {}
    <3>1. WithId(seen[p]) \subseteq Loaded /\ Loaded \subseteq Slots
      BY DEF WithId, Loaded
    <3>2. First(WithId(seen[p])) \in Loaded
      BY <2>2, <3>1, FirstOf, SlotsAreNumbers
    <3> QED BY <2>2, <3>2
  <2> QED BY <2>1, <2>2
<1> HIDE DEF takeBatch
<1>5. BatchTypes' /\ Loaded' = Loaded
  <2>1. CASE UNCHANGED <<quantity, status>>
    BY <1>1, <1>3, <2>1 DEF BatchTypes, Loaded
  <2>2. ASSUME NEW s \in Loaded,
               quantity' = [quantity EXCEPT ![s] = left[p]],
               status' = [status EXCEPT ![s] = IF left[p] <= 0 THEN "depleted" ELSE @]
        PROVE  BatchTypes' /\ Loaded' = Loaded
    <3>1. "depleted" # None
      BY StockAssumption DEF StockAssumption
    <3> QED BY <1>1, <1>2, <1>3, <2>2, <3>1 DEF BatchTypes, Loaded
  <2> QED BY <1>4, <2>1, <2>2
<1>6. LoadingOrder'
  BY <1>1, <1>3, <1>5 DEF LoadingOrder
<1>7. SaleTypes' /\ \A q \in Sales : LeftOK(q)'
  BY <1>1 DEF BatchInv, SaleTypes, LeftOK, takeBatch
<1>8. Overtake({}) /\ UNCHANGED <<inventory, edits, mixed>>
  BY DEF takeBatch
<1>9. BatchInv'
  BY <1>1, <1>5, <1>6, <1>7, <1>8, BatchesWritten
<1>10. InventoryInv'
  BY <1>1, <1>8, OvertakeAll, InventoryKept
<1> QED BY <1>9, <1>10

LEMMA SettleInv ==
    ASSUME IInv, NEW p \in Orders, settle(p)
    PROVE  IInv'
<1> USE DEF IInv, settle
<1>1. Fresh /\ SaleTypes /\ p \in Sales
  BY SaleNumbers DEF BatchInv
<1>2. UNCHANGED <<clock, status, item, loadedAt, quantity, want, units, seen, left, priced,
                  fresh, mixed>>
  BY DEF batches, history
<1>3. Fresh' /\ SaleTypes'
  BY <1>1, <1>2 DEF Fresh, SaleTypes
<1>4. \A q \in Sales \ {p} : Untouched(q) /\ fresh'[q] = fresh[q]
  BY <1>1, <1>2 DEF Untouched, SaleTypes
<1>5. LeftOK(p)' /\ PriceOK(p)'
  BY <1>1 DEF LeftOK, PriceOK, SaleTypes
<1>6. BatchInv'
  BY <1>1, <1>2, <1>3, <1>4, <1>5, SaleStep
<1>7. InventoryInv'
  BY <1>2, <1>3, InventoryKept
<1> QED BY <1>6, <1>7

LEMMA TimeOutInv ==
    ASSUME IInv, NEW p \in Orders, timeOut(p)
    PROVE  IInv'
<1> USE DEF IInv, timeOut
<1>1. UNCHANGED <<clock, status, item, loadedAt, quantity, pc, want, units, seen, left, priced,
                  fresh, mixed>>
  BY DEF batches, history
<1>2. Fresh' /\ clock' \in Nat /\ clock <= clock'
  BY <1>1 DEF BatchInv, Fresh, BatchTypes
<1>3. BatchInv'
  BY <1>1, <1>2, BatchesKept
<1>4. InventoryInv'
  BY <1>1, <1>2, InventoryKept
<1> QED BY <1>3, <1>4

-----------------------------------------------------------------------------
(* Restorations write to one of the slots of a batch.                      *)
LEMMA PositionalSlots ==
    ASSUME NEW C, \A c \in C : c \subseteq Loaded
    PROVE  Positional(C) \subseteq Loaded
<1> SUFFICES ASSUME NEW s \in Positional(C) PROVE s \in Loaded
  OBVIOUS
<1>1. {} \notin C
  BY DEF Positional
<1>2. PICK c \in C : s = First(c)
  BY <1>1 DEF Positional
<1>3. c # {} /\ c \subseteq Nat
  BY <1>1, SlotsAreNumbers DEF Loaded
<1> QED BY <1>2, <1>3, FirstOf

LEMMA RestoreInv ==
    ASSUME IInv, NEW p \in Orders, restoreBatchStock(p)
    PROVE  IInv'
<1> USE DEF IInv, restoreBatchStock
<1> DEFINE found == Positional({OfItem(want[p]), InStatus({"active", "depleted"})})
<1>1. Fresh /\ BatchTypes /\ SaleTypes /\ LoadingOrder /\ p \in Sales
  BY SaleNumbers DEF BatchInv
<1>2. UNCHANGED <<clock, status, item, loadedAt, pc, want, units, seen, left, priced,
                  inventory, edits, mixed>>
  OBVIOUS
<1>3. CASE UNCHANGED <<quantity, fresh>>
  <2>1. Fresh' /\ clock' \in Nat /\ clock <= clock'
    BY <1>1, <1>2, <1>3 DEF Fresh, BatchTypes
  <2>2. BatchInv'
    BY <1>2, <1>3, <2>1, BatchesKept
  <2>3. InventoryInv'
    BY <1>2, <1>3, <2>1, InventoryKept
  <2> QED BY <2>2, <2>3
<1>4. ASSUME NEW s \in found, quantity' = [quantity EXCEPT ![s] = @ + units[p]], Overtake({})
      PROVE  IInv'
  <2>1. "active" # None /\ "depleted" # None
    BY StockAssumption DEF StockAssumption
  <2>2. OfItem(want[p]) \subseteq Loaded /\ InStatus({"active", "depleted"}) \subseteq Loaded
    BY <2>1 DEF OfItem, InStatus, Loaded
  <2>3. s \in Slots
    BY <2>2, PositionalSlots DEF Loaded
  <2>4. quantity[s] + units[p] \in Nat
    BY <1>1, <2>3 DEF BatchTypes, SaleTypes
  <2>5. BatchTypes'
    BY <1>1, <1>2, <1>4, <2>4 DEF BatchTypes
  <2>6. LoadingOrder' /\ SaleTypes' /\ \A q \in Sales : LeftOK(q)'
    BY <1>1, <1>2 DEF BatchInv, LoadingOrder, Loaded, SaleTypes, LeftOK
  <2>7. BatchInv'
    BY <1>1, <1>4, <2>5, <2>6, BatchesWritten
  <2>8. InventoryInv'
    BY <1>1, <1>2, <1>4, OvertakeAll, InventoryKept
  <2> QED BY <2>7, <2>8
<1> QED BY <1>3, <1>4

LEMMA ReactivateInv ==
    ASSUME IInv, NEW p \in Orders, reactivateBatch(p)
    PROVE  IInv'
<1> USE DEF IInv, reactivateBatch
<1> DEFINE found == Positional({OfItem(want[p]), InStatus({"depleted"}),
                                {s \in Loaded : quantity[s] > 0}})
<1>1. Fresh /\ BatchTypes /\ SaleTypes /\ LoadingOrder
  BY DEF BatchInv
<1>2. UNCHANGED <<clock, item, loadedAt, quantity, pc, want, units, seen, left, priced,
                  inventory, edits, mixed>>
  OBVIOUS
<1>3. CASE UNCHANGED <<status, fresh>>
  <2>1. Fresh' /\ clock' \in Nat /\ clock <= clock'
    BY <1>1, <1>2, <1>3 DEF Fresh, BatchTypes
  <2>2. BatchInv'
    BY <1>2, <1>3, <2>1, BatchesKept
  <2>3. InventoryInv'
    BY <1>2, <1>3, <2>1, InventoryKept
  <2> QED BY <2>2, <2>3
<1>4. ASSUME NEW s \in found, status' = [status EXCEPT ![s] = "active"], Overtake({})
      PROVE  IInv'
  <2>1. "active" # None /\ "depleted" # None
    BY StockAssumption DEF StockAssumption
  <2>2. OfItem(want[p]) \subseteq Loaded /\ InStatus({"depleted"}) \subseteq Loaded
    BY <2>1 DEF OfItem, InStatus, Loaded
  <2>3. s \in Loaded
    BY <2>2, PositionalSlots
  <2>4. BatchTypes' /\ Loaded' = Loaded
    BY <1>1, <1>2, <1>4, <2>1, <2>3 DEF BatchTypes, Loaded
  <2>5. LoadingOrder' /\ SaleTypes' /\ \A q \in Sales : LeftOK(q)'
    BY <1>1, <1>2, <2>4 DEF BatchInv, LoadingOrder, SaleTypes, LeftOK
  <2>6. BatchInv'
    BY <1>1, <1>4, <2>4, <2>5, BatchesWritten
  <2>7. InventoryInv'
    BY <1>1, <1>2, <1>4, OvertakeAll, InventoryKept
  <2> QED BY <2>6, <2>7
<1> QED BY <1>3, <1>4

-----------------------------------------------------------------------------
(* Edits of the inventory.                                                 *)
LEMMA InventoryFacts ==
    /\ DefaultDose \in Nat \ {0} /\ Cups \subseteq Nat /\ MaxGrams \in Nat
    /\ Stocks \subseteq Int /\ Doses \subseteq Int
    /\ Seeded \subseteq Items /\ SeedStock \in Nat /\ SeedDose \in Nat \ {0}
    /\ None \notin Items /\ None \notin Int /\ Null \notin Int /\ None # Null
  BY StockAssumption DEF StockAssumption

LEMMA QuotientType ==
    ASSUME NEW g \in Int, NEW n \in Int, n # 0
    PROVE  CupsIn(g, n) \in Int
<1>1. CASE n > 0
  <2>1. g \div n \in Int
    BY <1>1
  <2> QED BY <1>1, <2>1 DEF CupsIn
<1>2. CASE ~(n > 0)
  <2> DEFINE m == -n
             h == -g
  <2>1. m \in Int /\ m > 0 /\ h \in Int
    BY <1>2
  <2> HIDE DEF m, h
  <2>2. h \div m \in Int
    BY <2>1
  <2>3. CupsIn(g, n) = h \div m
    BY <1>2 DEF CupsIn, m, h
  <2> QED BY <2>2, <2>3
<1> QED BY <1>1, <1>2

LEMMA CupsType ==
    ASSUME NEW g \in Int, NEW d \in DoseTypes
    PROVE  CupsIn(g, Divisor(d)) \in Int
<1>1. Divisor(d) \in Int /\ Divisor(d) # 0
  BY InventoryFacts DEF Divisor, DoseTypes
<1> QED BY <1>1, QuotientType

LEMMA CupsFollow == CupsFollowGrams <=> mixed \/ \A i \in Items : CupsOK(i)
  BY DEF CupsFollowGrams, CupsOK

LEMMA CupsFollowNext == CupsFollowGrams' <=> mixed' \/ \A i \in Items : CupsOK(i)'
  BY DEF CupsFollowGrams, CupsOK

LEMMA CupsKept ==
    ASSUME NEW i \in Items, grams'[i] = grams[i], dose'[i] = dose[i], cups'[i] = cups[i]
    PROVE  CupsOK(i)' <=> CupsOK(i)
  BY DEF CupsOK, AsSeeded

LEMMA DocumentType ==
    ASSUME InventoryTypes, NEW i \in Items
    PROVE  Document(i) \in Entries
  BY DEF Document, InventoryTypes, Entries

(* Starting an edit, or reading the document again.                        *)
LEMMA EditStarts ==
    ASSUME IInv, NEW e \in Edits, NEW i \in Items,
           UNCHANGED <<clock, batches, sales, inventory, mixed>>,
           fresh' = [fresh EXCEPT ![e] = TRUE], canister' = [canister EXCEPT ![e] = i],
           EditTypes',
           \A f \in Edits \ {e} : edit'[f] = edit[f] /\ entry'[f] = entry[f],
           \/ edit'[e] = "find"
           \/ edit'[e] = "save" /\ entry'[e] = Document(i)
    PROVE  IInv'
<1>1. Fresh /\ InventoryTypes /\ EditTypes /\ e \notin Sales
  BY SaleNumbers DEF IInv, InventoryInv
<1>2. Fresh' /\ \A p \in (Sales \cup Edits) \ {e} : fresh'[p] = fresh[p]
  BY <1>1 DEF Fresh
<1>3. UNCHANGED <<clock, status, item, loadedAt, quantity, pc, want, units, seen, left, priced,
                  grams, dose, cups, version>>
  BY DEF batches, sales, inventory
<1>4. BatchInv'
  <2>1. clock' \in Nat /\ clock <= clock'
    BY <1>3 DEF IInv, BatchInv, BatchTypes
  <2>2. \A p \in Sales : fresh'[p] => fresh[p]
    BY <1>1, <1>2
  <2> QED BY <1>2, <1>3, <2>1, <2>2, BatchesKept DEF IInv
<1>5. InventoryTypes' /\ CupsFollowGrams' /\ \A j \in Items : grams'[j] = None => dose'[j] = 0
  BY <1>3 DEF IInv, InventoryInv, InventoryTypes, CupsFollowGrams, AsSeeded
<1>6. \A f \in Edits \ {e} : EditOK(f)'
  <2> SUFFICES ASSUME NEW f \in Edits \ {e} PROVE EditOK(f)'
    OBVIOUS
  <2>1. EditOK(f) /\ canister'[f] = canister[f] /\ fresh'[f] = fresh[f]
    BY <1>1, <1>2 DEF IInv, InventoryInv, EditTypes
  <2> QED BY <1>3, <2>1 DEF EditOK, Document
<1>7. EditOK(e)'
  <2>1. canister'[e] = i
    BY <1>1 DEF EditTypes
  <2>2. Document(i) \in Entries /\ Document(i)' = Document(i)
    BY <1>1, <1>3, DocumentType DEF Document
  <2>3. Document(i).grams = grams[i] /\ grams' = grams
    BY <1>3 DEF Document
  <2> QED BY <2>1, <2>2, <2>3 DEF EditOK
<1>8. mixed' \in BOOLEAN
  BY DEF IInv, InventoryInv
<1>9. \A f \in Edits : EditOK(f)'
  BY <1>6, <1>7
<1>10. InventoryInv'
  BY <1>2, <1>5, <1>8, <1>9, Zenon DEF InventoryInv
<1> QED BY <1>4, <1>10 DEF IInv

LEMMA UpdateStockInv ==
    ASSUME IInv, NEW e \in Edits, NEW i \in Items, NEW n \in Cups, NEW load \in BOOLEAN,
           updateMachineStock(e, i, n, load)
    PROVE  IInv'
<1> DEFINE change == n * DoseOf(i)
           target == IF load THEN grams[i] + change
                     ELSE IF change < grams[i] THEN grams[i] - change ELSE 0
<1>1. InventoryTypes /\ EditTypes /\ grams[i] \in Int /\ n \in Nat
  BY InventoryFacts DEF IInv, InventoryInv, InventoryTypes, updateMachineStock
<1>2. DoseOf(i) \in Int
  BY <1>1, InventoryFacts DEF DoseOf, InventoryTypes, DoseTypes
<1>3. change \in Int
  <2> DEFINE d == DoseOf(i)
  <2> HIDE DEF d
  <2>1. n * d \in Int
    BY <1>1, <1>2 DEF d
  <2> QED BY <2>1 DEF d
<1>4. target \in Int
  <2> HIDE DEF change
  <2> QED BY <1>1, <1>3
<1>5. /\ StartEdit(e, i, target, DoseOf(i))
      /\ edit' = [edit EXCEPT ![e] = "find"] /\ UNCHANGED entry
  BY DEF updateMachineStock
<1> HIDE DEF target
<1>6. EditTypes'
  BY <1>1, <1>2, <1>4, <1>5 DEF EditTypes, StartEdit, DoseTypes
<1>7. edit'[e] = "find" /\ \A f \in Edits \ {e} : edit'[f] = edit[f]
  BY <1>1, <1>5 DEF EditTypes
<1> QED BY <1>5, <1>6, <1>7, EditStarts DEF StartEdit

LEMMA UpdateInventoryInv ==
    ASSUME IInv, NEW e \in Edits, NEW i \in Items, NEW g \in Stocks,
           NEW d \in Doses \cup {None, Null}, updateInventory(e, i, g, d)
    PROVE  IInv'
<1>1. InventoryTypes /\ EditTypes /\ g \in Int /\ d \in DoseTypes \cup {None}
  BY InventoryFacts DEF IInv, InventoryInv, DoseTypes
<1>2. /\ StartEdit(e, i, g, d) /\ edit' = [edit EXCEPT ![e] = "save"]
      /\ entry' = [entry EXCEPT ![e] = Document(i)]
  BY DEF updateInventory, Read, Document
<1>3. Document(i) \in Entries
  BY <1>1, DocumentType
<1>4. EditTypes'
  BY <1>1, <1>2, <1>3 DEF EditTypes, StartEdit
<1>5. /\ edit'[e] = "save" /\ entry'[e] = Document(i)
      /\ \A f \in Edits \ {e} : edit'[f] = edit[f] /\ entry'[f] = entry[f]
  BY <1>1, <1>2 DEF EditTypes
<1> QED BY <1>2, <1>4, <1>5, EditStarts DEF StartEdit

LEMMA FindInventoryInv ==
    ASSUME IInv, NEW e \in Edits, findInventory(e)
    PROVE  IInv'
<1> DEFINE i == canister[e]
<1>1. InventoryTypes /\ EditTypes /\ i \in Items
  BY DEF IInv, InventoryInv, EditOK, findInventory
<1>2. /\ edit' = [edit EXCEPT ![e] = "save"]
      /\ entry' = [entry EXCEPT ![e] = Document(i)]
      /\ UNCHANGED <<clock, batches, sales, inventory, mixed, canister, stockTo, doseTo>>
      /\ fresh' = [fresh EXCEPT ![e] = TRUE]
  BY DEF findInventory, Read, Document
<1>3. Document(i) \in Entries
  BY <1>1, DocumentType
<1>4. EditTypes'
  BY <1>1, <1>2, <1>3 DEF EditTypes
<1>5. /\ edit'[e] = "save" /\ entry'[e] = Document(i)
      /\ \A f \in Edits \ {e} : edit'[f] = edit[f] /\ entry'[f] = entry[f]
  BY <1>1, <1>2 DEF EditTypes
<1>6. canister' = [canister EXCEPT ![e] = i]
  BY <1>1, <1>2 DEF EditTypes
<1> HIDE DEF i
<1> QED BY <1>1, <1>2, <1>4, <1>5, <1>6, EditStarts

(* A write of the inventory makes what every edit has read stale.          *)
LEMMA EditsOvertaken ==
    ASSUME Fresh, OvertakeEdits
    PROVE  /\ Fresh' /\ \A p \in Sales : fresh'[p] => fresh[p]
           /\ \A f \in Edits : ~fresh'[f]
<1>1. fresh' = [p \in Sales \cup Edits |-> p \in Sales /\ fresh[p]]
  BY Zenon DEF OvertakeEdits
<1>2. \A p \in Sales \cup Edits : fresh'[p] <=> p \in Sales /\ fresh[p]
  BY <1>1, Zenon
<1>3. \A p \in Sales \cup Edits : (p \in Sales /\ fresh[p]) \in BOOLEAN
  OBVIOUS
<1>4. Fresh'
  BY <1>1, <1>3, Zenon DEF Fresh
<1>5. \A f \in Edits : f \notin Sales
  BY SaleNumbers
<1>6. \A p \in Sales : fresh'[p] => fresh[p]
  BY <1>2, Zenon
<1>7. \A f \in Edits : ~fresh'[f]
  BY <1>2, <1>5, Zenon
<1> QED BY <1>4, <1>6, <1>7

LEMMA CupsSaved ==
    ASSUME InventoryInv, NEW e \in Edits,
           mixed' = (mixed \/ (~fresh[e] /\ inventory' # inventory)),
           fresh[e] /\ ~mixed => \A j \in Items : CupsOK(j)'
    PROVE  CupsFollowGrams'
<1>1. CASE mixed
  BY <1>1, Zenon DEF CupsFollowGrams
<1>2. CASE ~fresh[e] /\ inventory' # inventory
  BY <1>2, Zenon DEF CupsFollowGrams
<1>3. CASE fresh[e] /\ ~mixed
  BY <1>3, CupsFollowNext, Zenon
<1>4. CASE ~mixed /\ inventory' = inventory
  <2>1. UNCHANGED <<grams, dose, cups>>
    BY <1>4 DEF inventory
  <2>2. \A j \in Items : CupsOK(j)
    BY <1>4, CupsFollow DEF InventoryInv
  <2>3. \A j \in Items : CupsOK(j)'
    BY <2>1, <2>2, CupsKept
  <2> QED BY <2>3, CupsFollowNext, Zenon
<1> QED BY <1>1, <1>2, <1>3, <1>4

LEMMA EditSaved ==
    ASSUME IInv, NEW e \in Edits, Saved(e), InventoryTypes',
           \A j \in Items : grams'[j] = None => dose'[j] = 0,
           \A j \in Items : grams[j] # None => grams'[j] # None,
           fresh[e] /\ ~mixed => \A j \in Items : CupsOK(j)'
    PROVE  IInv'
<1>1. Fresh /\ EditTypes
  BY DEF IInv, InventoryInv
<1>2. Fresh' /\ (\A p \in Sales : fresh'[p] => fresh[p]) /\ \A f \in Edits : ~fresh'[f]
  BY <1>1, EditsOvertaken DEF Saved
<1>3. UNCHANGED <<clock, status, item, loadedAt, quantity, pc, want, units, seen, left, priced>>
  BY DEF Saved, batches, sales
<1>4. BatchInv'
  <2>1. clock' \in Nat /\ clock <= clock'
    BY <1>3 DEF IInv, BatchInv, BatchTypes
  <2> QED BY <1>2, <1>3, <2>1, BatchesKept DEF IInv
<1>5. mixed' = (mixed \/ (~fresh[e] /\ inventory' # inventory))
  BY Zenon DEF Saved
<1>6. mixed' \in BOOLEAN /\ CupsFollowGrams'
  <2>1. (mixed \/ (~fresh[e] /\ inventory' # inventory)) \in BOOLEAN
    OBVIOUS
  <2>2. mixed' \in BOOLEAN
    BY <1>5, <2>1, Zenon
  <2> QED BY <1>5, <2>2, CupsSaved DEF IInv
<1>7. EditTypes'
  BY <1>1 DEF EditTypes, Saved
<1>8. \A f \in Edits : EditOK(f)'
  <2> SUFFICES ASSUME NEW f \in Edits PROVE EditOK(f)'
    OBVIOUS
  <2>1. EditOK(f) /\ canister'[f] = canister[f] /\ ~fresh'[f]
    BY <1>2 DEF IInv, InventoryInv, Saved
  <2>2. CASE f = e
    BY <1>1, <2>2 DEF EditOK, EditTypes, Saved
  <2>3. CASE f # e
    <3>1. edit'[f] = edit[f] /\ entry'[f] = entry[f]
      BY <1>1, <2>3 DEF EditTypes, Saved
    <3> QED BY <2>1, <3>1 DEF EditOK
  <2> QED BY <2>2, <2>3
<1> QED BY <1>2, <1>4, <1>6, <1>7, <1>8 DEF IInv, InventoryInv

(* The number of cups that a save is about to store.                       *)
LEMMA CupsToSave ==
    ASSUME IInv, NEW e \in Edits, edit[e] = "save"
    PROVE  /\ canister[e] \in Items /\ stockTo[e] \in Int
           /\ doseTo[e] \in DoseTypes \cup {None} /\ entry[e] \in Entries
           /\ CupsFor(e) \in Int
<1>1. EditTypes /\ EditOK(e)
  BY DEF IInv, InventoryInv
<1>2. /\ canister[e] \in Items /\ stockTo[e] \in Int
      /\ doseTo[e] \in DoseTypes \cup {None} /\ entry[e] \in Entries
  BY <1>1 DEF EditTypes, EditOK
<1> DEFINE d == IF Given(e) THEN doseTo[e] ELSE entry[e].dose
<1>3. d \in DoseTypes
  BY <1>2 DEF Given, Entries
<1>4. CupsFor(e) = CupsIn(stockTo[e], Divisor(d))
  BY DEF CupsFor
<1> HIDE DEF d
<1> QED BY <1>2, <1>3, <1>4, CupsType

LEMMA PushInv ==
    ASSUME IInv, NEW e \in Edits, pushInventory(e)
    PROVE  IInv'
<1>0. PICK i \in Items : i = canister[e]
  BY DEF IInv, InventoryInv, EditOK, pushInventory
<1>1. /\ Saved(e) /\ edit[e] = "save" /\ entry[e].grams = None /\ version' = version + 1
      /\ \/ grams[i] # None /\ UNCHANGED <<grams, dose, cups>>
         \/ /\ grams[i] = None
            /\ grams' = [grams EXCEPT ![i] = stockTo[e]]
            /\ cups' = [cups EXCEPT ![i] = CupsFor(e)]
            /\ dose' = [dose EXCEPT ![i] = IF Given(e) THEN doseTo[e] ELSE DefaultDose]
  BY <1>0 DEF pushInventory
<1>2. /\ stockTo[e] \in Int /\ doseTo[e] \in DoseTypes \cup {None} /\ CupsFor(e) \in Int
  BY <1>1, CupsToSave
<1>3. /\ InventoryTypes /\ EditOK(e)
      /\ \A j \in Items : grams[j] = None => dose[j] = 0
  BY DEF IInv, InventoryInv
<1>4. (IF Given(e) THEN doseTo[e] ELSE DefaultDose) \in Int
  BY <1>2, InventoryFacts DEF Given, DoseTypes
<1>5. InventoryTypes'
  BY <1>1, <1>2, <1>3, <1>4 DEF InventoryTypes, DoseTypes
<1>6. \A j \in Items : grams'[j] = None => dose'[j] = 0
  BY <1>1, <1>2, <1>3, InventoryFacts DEF InventoryTypes
<1>7. ASSUME fresh[e], ~mixed, NEW j \in Items PROVE CupsOK(j)'
  <2>1. entry[e] = Document(i)
    BY <1>0, <1>1, <1>3, <1>7 DEF EditOK
  <2>2. grams[i] = None /\ entry[e].dose = 0
    BY <1>1, <1>3, <2>1 DEF Document
  <2>3. CASE j = i
    <3>1. /\ grams'[i] = stockTo[e] /\ cups'[i] = CupsFor(e)
          /\ dose'[i] = IF Given(e) THEN doseTo[e] ELSE DefaultDose
      BY <1>1, <1>3, <2>2 DEF InventoryTypes
    <3>2. Divisor(dose'[i]) = Divisor(IF Given(e) THEN doseTo[e] ELSE entry[e].dose)
      BY <2>2, <3>1, InventoryFacts DEF Divisor
    <3>3. cups'[i] = CupsIn(grams'[i], Divisor(dose'[i]))
      BY <3>1, <3>2 DEF CupsFor
    <3> QED BY <2>3, <3>3 DEF CupsOK
  <2>4. CASE j # i
    <3>1. grams'[j] = grams[j] /\ cups'[j] = cups[j] /\ dose'[j] = dose[j]
      BY <1>1, <1>3, <2>4 DEF InventoryTypes
    <3>2. CupsOK(j)
      BY <1>7, CupsFollow DEF IInv, InventoryInv
    <3> QED BY <3>1, <3>2, CupsKept
  <2> QED BY <2>3, <2>4
<1>8. fresh[e] /\ ~mixed => \A j \in Items : CupsOK(j)'
  BY <1>7, Zenon
<1>9. Saved(e) /\ \A j \in Items : grams[j] # None => grams'[j] # None
  BY <1>1, <1>2, <1>3, InventoryFacts DEF InventoryTypes
<1> QED BY <1>5, <1>6, <1>8, <1>9, EditSaved, Zenon

(* A save that is sent changes one entry.                                  *)
Stored(e, i) ==
    /\ grams' = [grams EXCEPT ![i] = Sent(stockTo[e], entry[e].grams, @)]
    /\ cups' = [cups EXCEPT ![i] = Sent(CupsFor(e), entry[e].cups, @)]
    /\ dose' = [dose EXCEPT ![i] = IF doseTo[e] # None
                                   THEN Sent(doseTo[e], entry[e].dose, @) ELSE @]

LEMMA StoredTypes ==
    ASSUME IInv, NEW e \in Edits, edit[e] = "save", NEW i \in Items, grams[i] # None,
           entry[e].grams # None, version' = version, Stored(e, i)
    PROVE  /\ InventoryTypes'
           /\ \A j \in Items : grams'[j] = None => dose'[j] = 0
           /\ \A j \in Items : grams[j] # None => grams'[j] # None
<1>1. /\ stockTo[e] \in Int /\ doseTo[e] \in DoseTypes \cup {None} /\ CupsFor(e) \in Int
  BY CupsToSave
<1>2. InventoryTypes /\ \A j \in Items : grams[j] = None => dose[j] = 0
  BY DEF IInv, InventoryInv
<1>3. /\ grams'[i] # None
      /\ \A j \in Items \ {i} : grams'[j] = grams[j] /\ dose'[j] = dose[j]
  BY <1>1, <1>2, InventoryFacts DEF InventoryTypes, Sent, Stored
<1>4. InventoryTypes'
  <2>1. grams' \in [Items -> Int \cup {None}] /\ cups' \in [Items -> Int]
    BY <1>1, <1>2 DEF InventoryTypes, Sent, Stored
  <2>2. dose' \in [Items -> DoseTypes]
    BY <1>1, <1>2 DEF InventoryTypes, Sent, Stored
  <2> QED BY <1>2, <2>1, <2>2 DEF InventoryTypes
<1> QED BY <1>2, <1>3, <1>4

LEMMA StoredCups ==
    ASSUME IInv, NEW e \in Edits, edit[e] = "save", fresh[e], ~mixed, NEW i \in Items,
           i = canister[e], entry[e].grams # None, Stored(e, i), NEW j \in Items
    PROVE  CupsOK(j)'
<1>1. InventoryTypes /\ EditOK(e) /\ entry[e] = Document(i)
  BY DEF IInv, InventoryInv, EditOK
<1>2. entry[e].grams = grams[i] /\ entry[e].cups = cups[i] /\ entry[e].dose = dose[i]
  BY <1>1 DEF Document
<1>3. CASE j # i
  <2>1. grams'[j] = grams[j] /\ cups'[j] = cups[j] /\ dose'[j] = dose[j]
    BY <1>1, <1>3 DEF InventoryTypes, Stored
  <2>2. CupsOK(j)
    BY CupsFollow DEF IInv, InventoryInv
  <2> QED BY <2>1, <2>2, CupsKept
<1>4. CASE j = i
  <2>1. /\ grams'[i] = stockTo[e] /\ cups'[i] = CupsFor(e)
        /\ dose'[i] = IF doseTo[e] # None THEN doseTo[e] ELSE dose[i]
    BY <1>1, <1>2 DEF InventoryTypes, Sent, Stored
  <2>2. SUFFICES ASSUME dose'[i] # Null
                 PROVE  cups'[i] = CupsIn(grams'[i], Divisor(dose'[i]))
    BY <1>4 DEF CupsOK
  <2>3. dose'[i] = IF Given(e) THEN doseTo[e] ELSE entry[e].dose
    BY <1>2, <2>1, <2>2 DEF Given
  <2>4. CupsFor(e) = CupsIn(stockTo[e], Divisor(dose'[i]))
    BY <2>3 DEF CupsFor
  <2> QED BY <2>1, <2>4
<1> QED BY <1>3, <1>4

LEMMA SaveInv ==
    ASSUME IInv, NEW e \in Edits, saveInventory(e)
    PROVE  IInv'
<1>1. /\ Saved(e) /\ edit[e] = "save" /\ entry[e].grams # None /\ version' = version
      /\ UNCHANGED <<grams, dose, cups>> \/ \E i \in At(e) : Stored(e, i)
  BY DEF saveInventory, Stored
<1>2. InventoryTypes /\ EditOK(e) /\ canister[e] \in Items /\ mixed \in BOOLEAN
  BY <1>1, CupsToSave DEF IInv, InventoryInv
<1>3. Saved(e)
  BY <1>1
<1>4. CASE UNCHANGED <<grams, dose, cups>>
  <2>1. /\ InventoryTypes' /\ \A j \in Items : grams'[j] = None => dose'[j] = 0
        /\ \A j \in Items : grams[j] # None => grams'[j] # None
    BY <1>1, <1>4 DEF IInv, InventoryInv, InventoryTypes
  <2>2. ~mixed => \A j \in Items : CupsOK(j)
    BY CupsFollow DEF IInv, InventoryInv
  <2>3. ~mixed => \A j \in Items : CupsOK(j)'
    BY <1>4, <2>2, CupsKept
  <2> QED BY <1>3, <2>1, <2>3, EditSaved, Zenon
<1>5. ASSUME NEW i \in At(e), Stored(e, i) PROVE IInv'
  <2>1. i \in Items /\ grams[i] # None
    BY <1>1, <1>2 DEF At, EditOK
  <2>2. /\ InventoryTypes' /\ \A j \in Items : grams'[j] = None => dose'[j] = 0
        /\ \A j \in Items : grams[j] # None => grams'[j] # None
    BY <1>1, <1>5, <2>1, StoredTypes
  <2>3. fresh[e] => i = canister[e]
    BY <1>1, <1>2 DEF At, EditOK, Document
  <2>4. fresh[e] /\ ~mixed => \A j \in Items : CupsOK(j)'
    BY <1>1, <1>5, <2>1, <2>3, StoredCups
  <2> QED BY <1>3, <2>2, <2>4, EditSaved, Zenon
<1> QED BY <1>1, <1>4, <1>5

(* A removal marks what every edit has read as moved.                      *)
LEMMA RemoveItemInv ==
    ASSUME IInv, NEW i \in Items, removeItem(i)
    PROVE  IInv'
<1>1. Fresh /\ InventoryTypes /\ EditTypes
  BY DEF IInv, InventoryInv
<1>2. Fresh' /\ (\A p \in Sales : fresh'[p] => fresh[p]) /\ \A f \in Edits : ~fresh'[f]
  BY <1>1, EditsOvertaken DEF removeItem
<1>3. /\ UNCHANGED <<clock, status, item, loadedAt, quantity, pc, want, units, seen, left, priced>>
      /\ UNCHANGED <<version, edit, canister, stockTo, doseTo, mixed>>
  BY DEF removeItem, batches, sales
<1>4. BatchInv'
  <2>1. clock' \in Nat /\ clock <= clock'
    BY <1>3 DEF IInv, BatchInv, BatchTypes
  <2> QED BY <1>2, <1>3, <2>1, BatchesKept DEF IInv
<1>5. /\ grams' = [grams EXCEPT ![i] = None] /\ dose' = [dose EXCEPT ![i] = 0]
      /\ cups' = [cups EXCEPT ![i] = 0]
      /\ entry' = [e \in Edits |-> IF edit[e] = "save" THEN [entry[e] EXCEPT !.moved = TRUE]
                                   ELSE entry[e]]
  BY DEF removeItem
<1>6. InventoryTypes' /\ \A j \in Items : grams'[j] = None => dose'[j] = 0
  BY <1>1, <1>3, <1>5 DEF IInv, InventoryInv, InventoryTypes, DoseTypes
<1>7. ASSUME NEW e \in Edits, edit[e] = "save"
      PROVE  entry'[e] \in Entries /\ entry'[e].moved
  <2>1. entry[e] \in Entries
    BY <1>7 DEF IInv, InventoryInv, EditOK
  <2> QED BY <1>5, <1>7, <2>1 DEF Entries
<1>8. EditTypes'
  <2>1. ASSUME NEW e \in Edits PROVE entry'[e] \in Entries \cup {None}
    BY <1>1, <1>5, <1>7 DEF EditTypes
  <2>2. entry' \in [Edits -> Entries \cup {None}]
    BY <1>5, <2>1
  <2> QED BY <1>1, <1>3, <2>2 DEF EditTypes
<1>9. \A e \in Edits : EditOK(e)'
  BY <1>2, <1>3, <1>7 DEF IInv, InventoryInv, EditOK
<1>10. CupsFollowGrams'
  <2>1. \A j \in Items : CupsOK(j) => CupsOK(j)'
    <3>1. grams'[i] = None
      BY <1>1, <1>5 DEF InventoryTypes
    <3>2. \A j \in Items \ {i} : grams'[j] = grams[j] /\ dose'[j] = dose[j] /\ cups'[j] = cups[j]
      BY <1>1, <1>5 DEF InventoryTypes
    <3> QED BY <3>1, <3>2, CupsKept DEF CupsOK
  <2>2. mixed \/ \A j \in Items : CupsOK(j)
    BY CupsFollow DEF IInv, InventoryInv
  <2> QED BY <1>3, <2>1, <2>2, CupsFollowNext
<1>11. mixed' \in BOOLEAN
  BY <1>3 DEF IInv, InventoryInv
<1> QED BY <1>2, <1>4, <1>6, <1>8, <1>9, <1>10, <1>11 DEF IInv, InventoryInv

-----------------------------------------------------------------------------
(* Together.                                                               *)
LEMMA InitIInv == Init => IInv
<1> SUFFICES ASSUME Init PROVE IInv
  OBVIOUS
<1>1. Fresh
  BY DEF Init, Fresh
<1>2. BatchTypes /\ SaleTypes
  BY DEF Init, BatchTypes, SaleTypes
<1>3. Loaded = {}
  BY DEF Init, Loaded
<1>4. \A p \in Sales : LeftOK(p) /\ PriceOK(p)
  BY DEF Init, LeftOK, PriceOK
<1>5. InventoryTypes /\ EditTypes /\ mixed \in BOOLEAN
  <2>1. grams \in [Items -> Int \cup {None}] /\ dose \in [Items -> DoseTypes]
    BY InventoryFacts DEF Init, DoseTypes
  <2>2. cups \in [Items -> Int] /\ version \in Nat
    BY DEF Init
  <2>3. mixed \in BOOLEAN
    BY Zenon DEF Init
  <2>4. EditTypes
    BY DEF Init, EditTypes
  <2> QED BY <2>1, <2>2, <2>3, <2>4 DEF InventoryTypes
<1>6. \A e \in Edits : EditOK(e)
  BY DEF Init, EditOK
<1>7. CupsFollowGrams /\ \A i \in Items : grams[i] = None => dose[i] = 0
  BY InventoryFacts DEF Init, CupsFollowGrams, AsSeeded
<1>8. \A p \in Orders : PriceOK(p)
  BY <1>4 DEF Sales
<1> QED
  BY <1>1, <1>2, <1>3, <1>4, <1>5, <1>6, <1>7, <1>8
  DEF IInv, BatchInv, InventoryInv, LoadingOrder

LEMMA NextIInv == IInv /\ [Next]_vars => IInv'
<1> SUFFICES ASSUME IInv, [Next]_vars PROVE IInv'
  OBVIOUS
<1>1. CASE Tick \/ checkBatchExpiry
  BY <1>1, TickInv, ExpiryInv
<1>2. CASE \E i \in Items, q \in BatchSizes, life \in ShelfLife : loadBatch(i, q, life)
  BY <1>2, LoadBatchInv
<1>3. CASE \E id \in 0 .. MaxClock : removeBatch(id)
  BY <1>3, RemoveBatchInv
<1>4. CASE \E p \in Orders : Order(p)
  BY <1>4, PlaceOrderInv, SettleInv, TimeOutInv, RestoreInv, ReactivateInv DEF Order
<1>5. CASE \E p \in Unloads, i \in Items, q \in Quantities : unload(p, i, q)
  BY <1>5, UnloadInv
<1>6. CASE \E p \in Sales : Sell(p)
  BY <1>6, FindBatchInv, TakeBatchInv DEF Sell
<1>7. CASE \E e \in Edits : Edit(e)
  BY <1>7, UpdateStockInv, UpdateInventoryInv, FindInventoryInv, PushInv, SaveInv DEF Edit
<1>8. CASE \E i \in Items : removeItem(i)
  BY <1>8, RemoveItemInv
<1>9. CASE UNCHANGED vars
  <2>1. UNCHANGED <<clock, batches, sales, inventory, edits, fresh, mixed>>
    BY <1>9 DEF vars, history
  <2>2. Fresh' /\ clock' \in Nat /\ clock <= clock'
    BY <2>1 DEF IInv, BatchInv, BatchTypes, Fresh
  <2>3. BatchInv'
    BY <2>1, <2>2, BatchesKept DEF IInv, batches, sales
  <2>4. InventoryInv'
    BY <2>1, <2>2, InventoryKept DEF IInv
  <2> QED BY <2>3, <2>4 DEF IInv
<1> QED BY <1>1, <1>2, <1>3, <1>4, <1>5, <1>6, <1>7, <1>8, <1>9 DEF Next

(* The oldest batch is the first one.                                      *)
LEMMA OldestIsFirst ==
    ASSUME BatchInv, NEW i, NEW n, NEW s \in Oldest(CanSell(i, n))
    PROVE  loadedAt[s] = loadedAt[First(CanSell(i, n))]
<1> DEFINE f == First(CanSell(i, n))
<1>1. CanSell(i, n) \subseteq Loaded /\ Loaded \subseteq Slots
  BY StockAssumption DEF CanSell, Loaded, StockAssumption
<1>2. s \in CanSell(i, n)
  BY DEF Oldest
<1>3. f \in CanSell(i, n) /\ f <= s
  BY <1>1, <1>2, FirstOf, SlotsAreNumbers
<1> HIDE DEF f
<1>4. loadedAt[s] <= loadedAt[f]
  BY <1>3 DEF Oldest
<1>5. /\ f \in Loaded /\ s \in Loaded /\ f \in Nat /\ s \in Nat
      /\ loadedAt[f] \in Nat /\ loadedAt[s] \in Nat
  BY <1>1, <1>2, <1>3, SlotsAreNumbers DEF BatchInv, BatchTypes
<1>6. loadedAt[f] <= loadedAt[s]
  BY <1>3, <1>5 DEF BatchInv, LoadingOrder
<1>7. loadedAt[s] = loadedAt[f]
  BY <1>4, <1>5, <1>6
<1> QED BY <1>7 DEF f

(* Only findBatch goes from the price to a batch that was read.            *)
LEMMA NextTakesPriced ==
    ASSUME IInv, [Next]_vars, NEW p \in Orders,
           pc[p] = "placed", pc'[p] = "read", fresh[p]
    PROVE  seen'[p] = priced[p]
<1>1. p \in Sales /\ SaleTypes
  BY SaleNumbers DEF IInv, BatchInv
<1>2. findBatch(p)
  <2>1. ASSUME pc' = pc PROVE FALSE
    BY <2>1
  <2>2. CASE UNCHANGED vars
    BY <2>1, <2>2 DEF vars, sales
  <2>3. CASE \/ Tick \/ checkBatchExpiry \/ \E id \in 0 .. MaxClock : removeBatch(id)
             \/ \E i \in Items, q \in BatchSizes, life \in ShelfLife : loadBatch(i, q, life)
    BY <2>1, <2>3 DEF Tick, checkBatchExpiry, removeBatch, loadBatch, sales
  <2>4. CASE (\E e \in Edits : Edit(e)) \/ \E i \in Items : removeItem(i)
    BY <2>1, <2>4
    DEF Edit, updateMachineStock, updateInventory, findInventory, pushInventory, saveInventory,
        removeItem, StartEdit, Saved, sales
  <2>5. ASSUME NEW q \in Orders, Order(q) PROVE FALSE
    <3>1. q \in Sales
      BY SaleNumbers
    <3>2. CASE timeOut(q) \/ restoreBatchStock(q) \/ reactivateBatch(q)
      BY <2>1, <3>2 DEF timeOut, restoreBatchStock, reactivateBatch
    <3>3. CASE settle(q)
      BY <1>1, <3>1, <3>3 DEF settle, SaleTypes
    <3>4. CASE \E i \in Items, n \in Quantities : placeOrder(q, i, n)
      BY <1>1, <3>1, <3>4 DEF placeOrder, SaleTypes
    <3> QED BY <2>5, <3>2, <3>3, <3>4 DEF Order
  <2>6. ASSUME NEW q \in Unloads, NEW i \in Items, NEW n \in Quantities, unload(q, i, n)
        PROVE  FALSE
    BY <1>1, <2>6, SaleNumbers DEF unload, SaleTypes
  <2>7. ASSUME NEW q \in Sales, takeBatch(q) PROVE FALSE
    BY <1>1, <2>7 DEF takeBatch, SaleTypes
  <2>8. ASSUME NEW q \in Sales, findBatch(q) PROVE findBatch(p)
    <3>1. CASE q = p
      BY <2>8, <3>1
    <3>2. CASE q # p
      BY <1>1, <2>8, <3>2 DEF findBatch, SaleTypes
    <3> QED BY <3>1, <3>2
  <2> QED BY <2>2, <2>3, <2>4, <2>5, <2>6, <2>7, <2>8 DEF Next, Sell
<1>3. PICK s \in Oldest(CanSell(want[p], units[p])) : seen' = [seen EXCEPT ![p] = loadedAt[s]]
  BY <1>1, <1>2 DEF findBatch, SaleTypes
<1>4. seen'[p] = loadedAt[s]
  BY <1>1, <1>3 DEF SaleTypes
<1>5. loadedAt[s] = loadedAt[First(CanSell(want[p], units[p]))]
  BY OldestIsFirst DEF IInv
<1>6. PriceOK(p)
  BY DEF IInv, BatchInv
<1> QED BY <1>4, <1>5, <1>6 DEF PriceOK

-----------------------------------------------------------------------------
(* Sums.  MapThenSumSet folds a recursive function over the subsets of the *)
(* set; SumsExist is its recursive equation.  Induction is stated with a   *)
(* set of subsets, P, and rests on their strict order being well-founded.  *)
Sum(f, S) == MapThenSumSet(LAMBDA x : f[x], S)

Pick(s) == CHOOSE x \in s : TRUE

(* What one round of the fold adds to the sum of a smaller set.            *)
Round(f, g, s) == IF s = {} THEN 0 ELSE f[Pick(s)] + g[s \ {Pick(s)}]

Sums(f, S) == CHOOSE g : g = [s \in SUBSET S |-> Round(f, g, s)]

LEMMA SumDef == ASSUME NEW f, NEW S PROVE Sum(f, S) = Sums(f, S)[S]
  BY Zenon DEF Sum, MapThenSumSet, MapThenFoldSet, Sums, Pick, Round

LEMMA PickIn == ASSUME NEW S, S # {} PROVE Pick(S) \in S
  BY DEF Pick

(* Induction over the subsets of a finite set.                             *)
LEMMA SubsetInduction ==
    ASSUME NEW S, IsFiniteSet(S), NEW P,
           \A T \in SUBSET S : (\A x \in T : T \ {x} \in P) => T \in P
    PROVE  SUBSET S \subseteq P
<1> SUFFICES ASSUME (SUBSET S) \ P # {} PROVE FALSE
  OBVIOUS
<1>1. IsWellFoundedOn(StrictSubsetOrdering(S), SUBSET S)
  <2>1. IsWellFoundedOn(StrictSubsetOrdering(S), FiniteSubsetsOf(S))
    BY FS_StrictSubsetOrderingWellFounded, Zenon
  <2>2. FiniteSubsetsOf(S) = SUBSET S
    BY FS_FiniteSubsetsOfFinite, Zenon
  <2> QED BY <2>1, <2>2, Zenon
<1>2. PICK T \in (SUBSET S) \ P :
         \A U \in (SUBSET S) \ P : ~(<<U, T>> \in StrictSubsetOrdering(S))
  BY <1>1, WFMin
<1>3. ASSUME NEW x \in T PROVE T \ {x} \in P
  <2>1. T \ {x} \in SUBSET S /\ T \ {x} \subseteq T /\ T \ {x} # T
    BY <1>2, <1>3
  <2>2. <<T \ {x}, T>> \in StrictSubsetOrdering(S)
    BY <1>2, <2>1 DEF StrictSubsetOrdering
  <2> QED BY <1>2, <2>1, <2>2
<1>4. T \in SUBSET S /\ T \notin P
  BY <1>2
<1> QED BY <1>3, <1>4, Zenon

(* Induction over the natural numbers.                                     *)
LEMMA NumberInduction ==
    ASSUME NEW P, 0 \in P, \A n \in Nat : n \in P => n + 1 \in P
    PROVE  Nat \subseteq P
<1> SUFFICES ASSUME Nat \ P # {} PROVE FALSE
  OBVIOUS
<1>1. IsWellFoundedOn(Less, Nat)
  BY NumbersWellFounded
<1>2. PICK n \in Nat \ P : \A m \in Nat \ P : ~(<<m, n>> \in Less)
  BY <1>1, WFMin
<1>3. n # 0 /\ n - 1 \in Nat
  OBVIOUS
<1>4. <<n - 1, n>> \in Less
  BY <1>3 DEF Less
<1>5. n - 1 \in P
  BY <1>2, <1>3, <1>4
<1> QED BY <1>3, <1>5

LEMMA SumsExist ==
    ASSUME NEW f, NEW S, IsFiniteSet(S)
    PROVE  \A s \in SUBSET S : Sums(f, S)[s] = Round(f, Sums(f, S), s)
<1> DEFINE Upto(n) == {s \in SUBSET S : Cardinality(s) <= n}
           P == {n \in Nat : \E g : g = [s \in Upto(n) |-> Round(f, g, s)]}
<1>1. \A s \in SUBSET S : IsFiniteSet(s) /\ Cardinality(s) \in Nat /\ Cardinality(s) <= Cardinality(S)
  BY FS_Subset, FS_CardinalityType
<1>2. 0 \in P
  <2>1. \A s \in Upto(0) : s = {}
    BY <1>1, FS_EmptySet
  <2> DEFINE g == [s \in Upto(0) |-> 0]
  <2>2. g = [s \in Upto(0) |-> Round(f, g, s)]
    BY <2>1 DEF Round
  <2> QED BY <2>2
<1>3. ASSUME NEW n \in Nat, n \in P PROVE n + 1 \in P
  <2>1. PICK g : g = [s \in Upto(n) |-> Round(f, g, s)]
    BY <1>3
  <2> DEFINE h == [s \in Upto(n + 1) |-> Round(f, g, s)]
  <2>2. Upto(n) \subseteq Upto(n + 1)
    BY <1>1
  <2>3. \A t \in Upto(n) : h[t] = g[t]
    BY <2>1, <2>2
  <2>4. ASSUME NEW s \in Upto(n + 1), s # {} PROVE s \ {Pick(s)} \in Upto(n)
    BY <1>1, <2>4, PickIn, FS_RemoveElement
  <2>5. \A s \in Upto(n + 1) : Round(f, g, s) = Round(f, h, s)
    BY <2>3, <2>4 DEF Round
  <2>6. h = [s \in Upto(n + 1) |-> Round(f, h, s)]
    BY <2>5
  <2>7. \E k : k = [s \in Upto(n + 1) |-> Round(f, k, s)]
    <3> HIDE DEF h
    <3> QED BY <2>6, Zenon
  <2> HIDE DEF Upto, h
  <2> QED BY <2>7
<1>4. Cardinality(S) \in P
  BY <1>2, <1>3, NumberInduction, FS_CardinalityType
<1>5. Upto(Cardinality(S)) = SUBSET S
  BY <1>1
<1>6. \E g : g = [s \in SUBSET S |-> Round(f, g, s)]
  BY <1>4, <1>5
<1>7. Sums(f, S) = [s \in SUBSET S |-> Round(f, Sums(f, S), s)]
  BY <1>6, Zenon DEF Sums
<1> QED BY <1>7

LEMMA SumsAgree ==
    ASSUME NEW f, NEW S, IsFiniteSet(S), NEW T \in SUBSET S, NEW s \in SUBSET T
    PROVE  Sums(f, T)[s] = Sums(f, S)[s]
<1> DEFINE P == {t \in SUBSET T : Sums(f, T)[t] = Sums(f, S)[t]}
<1>1. IsFiniteSet(T)
  BY FS_Subset
<1>2. /\ \A t \in SUBSET T : Sums(f, T)[t] = Round(f, Sums(f, T), t)
      /\ \A t \in SUBSET S : Sums(f, S)[t] = Round(f, Sums(f, S), t)
  BY <1>1, SumsExist
<1>3. ASSUME NEW t \in SUBSET T, \A x \in t : t \ {x} \in P PROVE t \in P
  <2>1. t # {} => Sums(f, T)[t \ {Pick(t)}] = Sums(f, S)[t \ {Pick(t)}]
    BY <1>3, PickIn
  <2> QED BY <1>2, <2>1 DEF Round
<1>4. SUBSET T \subseteq P
  <2> HIDE DEF P
  <2> QED BY <1>1, <1>3, SubsetInduction, Zenon
<1> QED BY <1>4

LEMMA SumEmpty == ASSUME NEW f PROVE Sum(f, {}) = 0
<1>1. IsFiniteSet({})
  BY FS_EmptySet
<1>2. Sums(f, {})[{}] = Round(f, Sums(f, {}), {})
  BY <1>1, SumsExist
<1> QED BY <1>2, SumDef DEF Round

LEMMA SumPick ==
    ASSUME NEW f, NEW S, IsFiniteSet(S), S # {}
    PROVE  Sum(f, S) = f[Pick(S)] + Sum(f, S \ {Pick(S)})
<1>1. Sums(f, S)[S] = Round(f, Sums(f, S), S)
  BY SumsExist
<1>2. Sums(f, S)[S] = f[Pick(S)] + Sums(f, S)[S \ {Pick(S)}]
  BY <1>1 DEF Round
<1>3. Sums(f, S \ {Pick(S)})[S \ {Pick(S)}] = Sums(f, S)[S \ {Pick(S)}]
  BY SumsAgree
<1> QED BY <1>2, <1>3, SumDef

LEMMA SumType ==
    ASSUME NEW f, NEW S, IsFiniteSet(S), \A x \in S : f[x] \in Int
    PROVE  Sum(f, S) \in Int
<1> DEFINE P == {T \in SUBSET S : Sum(f, T) \in Int}
<1>1. ASSUME NEW T \in SUBSET S, \A x \in T : T \ {x} \in P PROVE T \in P
  <2>1. CASE T = {}
    BY <2>1, SumEmpty
  <2>2. CASE T # {}
    <3>1. IsFiniteSet(T) BY FS_Subset
    <3>2. Pick(T) \in T /\ Sum(f, T) = f[Pick(T)] + Sum(f, T \ {Pick(T)})
      BY <2>2, <3>1, PickIn, SumPick
    <3> QED BY <1>1, <3>2
  <2> QED BY <2>1, <2>2
<1>2. SUBSET S \subseteq P
  <2> HIDE DEF P
  <2> QED BY <1>1, SubsetInduction, Zenon
<1> QED BY <1>2

LEMMA SumWithout ==
    ASSUME NEW f, NEW S, IsFiniteSet(S), \A x \in S : f[x] \in Int, NEW x \in S
    PROVE  Sum(f, S) = f[x] + Sum(f, S \ {x})
<1> DEFINE P == {T \in SUBSET S : \A y \in T : Sum(f, T) = f[y] + Sum(f, T \ {y})}
<1>1. ASSUME NEW T \in SUBSET S, \A y \in T : T \ {y} \in P, NEW y \in T
      PROVE  Sum(f, T) = f[y] + Sum(f, T \ {y})
  <2>1. IsFiniteSet(T) BY FS_Subset
  <2> DEFINE z == Pick(T)
             R == (T \ {y}) \ {z}
  <2>2. z \in T BY PickIn
  <2>3. Sum(f, T) = f[z] + Sum(f, T \ {z})
    BY <2>1, SumPick
  <2>4. CASE y # z
    <3>1. R = (T \ {z}) \ {y} /\ y \in T \ {z} /\ z \in T \ {y}
      BY <2>2, <2>4
    <3>2. Sum(f, T \ {z}) = f[y] + Sum(f, R)
      BY <1>1, <2>2, <3>1
    <3>3. Sum(f, T \ {y}) = f[z] + Sum(f, R)
      BY <1>1, <3>1
    <3>4. IsFiniteSet(R) /\ \A v \in R : f[v] \in Int
      BY <2>1, FS_Subset
    <3>5. Sum(f, R) \in Int /\ f[y] \in Int /\ f[z] \in Int
      BY <2>2, <3>4, SumType
    <3> HIDE DEF z, R
    <3> QED BY <2>3, <3>2, <3>3, <3>5
  <2> QED BY <2>3, <2>4
<1>2. ASSUME NEW T \in SUBSET S, \A y \in T : T \ {y} \in P PROVE T \in P
  BY <1>1, <1>2
<1>3. SUBSET S \subseteq P
  <2> HIDE DEF P
  <2> QED BY <1>2, SubsetInduction, Zenon
<1> QED BY <1>3

LEMMA SumSame ==
    ASSUME NEW f, NEW g, NEW S, IsFiniteSet(S), \A x \in S : f[x] = g[x]
    PROVE  Sum(f, S) = Sum(g, S)
<1> DEFINE P == {T \in SUBSET S : Sum(f, T) = Sum(g, T)}
<1>1. ASSUME NEW T \in SUBSET S, \A x \in T : T \ {x} \in P PROVE T \in P
  <2>1. CASE T = {}
    BY <2>1, SumEmpty
  <2>2. CASE T # {}
    <3>1. IsFiniteSet(T) BY FS_Subset
    <3>2. Pick(T) \in T /\ Sum(f, T) = f[Pick(T)] + Sum(f, T \ {Pick(T)})
          /\ Sum(g, T) = g[Pick(T)] + Sum(g, T \ {Pick(T)})
      BY <2>2, <3>1, PickIn, SumPick
    <3> QED BY <1>1, <3>2
  <2> QED BY <2>1, <2>2
<1>2. SUBSET S \subseteq P
  <2> HIDE DEF P
  <2> QED BY <1>1, SubsetInduction, Zenon
<1> QED BY <1>2

(* A sum splits into the sums of a part and of the rest.                   *)
LEMMA SumSplit ==
    ASSUME NEW f, NEW S, IsFiniteSet(S), \A x \in S : f[x] \in Int, NEW T \in SUBSET S
    PROVE  Sum(f, S) = Sum(f, T) + Sum(f, S \ T)
<1> DEFINE P == {U \in SUBSET S : Sum(f, S) = Sum(f, U) + Sum(f, S \ U)}
<1>1. Sum(f, S) \in Int
  BY SumType
<1>2. ASSUME NEW U \in SUBSET S, \A x \in U : U \ {x} \in P PROVE U \in P
  <2>1. CASE U = {}
    <3>1. Sum(f, U) = 0 /\ S \ U = S
      BY <2>1, SumEmpty
    <3> QED BY <1>1, <3>1
  <2>2. CASE U # {}
    <3>1. PICK x \in U : TRUE
      BY <2>2
    <3> DEFINE R == S \ (U \ {x})
    <3>2. R \ {x} = S \ U /\ x \in R /\ R \subseteq S
      BY <3>1
    <3>3. IsFiniteSet(U) /\ IsFiniteSet(R)
      BY FS_Subset
    <3>4. Sum(f, S) = Sum(f, U \ {x}) + Sum(f, R)
      BY <1>2, <3>1
    <3>5. Sum(f, R) = f[x] + Sum(f, S \ U)
      <4>1. \A y \in R : f[y] \in Int
        BY <3>2
      <4> HIDE DEF R
      <4> QED BY <3>2, <3>3, <4>1, SumWithout
    <3>6. Sum(f, U) = f[x] + Sum(f, U \ {x})
      BY <3>1, <3>3, SumWithout
    <3>7. Sum(f, U \ {x}) \in Int /\ Sum(f, S \ U) \in Int /\ f[x] \in Int
      BY <3>1, <3>3, FS_Subset, SumType
    <3> HIDE DEF R
    <3> QED BY <3>4, <3>5, <3>6, <3>7
  <2> QED BY <2>1, <2>2
<1>3. SUBSET S \subseteq P
  <2> HIDE DEF P
  <2> QED BY <1>2, SubsetInduction, Zenon
<1> QED BY <1>3

-----------------------------------------------------------------------------
(* The books.                                                              *)
RestTypes ==
    /\ food \in BOOLEAN /\ clock \in 0 .. MaxClock
    /\ expiry \in [Slots -> Nat]
    /\ units \in [Sales -> Quantities \cup {0}]
    /\ back \in [Sales -> {"no", "increment", "reactivate", "done"}]
    /\ books \in Int /\ raced \in BOOLEAN

(* A sale whose read nothing has overtaken knows what a batch with its id  *)
(* holds: what it will write, and the units it takes.                      *)
ReadOK(p) ==
    pc[p] = "read" /\ fresh[p]
        => \E s \in WithId(seen[p]) : quantity[s] = left[p] + units[p]

BooksInv == RestTypes /\ BooksBalance /\ \A p \in Sales : ReadOK(p)

LEMMA LoadedFinite ==
    /\ Loaded \subseteq Slots /\ IsFiniteSet(Slots) /\ IsFiniteSet(Loaded)
    /\ \A T \in SUBSET Slots : IsFiniteSet(T)
<1>1. IsFiniteSet(Slots) /\ Loaded \subseteq Slots
  BY StockAssumption DEF StockAssumption, Loaded
<1> QED BY <1>1, FS_Subset

LEMMA UnitsAreSum ==
    /\ \A S : UnitsIn(S) = Sum(quantity, S)
    /\ UnitsIn(Loaded)' = Sum(quantity', Loaded')
<1>1. \A S : UnitsIn(S) = Sum(quantity, S)
  BY DEF UnitsIn, Sum
<1>2. UnitsIn(Loaded)' = Sum(quantity', Loaded')
  BY Zenon DEF UnitsIn, Sum, Loaded, MapThenSumSet, MapThenFoldSet
<1> QED BY <1>1, <1>2

LEMMA UnitsType ==
    ASSUME BatchTypes, NEW S \in SUBSET Slots
    PROVE  UnitsIn(S) \in Int
<1>1. \A s \in S : quantity[s] \in Int
  BY DEF BatchTypes
<1> QED BY <1>1, LoadedFinite, SumType, UnitsAreSum

(* One batch more, or one quantity changed, and what that does to the sum. *)
LEMMA UnitsLoaded ==
    ASSUME BatchTypes, BatchTypes', NEW s \in Slots, s \notin Loaded,
           Loaded' = Loaded \cup {s}, \A t \in Loaded : quantity'[t] = quantity[t]
    PROVE  UnitsIn(Loaded)' = UnitsIn(Loaded) + quantity'[s]
<1>1. /\ IsFiniteSet(Loaded) /\ IsFiniteSet(Loaded') /\ Loaded' \subseteq Slots
      /\ Loaded' \ {s} = Loaded
  BY LoadedFinite
<1>2. \A t \in Loaded' : quantity'[t] \in Int
  BY <1>1 DEF BatchTypes
<1>3. Sum(quantity', Loaded') = quantity'[s] + Sum(quantity', Loaded)
  BY <1>1, <1>2, SumWithout
<1>4. Sum(quantity', Loaded) = Sum(quantity, Loaded)
  BY <1>1, SumSame
<1>5. quantity'[s] \in Int /\ UnitsIn(Loaded) \in Int
  BY <1>2, LoadedFinite, UnitsType
<1> QED BY <1>3, <1>4, <1>5, UnitsAreSum

LEMMA UnitsWritten ==
    ASSUME BatchTypes, BatchTypes', NEW s \in Loaded, Loaded' = Loaded,
           \A t \in Loaded \ {s} : quantity'[t] = quantity[t]
    PROVE  UnitsIn(Loaded)' = UnitsIn(Loaded) - quantity[s] + quantity'[s]
<1>1. IsFiniteSet(Loaded) /\ IsFiniteSet(Loaded \ {s})
  BY LoadedFinite, FS_Subset
<1>2. \A t \in Loaded : quantity[t] \in Int /\ quantity'[t] \in Int
  BY LoadedFinite DEF BatchTypes
<1>3. Sum(quantity, Loaded) = quantity[s] + Sum(quantity, Loaded \ {s})
  BY <1>1, <1>2, SumWithout
<1>4. Sum(quantity', Loaded) = quantity'[s] + Sum(quantity', Loaded \ {s})
  BY <1>1, <1>2, SumWithout
<1>5. Sum(quantity', Loaded \ {s}) = Sum(quantity, Loaded \ {s})
  BY <1>1, SumSame
<1>6. Sum(quantity, Loaded \ {s}) \in Int
  BY <1>1, <1>2, SumType
<1>7. quantity[s] \in Int /\ quantity'[s] \in Int
  BY <1>2
<1> QED BY <1>3, <1>4, <1>5, <1>6, <1>7, UnitsAreSum

LEMMA UnitsKept ==
    ASSUME BatchTypes, UNCHANGED quantity, Loaded' = Loaded
    PROVE  UnitsIn(Loaded)' = UnitsIn(Loaded)
  BY UnitsAreSum

(* A step that writes no batch keeps what every sale knows of them.        *)
LEMMA ReadKept ==
    ASSUME UNCHANGED <<status, loadedAt, quantity>>, NEW p \in Sales, ReadOK(p),
           pc'[p] = pc[p], fresh'[p] => fresh[p],
           seen'[p] = seen[p], left'[p] = left[p], units'[p] = units[p]
    PROVE  ReadOK(p)'
  BY DEF ReadOK, WithId, Loaded

LEMMA BooksKept ==
    ASSUME IInv, BooksInv, UNCHANGED <<food, batches, pc, units, seen, left, books, raced>>,
           clock' \in 0 .. MaxClock,
           back' \in [Sales -> {"no", "increment", "reactivate", "done"}],
           \A p \in Sales : fresh'[p] => fresh[p]
    PROVE  BooksInv'
<1>1. UNCHANGED <<status, loadedAt, quantity, expiry>> /\ Loaded' = Loaded
  BY DEF batches, Loaded
<1>2. RestTypes'
  BY <1>1 DEF BooksInv, RestTypes
<1>3. BooksBalance'
  <2>1. UnitsIn(Loaded)' = UnitsIn(Loaded)
    BY <1>1, UnitsKept DEF IInv, BatchInv
  <2> QED BY <2>1 DEF BooksInv, BooksBalance
<1>4. \A p \in Sales : ReadOK(p)'
  BY <1>1, ReadKept DEF BooksInv
<1> QED BY <1>2, <1>3, <1>4 DEF BooksInv

(* A write of the batches overtakes every sale: only the books are left.   *)
LEMMA BooksWritten ==
    ASSUME IInv, RestTypes', Overtake({}),
           raced' \/ UnitsIn(Loaded)' = books'
    PROVE  BooksInv'
<1>1. \A p \in Sales : ReadOK(p)'
  BY OvertakeAll DEF IInv, BatchInv, ReadOK
<1> QED BY <1>1 DEF BooksInv, BooksBalance

LEMMA BatchLoads ==
    ASSUME IInv, IInv', BooksInv, NEW i \in Items, NEW n \in BatchSizes, NEW life \in ShelfLife,
           loadBatch(i, n, life)
    PROVE  BooksInv'
<1>1. BatchTypes /\ BatchTypes' /\ RestTypes /\ n \in Nat /\ clock + life \in Nat
  <2>1. n \in Nat /\ life \in Nat
    BY StockAssumption DEF StockAssumption
  <2> QED BY <2>1 DEF IInv, BatchInv, BatchTypes, BooksInv
<1>2. PICK s \in Slots :
         /\ s \notin Loaded
         /\ status' = [status EXCEPT ![s] = "active"]
         /\ quantity' = [quantity EXCEPT ![s] = n]
         /\ expiry' = [expiry EXCEPT ![s] = clock + life]
  BY DEF loadBatch
<1>3. /\ UNCHANGED <<food, clock, units, back, raced>>
      /\ Overtake({}) /\ books' = books + n
  BY DEF loadBatch, sales
<1>4. RestTypes'
  BY <1>1, <1>2, <1>3 DEF RestTypes
<1>5. Loaded' = Loaded \cup {s} /\ quantity'[s] = n
      /\ \A t \in Loaded : quantity'[t] = quantity[t]
  BY <1>1, <1>2, StockAssumption DEF Loaded, BatchTypes, StockAssumption
<1>6. UnitsIn(Loaded)' = UnitsIn(Loaded) + n
  BY <1>1, <1>2, <1>5, UnitsLoaded
<1>7. raced' \/ UnitsIn(Loaded)' = books'
  BY <1>3, <1>6 DEF BooksInv, BooksBalance
<1> QED BY <1>3, <1>4, <1>7, BooksWritten

LEMMA BatchLeaves ==
    ASSUME IInv, IInv', BooksInv, NEW id \in 0 .. MaxClock, removeBatch(id)
    PROVE  BooksInv'
<1> DEFINE gone == WithId(id)
<1>1. BatchTypes /\ BatchTypes' /\ RestTypes
  BY DEF IInv, BatchInv, BooksInv
<1>2. /\ status' = [s \in Slots |-> IF s \in gone THEN None ELSE status[s]]
      /\ quantity' = [s \in Slots |-> IF s \in gone THEN 0 ELSE quantity[s]]
      /\ expiry' = [s \in Slots |-> IF s \in gone THEN 0 ELSE expiry[s]]
      /\ UNCHANGED <<food, clock, units, back, raced>>
      /\ Overtake({}) /\ books' = books - UnitsIn(gone)
  BY DEF removeBatch, sales
<1>3. gone \subseteq Loaded /\ Loaded \subseteq Slots
  BY DEF WithId, Loaded
<1> HIDE DEF gone
<1>4. Loaded' = Loaded \ gone
  BY <1>1, <1>2, <1>3 DEF Loaded, BatchTypes
<1>5. UnitsIn(Loaded) \in Int /\ UnitsIn(gone) \in Int /\ UnitsIn(Loaded \ gone) \in Int
  BY <1>1, <1>3, UnitsType
<1>6. RestTypes'
  BY <1>1, <1>2, <1>5 DEF RestTypes
<1>7. UnitsIn(Loaded)' = UnitsIn(Loaded) - UnitsIn(gone)
  <2>1. IsFiniteSet(Loaded) /\ IsFiniteSet(Loaded \ gone)
    BY <1>3, LoadedFinite
  <2>2. \A s \in Loaded : quantity[s] \in Int
    BY <1>1, <1>3 DEF BatchTypes
  <2>3. Sum(quantity, Loaded) = Sum(quantity, gone) + Sum(quantity, Loaded \ gone)
    BY <1>3, <2>1, <2>2, SumSplit
  <2>4. \A s \in Loaded \ gone : quantity'[s] = quantity[s]
    BY <1>2, <1>3
  <2>5. Sum(quantity', Loaded \ gone) = Sum(quantity, Loaded \ gone)
    BY <2>1, <2>4, SumSame
  <2>6. UnitsIn(Loaded)' = UnitsIn(Loaded \ gone)
    BY <1>4, <2>5, UnitsAreSum
  <2>7. UnitsIn(Loaded) = UnitsIn(gone) + UnitsIn(Loaded \ gone)
    BY <2>3, UnitsAreSum
  <2> QED BY <1>5, <2>6, <2>7
<1>8. raced' \/ UnitsIn(Loaded)' = books'
  BY <1>2, <1>7 DEF BooksInv, BooksBalance
<1> QED BY <1>2, <1>6, <1>8, BooksWritten

LEMMA BatchesExpire ==
    ASSUME IInv, BooksInv, checkBatchExpiry
    PROVE  BooksInv'
<1>1. BatchTypes /\ RestTypes
  BY DEF IInv, BatchInv, BooksInv
<1>2. /\ status' = [s \in Slots |-> IF Due(s) THEN "expired" ELSE status[s]]
      /\ UNCHANGED <<food, clock, quantity, expiry, units, back, books, raced>> /\ Overtake({})
  BY DEF checkBatchExpiry, sales
<1>3. Loaded' = Loaded
  BY <1>1, <1>2, StockAssumption DEF Loaded, Due, BatchTypes, StockAssumption
<1>4. RestTypes' /\ UnitsIn(Loaded)' = UnitsIn(Loaded)
  BY <1>1, <1>2, <1>3, UnitsKept DEF RestTypes
<1> QED BY <1>2, <1>4, BooksWritten DEF BooksInv, BooksBalance

LEMMA SaleReads ==
    ASSUME IInv, BooksInv, NEW p \in Sales, findBatch(p)
    PROVE  BooksInv'
<1> DEFINE active == CanSell(want[p], units[p])
<1>1. Fresh /\ BatchTypes /\ SaleTypes /\ RestTypes
  BY DEF IInv, BatchInv, BooksInv
<1>2. UNCHANGED <<food, clock, batches, units, back, books, raced>>
  BY DEF findBatch
<1>3. UNCHANGED <<status, loadedAt, quantity, expiry>> /\ Loaded' = Loaded
  BY <1>2 DEF batches, Loaded
<1>4. RestTypes' /\ BooksBalance'
  <2>1. UnitsIn(Loaded)' = UnitsIn(Loaded)
    BY <1>1, <1>3, UnitsKept
  <2> QED BY <1>1, <1>2, <1>3, <2>1 DEF BooksInv, RestTypes, BooksBalance
<1>5. \/ pc' = [pc EXCEPT ![p] = "refused"] /\ UNCHANGED <<seen, left, fresh>>
      \/ \E s \in Oldest(active) :
            /\ seen' = [seen EXCEPT ![p] = loadedAt[s]]
            /\ left' = [left EXCEPT ![p] = quantity[s] - units[p]]
            /\ pc' = [pc EXCEPT ![p] = "read"]
            /\ fresh' = [fresh EXCEPT ![p] = TRUE]
  BY DEF findBatch
<1>6. ASSUME NEW q \in Sales, q # p PROVE ReadOK(q)'
  <2>1. pc'[q] = pc[q] /\ seen'[q] = seen[q] /\ left'[q] = left[q] /\ fresh'[q] = fresh[q]
    BY <1>1, <1>5, <1>6 DEF SaleTypes, Fresh
  <2> QED BY <1>2, <1>3, <2>1, ReadKept DEF BooksInv
<1>7. ReadOK(p)'
  <2>1. CASE pc' = [pc EXCEPT ![p] = "refused"]
    BY <1>1, <2>1 DEF ReadOK, SaleTypes
  <2>2. ASSUME NEW s \in Oldest(active),
               seen' = [seen EXCEPT ![p] = loadedAt[s]],
               left' = [left EXCEPT ![p] = quantity[s] - units[p]]
        PROVE  ReadOK(p)'
    <3>1. s \in Loaded /\ s \in Slots
      BY StockAssumption DEF Oldest, CanSell, Loaded, StockAssumption
    <3>2. seen'[p] = loadedAt[s] /\ left'[p] = quantity[s] - units[p]
      BY <1>1, <2>2 DEF SaleTypes
    <3>3. quantity[s] = left'[p] + units[p]
      BY <1>1, <3>1, <3>2 DEF BatchTypes, SaleTypes
    <3>4. s \in WithId(seen[p])'
      BY <1>3, <3>1, <3>2 DEF WithId
    <3> QED BY <1>2, <1>3, <3>3, <3>4 DEF ReadOK
  <2> QED BY <1>5, <2>1, <2>2
<1> QED BY <1>4, <1>6, <1>7 DEF BooksInv

(* A sale that writes what it knows takes its units out of one batch.      *)
LEMMA SaleWrites ==
    ASSUME IInv, IInv', BooksInv, NEW p \in Sales, takeBatch(p)
    PROVE  BooksInv'
<1>1. BatchTypes /\ BatchTypes' /\ SaleTypes /\ RestTypes
  BY DEF IInv, BatchInv, BooksInv
<1>2. /\ UNCHANGED <<food, clock, expiry, units, back>> /\ Overtake({})
      /\ books' = books - units[p] /\ pc[p] = "read"
  BY DEF takeBatch
<1>3. raced' = (raced \/ ~fresh[p] \/ Cardinality(WithId(seen[p])) # 1)
  BY Zenon DEF takeBatch
<1>4. raced' \in BOOLEAN /\ (~raced' => ~raced /\ fresh[p] /\ Cardinality(WithId(seen[p])) = 1)
  <2>1. (raced \/ ~fresh[p] \/ Cardinality(WithId(seen[p])) # 1) \in BOOLEAN
    OBVIOUS
  <2>2. raced' \in BOOLEAN
    BY <1>3, <2>1, Zenon
  <2>3. ~raced' => ~raced /\ fresh[p] /\ Cardinality(WithId(seen[p])) = 1
    BY <1>3, Zenon
  <2> QED BY <2>2, <2>3
<1>5. RestTypes'
  <2>1. books' \in Int
    BY <1>1, <1>2 DEF RestTypes, SaleTypes
  <2> QED BY <1>1, <1>2, <1>4, <2>1 DEF RestTypes
<1>6. ASSUME ~raced' PROVE UnitsIn(Loaded)' = books'
  <2>1. UnitsIn(Loaded) = books
    BY <1>4, <1>6 DEF BooksInv, BooksBalance
  <2>2. PICK s \in WithId(seen[p]) : quantity[s] = left[p] + units[p]
    BY <1>2, <1>4, <1>6 DEF BooksInv, ReadOK
  <2>3. s \in Loaded /\ s \in Slots
    BY DEF WithId, Loaded
  <2>4. WithId(seen[p]) = {s}
    <3>1. IsFiniteSet(WithId(seen[p]))
      BY LoadedFinite DEF WithId
    <3>2. PICK x : WithId(seen[p]) = {x}
      BY <1>4, <1>6, <3>1, FS_Singleton
    <3> QED BY <3>2
  <2>5. First(WithId(seen[p])) = s
    BY <2>3, <2>4, FirstOf, SlotsAreNumbers
  <2>6. /\ quantity' = [quantity EXCEPT ![s] = left[p]]
        /\ status' = [status EXCEPT ![s] = IF left[p] <= 0 THEN "depleted" ELSE @]
    BY <2>4, <2>5 DEF takeBatch
  <2>7. Loaded' = Loaded
    BY <1>1, <2>3, <2>6, StockAssumption DEF Loaded, BatchTypes, StockAssumption
  <2>8. quantity'[s] = left[p] /\ \A t \in Loaded \ {s} : quantity'[t] = quantity[t]
    BY <1>1, <2>3, <2>6 DEF BatchTypes, Loaded
  <2>9. UnitsIn(Loaded)' = UnitsIn(Loaded) - quantity[s] + left[p]
    BY <1>1, <2>3, <2>7, <2>8, UnitsWritten
  <2>10. UnitsIn(Loaded) \in Int /\ left[p] \in Int /\ units[p] \in Int
    BY <1>1, LoadedFinite, UnitsType DEF SaleTypes
  <2> QED BY <1>2, <2>1, <2>2, <2>9, <2>10
<1> QED BY <1>2, <1>5, <1>6, BooksWritten

LEMMA UnitsRestored ==
    ASSUME IInv, IInv', BooksInv, NEW p \in Orders, restoreBatchStock(p)
    PROVE  BooksInv'
<1> DEFINE found == Positional({OfItem(want[p]), InStatus({"active", "depleted"})})
<1>1. BatchTypes /\ BatchTypes' /\ SaleTypes /\ RestTypes /\ p \in Sales
  BY SaleNumbers DEF IInv, BatchInv, BooksInv
<1>2. UNCHANGED <<food, clock, status, item, loadedAt, expiry, pc, units, seen, left, raced>>
      /\ back' = [back EXCEPT ![p] = "reactivate"]
  BY DEF restoreBatchStock
<1>3. \/ UNCHANGED <<quantity, books, fresh>>
      \/ \E s \in found :
            /\ quantity' = [quantity EXCEPT ![s] = @ + units[p]]
            /\ books' = books + units[p] /\ Overtake({})
  BY DEF restoreBatchStock
<1>4. back' \in [Sales -> {"no", "increment", "reactivate", "done"}]
  BY <1>1, <1>2 DEF RestTypes
<1>5. CASE UNCHANGED <<quantity, books, fresh>>
  BY <1>1, <1>2, <1>4, <1>5, BooksKept DEF batches, RestTypes
<1>6. ASSUME NEW s \in found, quantity' = [quantity EXCEPT ![s] = @ + units[p]],
             books' = books + units[p], Overtake({})
      PROVE  BooksInv'
  <2>1. OfItem(want[p]) \subseteq Loaded /\ InStatus({"active", "depleted"}) \subseteq Loaded
    BY StockAssumption DEF OfItem, InStatus, Loaded, StockAssumption
  <2>2. s \in Loaded /\ s \in Slots
    BY <2>1, PositionalSlots DEF Loaded
  <2>3. Loaded' = Loaded /\ quantity'[s] = quantity[s] + units[p]
        /\ \A t \in Loaded \ {s} : quantity'[t] = quantity[t]
    BY <1>1, <1>2, <1>6, <2>2 DEF BatchTypes, Loaded
  <2>4. UnitsIn(Loaded)' = UnitsIn(Loaded) - quantity[s] + (quantity[s] + units[p])
    BY <1>1, <2>2, <2>3, UnitsWritten
  <2>5. UnitsIn(Loaded) \in Int /\ quantity[s] \in Int /\ units[p] \in Int
    BY <1>1, <2>2, LoadedFinite, UnitsType DEF SaleTypes, BatchTypes
  <2>6. raced' \/ UnitsIn(Loaded)' = books'
    BY <1>2, <1>6, <2>4, <2>5 DEF BooksInv, BooksBalance
  <2>7. RestTypes'
    BY <1>1, <1>2, <1>4, <1>6, <2>5 DEF RestTypes
  <2> QED BY <1>6, <2>6, <2>7, BooksWritten
<1> QED BY <1>3, <1>5, <1>6

LEMMA BatchReactivated ==
    ASSUME IInv, BooksInv, NEW p \in Orders, reactivateBatch(p)
    PROVE  BooksInv'
<1> DEFINE found == Positional({OfItem(want[p]), InStatus({"depleted"}),
                                {s \in Loaded : quantity[s] > 0}})
<1>1. BatchTypes /\ RestTypes /\ p \in Sales
  BY SaleNumbers DEF IInv, BatchInv, BooksInv
<1>2. UNCHANGED <<food, clock, item, loadedAt, quantity, expiry, pc, units, seen, left, books, raced>>
      /\ back' = [back EXCEPT ![p] = "done"]
  BY DEF reactivateBatch
<1>3. \/ UNCHANGED <<status, fresh>>
      \/ \E s \in found : status' = [status EXCEPT ![s] = "active"] /\ Overtake({})
  BY DEF reactivateBatch
<1>4. back' \in [Sales -> {"no", "increment", "reactivate", "done"}] /\ RestTypes'
  BY <1>1, <1>2 DEF RestTypes
<1>5. CASE UNCHANGED <<status, fresh>>
  BY <1>1, <1>2, <1>4, <1>5, BooksKept DEF batches, RestTypes
<1>6. ASSUME NEW s \in found, status' = [status EXCEPT ![s] = "active"], Overtake({})
      PROVE  BooksInv'
  <2>1. OfItem(want[p]) \subseteq Loaded /\ InStatus({"depleted"}) \subseteq Loaded
    BY StockAssumption DEF OfItem, InStatus, Loaded, StockAssumption
  <2>2. s \in Loaded
    BY <2>1, PositionalSlots
  <2>3. Loaded' = Loaded
    BY <1>1, <1>6, <2>2, StockAssumption DEF BatchTypes, Loaded, StockAssumption
  <2>4. UnitsIn(Loaded)' = UnitsIn(Loaded)
    BY <1>1, <1>2, <2>3, UnitsKept
  <2> QED BY <1>2, <1>4, <1>6, <2>4, BooksWritten DEF BooksInv, BooksBalance
<1> QED BY <1>3, <1>5, <1>6

LEMMA OrderBooks ==
    ASSUME IInv, BooksInv, NEW p \in Orders,
           \/ settle(p) \/ timeOut(p)
           \/ \E i \in Items, n \in Quantities : placeOrder(p, i, n)
    PROVE  BooksInv'
<1>1. Fresh /\ SaleTypes /\ RestTypes /\ BatchTypes /\ p \in Sales
  BY SaleNumbers DEF IInv, BatchInv, BooksInv
<1>2. CASE timeOut(p)
  BY <1>1, <1>2, BooksKept DEF timeOut, RestTypes, history
<1>3. ASSUME UNCHANGED <<food, clock, batches, seen, left, back, books, raced>>,
             \A q \in Sales \ {p} : /\ pc'[q] = pc[q] /\ units'[q] = units[q]
                                    /\ fresh'[q] = fresh[q],
             units' \in [Sales -> Quantities \cup {0}], pc'[p] # "read"
      PROVE  BooksInv'
  <2>1. UNCHANGED <<status, loadedAt, quantity, expiry>> /\ Loaded' = Loaded
    BY <1>3 DEF batches, Loaded
  <2>2. UnitsIn(Loaded)' = UnitsIn(Loaded)
    BY <1>1, <2>1, UnitsKept
  <2>3. RestTypes' /\ BooksBalance'
    BY <1>1, <1>3, <2>1, <2>2 DEF BooksInv, RestTypes, BooksBalance
  <2>4. ASSUME NEW q \in Sales PROVE ReadOK(q)'
    <3>1. CASE q = p
      BY <1>3, <3>1 DEF ReadOK
    <3>2. CASE q # p
      BY <1>3, <2>1, <3>2, ReadKept DEF BooksInv
    <3> QED BY <3>1, <3>2
  <2> QED BY <2>3, <2>4 DEF BooksInv
<1>4. CASE settle(p)
  BY <1>1, <1>3, <1>4 DEF settle, SaleTypes, RestTypes, history
<1>5. ASSUME NEW i \in Items, NEW n \in Quantities, placeOrder(p, i, n)
      PROVE  BooksInv'
  <2>1. /\ UNCHANGED <<food, clock, batches, seen, left, back, books, raced>>
        /\ pc' = [pc EXCEPT ![p] = "placed"] /\ units' = [units EXCEPT ![p] = n]
        /\ fresh' = [fresh EXCEPT ![p] = TRUE]
    BY <1>5 DEF placeOrder
  <2>2. /\ \A q \in Sales \ {p} : /\ pc'[q] = pc[q] /\ units'[q] = units[q]
                                  /\ fresh'[q] = fresh[q]
        /\ units' \in [Sales -> Quantities \cup {0}] /\ pc'[p] # "read"
    BY <1>1, <2>1 DEF SaleTypes, RestTypes, Fresh
  <2> QED BY <1>3, <2>1, <2>2
<1> QED BY <1>2, <1>4, <1>5

LEMMA UnloadBooks ==
    ASSUME IInv, BooksInv, NEW p \in Unloads, NEW i \in Items, NEW n \in Quantities,
           unload(p, i, n)
    PROVE  BooksInv'
<1>1. SaleTypes /\ RestTypes /\ BatchTypes /\ p \in Sales
  BY SaleNumbers DEF IInv, BatchInv, BooksInv
<1>2. /\ UNCHANGED <<food, clock, batches, seen, left, back, books, raced, fresh>>
      /\ pc' = [pc EXCEPT ![p] = "placed"] /\ units' = [units EXCEPT ![p] = n]
  BY DEF unload, history
<1>3. UNCHANGED <<status, loadedAt, quantity, expiry>> /\ Loaded' = Loaded
  BY <1>2 DEF batches, Loaded
<1>4. UnitsIn(Loaded)' = UnitsIn(Loaded)
  BY <1>1, <1>3, UnitsKept
<1>5. RestTypes' /\ BooksBalance'
  BY <1>1, <1>2, <1>3, <1>4 DEF BooksInv, RestTypes, BooksBalance
<1>6. ASSUME NEW q \in Sales PROVE ReadOK(q)'
  <2>1. CASE q = p
    BY <1>1, <1>2, <2>1 DEF ReadOK, SaleTypes
  <2>2. CASE q # p
    <3>1. pc'[q] = pc[q] /\ units'[q] = units[q]
      BY <1>1, <1>2, <2>2 DEF SaleTypes, RestTypes
    <3> QED BY <1>2, <1>3, <3>1, ReadKept DEF BooksInv
  <2> QED BY <2>1, <2>2
<1> QED BY <1>5, <1>6 DEF BooksInv

LEMMA EditBooks ==
    ASSUME IInv, BooksInv, NEW e \in Edits, Edit(e)
    PROVE  BooksInv'
<1>1. Fresh /\ RestTypes /\ \A p \in Sales : p # e
  BY SaleNumbers DEF IInv, BatchInv, BooksInv
<1>2. UNCHANGED <<food, clock, batches, sales, books, raced>>
  BY DEF Edit, updateMachineStock, updateInventory, findInventory, pushInventory, saveInventory,
         StartEdit, Saved
<1>3. fresh' = [fresh EXCEPT ![e] = TRUE] \/ Saved(e)
  BY DEF Edit, updateMachineStock, updateInventory, findInventory, pushInventory, saveInventory,
         StartEdit
<1>4. \A p \in Sales : fresh'[p] => fresh[p]
  BY <1>1, <1>3, EditsOvertaken DEF Fresh, Saved
<1> QED BY <1>1, <1>2, <1>4, BooksKept DEF sales, RestTypes

LEMMA RemovalBooks ==
    ASSUME IInv, BooksInv, NEW i \in Items, removeItem(i)
    PROVE  BooksInv'
<1>1. Fresh /\ RestTypes
  BY DEF IInv, BatchInv, BooksInv
<1>2. UNCHANGED <<food, clock, batches, sales, books, raced>>
  BY DEF removeItem
<1>3. \A p \in Sales : fresh'[p] => fresh[p]
  BY <1>1, EditsOvertaken DEF removeItem
<1> QED BY <1>1, <1>2, <1>3, BooksKept DEF sales, RestTypes

LEMMA NextBooks ==
    ASSUME IInv, BooksInv, [Next]_vars
    PROVE  BooksInv'
<1>0. IInv' /\ RestTypes
  BY NextIInv DEF BooksInv
<1>1. CASE Tick
  <2>1. clock' \in 0 .. MaxClock
    BY <1>0, <1>1, StockAssumption DEF Tick, RestTypes, StockAssumption
  <2> QED BY <1>0, <1>1, <2>1, BooksKept DEF Tick, sales, history, RestTypes
<1>2. CASE \/ \E i \in Items, q \in BatchSizes, life \in ShelfLife : loadBatch(i, q, life)
           \/ \E id \in 0 .. MaxClock : removeBatch(id)
           \/ checkBatchExpiry
  BY <1>0, <1>2, BatchLoads, BatchLeaves, BatchesExpire
<1>3. CASE \E p \in Orders : Order(p)
  BY <1>0, <1>3, OrderBooks, UnitsRestored, BatchReactivated DEF Order
<1>4. CASE \E p \in Unloads, i \in Items, q \in Quantities : unload(p, i, q)
  BY <1>4, UnloadBooks
<1>5. CASE \E p \in Sales : Sell(p)
  BY <1>0, <1>5, SaleReads, SaleWrites DEF Sell
<1>6. CASE \E e \in Edits : Edit(e)
  BY <1>6, EditBooks
<1>7. CASE \E i \in Items : removeItem(i)
  BY <1>7, RemovalBooks
<1>8. CASE UNCHANGED vars
  BY <1>0, <1>8, BooksKept DEF vars, sales, history, RestTypes
<1> QED BY <1>1, <1>2, <1>3, <1>4, <1>5, <1>6, <1>7, <1>8 DEF Next

LEMMA InitBooks ==
    ASSUME Init
    PROVE  BooksInv
<1>1. RestTypes
  <2>1. 0 \in 0 .. MaxClock
    BY StockAssumption DEF StockAssumption
  <2>2. food \in BOOLEAN /\ raced \in BOOLEAN
    BY Zenon DEF Init
  <2>3. books \in Int
    BY DEF Init
  <2>4. /\ expiry \in [Slots -> Nat]
        /\ units \in [Sales -> Quantities \cup {0}]
        /\ back \in [Sales -> {"no", "increment", "reactivate", "done"}]
    BY DEF Init
  <2>5. clock \in 0 .. MaxClock
    BY <2>1 DEF Init
  <2> QED BY <2>2, <2>3, <2>4, <2>5 DEF RestTypes
<1>2. Loaded = {}
  BY DEF Init, Loaded
<1>3. UnitsIn(Loaded) = books
  BY <1>2, SumEmpty, UnitsAreSum DEF Init
<1>4. \A p \in Sales : ReadOK(p)
  BY DEF Init, ReadOK
<1> QED BY <1>1, <1>3, <1>4 DEF BooksInv, BooksBalance

-----------------------------------------------------------------------------
(* No batch shows a negative quantity, although sales write back what they *)
(* computed from an earlier read (machines.service.ts:1018).               *)
THEOREM StockQuantityCovered == Spec => []QuantityCovered
<1>1. IInv => QuantityCovered
  BY DEF IInv, BatchInv, BatchTypes, QuantityCovered
<1> QED BY InitIInv, NextIInv, <1>1, PTL DEF Spec

(* The cups shown are worth the grams stored for every stock and dose that *)
(* is entered, unless an edit saved over what it had not read; but for     *)
(* seeded entries before their first edit and doses set to null            *)
(* (machines.service.ts:581, 1203, agents.service.ts:643).                 *)
THEOREM StockCupsFollowGrams == Spec => []CupsFollowGrams
<1>1. IInv => CupsFollowGrams
  BY DEF IInv, InventoryInv
<1> QED BY InitIInv, NextIInv, <1>1, PTL DEF Spec

(* If nothing was written since an order was priced, its units come from   *)
(* the batch of the price (orders.service.ts:149, machines.service.ts:1018)*)
THEOREM StockPricedBatchIsTaken == Spec => PricedBatchIsTaken
<1>1. IInv /\ [Next]_vars =>
        [\A p \in Orders : pc[p] = "placed" /\ pc'[p] = "read" /\ fresh[p]
                             => seen'[p] = priced[p]]_vars
  BY NextTakesPriced
<1> QED BY InitIInv, NextIInv, <1>1, PTL DEF Spec, PricedBatchIsTaken

(* The state of a machine always has the declared shape.                   *)
THEOREM StockTypeCorrect == Spec => []TypeOK
<1>1. Init => BooksInv
  BY InitBooks
<1>2. IInv /\ BooksInv /\ [Next]_vars => BooksInv'
  BY NextBooks
<1>3. IInv /\ BooksInv => TypeOK
  <2> SUFFICES ASSUME IInv, BooksInv PROVE TypeOK
    OBVIOUS
  <2>1. Fresh /\ BatchTypes /\ SaleTypes /\ RestTypes
    BY DEF IInv, BatchInv, BooksInv
  <2>2. InventoryTypes /\ EditTypes /\ mixed \in BOOLEAN
    BY DEF IInv, InventoryInv
  <2>3. quantity \in [Slots -> Int]
    BY <2>1 DEF BatchTypes
  <2> QED BY <2>1, <2>2, <2>3
          DEF Fresh, BatchTypes, SaleTypes, RestTypes, InventoryTypes, EditTypes, TypeOK
<1> QED BY InitIInv, NextIInv, <1>1, <1>2, <1>3, PTL DEF Spec

(* Unless a sale wrote over something it had not seen, the units on the    *)
(* machine are those loaded, less those sold and removed, plus those put   *)
(* back, for any number of batches, sales and restorations that interleave *)
(* (machines.service.ts:1018, 1063).                                       *)
THEOREM StockBooksBalance == Spec => []BooksBalance
<1>1. Init => BooksInv
  BY InitBooks
<1>2. IInv /\ BooksInv /\ [Next]_vars => BooksInv'
  BY NextBooks
<1>3. BooksInv => BooksBalance
  BY DEF BooksInv
<1> QED BY InitIInv, NextIInv, <1>1, <1>2, <1>3, PTL DEF Spec
============================================================================
