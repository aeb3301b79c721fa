-------------------------------- MODULE Stock --------------------------------
(***************************************************************************)
(* What one machine holds: the food batches that MachinesService sells     *)
(* from, oldest first, and the inventory of ingredients of coffee machines.*)
(*                                                                         *)
(* Both live in arrays of one machine document.  batches is a function on  *)
(* Slots, the positions the $push of loadBatch fills one after the other;  *)
(* $pull empties a slot.  A batch is identified by the second it was       *)
(* loaded in (batchId), so two of them may share an id.                    *)
(*                                                                         *)
(* A sale (Sales: an order of a food item, or an agent's unload) reads the *)
(* batches and later writes an absolute quantity back; the timeout cron    *)
(* puts the units of an order back in two further updates; other handlers  *)
(* write in between.  An edit (Edits) is the same for the inventory: read  *)
(* the document, save it later.                                            *)
(*                                                                         *)
(* books, raced and fresh are history: what the machine should hold, and   *)
(* whether a write was ever based on a read that something had overtaken   *)
(* (raced for the batches, mixed for the inventory).                       *)
(***************************************************************************)
EXTENDS Integers, FiniteSets, FiniteSetsExt

CONSTANTS
    Items,
    Slots,          \* 1..n: how many batches a behaviour loads
    Orders, Unloads, Edits,   \* handler invocations of a behaviour
    BatchSizes,     \* units an agent loads
    Quantities,     \* units a customer orders or an agent unloads
    ShelfLife,      \* seconds from loading to expiry that agents enter
    MaxClock,       \* bound of the clock
    Cups,           \* cups an agent loads into or takes from a canister
    Stocks, Doses,  \* currentStock, gramsPerCup an administrator may enter
    DefaultDose,    \* 18 grams
    Seeded, SeedStock, SeedDose,   \* entries a coffee machine is seeded with
    MaxGrams,       \* bound of what agents fill a canister to
    None,           \* nothing, a field that is not given
    Null            \* a gramsPerCup given as null

(* Invocations that sell from the batches.                                 *)
Sales == Orders \cup Unloads

ASSUME StockAssumption ==
    /\ Orders \cap Unloads = {} /\ Sales \cap Edits = {}
    /\ IsFiniteSet(Slots) /\ Slots = 1 .. Cardinality(Slots)
    /\ BatchSizes \subseteq Nat \ {0}
    /\ Quantities \subseteq Nat \ {0}
    /\ ShelfLife \subseteq Nat
    /\ MaxClock \in Nat /\ MaxGrams \in Nat
    /\ Cups \subseteq Nat \ {0} /\ Stocks \subseteq Int /\ Doses \subseteq Int
    /\ DefaultDose \in Nat \ {0}
    /\ Seeded \subseteq Items /\ SeedStock \in Nat /\ SeedDose \in Nat \ {0}
    /\ None \notin Items /\ None \notin Int /\ Null \notin Int /\ None # Null
    /\ None \notin {"active", "expired", "depleted"}

VARIABLES
    food,       \* machineType is food, otherwise coffee
    clock,
    status, item, loadedAt, quantity, expiry,   \* the batch documents
    pc, want, units, seen, left,                \* the sales
    back,                                       \* the restoration of a sale's units
    priced,                                     \* the batch an order's price was based on
    grams, dose, cups, version,                 \* the inventory documents, __v
    edit, canister, stockTo, doseTo, entry,     \* the edits
    books, raced, fresh, mixed                  \* history

batches == <<status, item, loadedAt, quantity, expiry>>
sales == <<pc, want, units, seen, left, back, priced>>
inventory == <<grams, dose, cups, version>>
edits == <<edit, canister, stockTo, doseTo, entry>>
history == <<books, raced, fresh, mixed>>
vars == <<food, clock, batches, sales, inventory, edits, history>>

(* The DTO bounds neither the stock nor the dose: both may be zero or      *)
(* negative.  Fractions of a gram are numbers of a smaller unit.           *)
DoseTypes == Int \cup {Null}

(* What an edit has read of its canister, an entry or the lack of one, and *)
(* whether entries have moved since.                                       *)
Entries == [grams : Int \cup {None}, dose : DoseTypes, cups : Int, version : Nat,
            moved : BOOLEAN]

TypeOK ==
    /\ food \in BOOLEAN
    /\ clock \in 0 .. MaxClock
    /\ status \in [Slots -> {None, "active", "expired", "depleted"}]
    /\ item \in [Slots -> Items \cup {None}]
    /\ loadedAt \in [Slots -> Nat]
    /\ quantity \in [Slots -> Int]
    /\ expiry \in [Slots -> Nat]
    /\ pc \in [Sales -> {"idle", "placed", "read", "sold", "refused", "settled"}]
    /\ want \in [Sales -> Items \cup {None}]
    /\ units \in [Sales -> Quantities \cup {0}]
    /\ seen \in [Sales -> Nat \cup {None}]
    /\ left \in [Sales -> Int]
    /\ back \in [Sales -> {"no", "increment", "reactivate", "done"}]
    /\ priced \in [Sales -> Nat \cup {None}]
    /\ grams \in [Items -> Int \cup {None}]
    /\ dose \in [Items -> DoseTypes]
    /\ cups \in [Items -> Int]
    /\ version \in Nat
    /\ edit \in [Edits -> {"idle", "find", "save", "done"}]
    /\ canister \in [Edits -> Items \cup {None}]
    /\ stockTo \in [Edits -> Int]
    /\ doseTo \in [Edits -> DoseTypes \cup {None}]
    /\ entry \in [Edits -> Entries \cup {None}]
    /\ books \in Int
    /\ raced \in BOOLEAN
    /\ fresh \in [Sales \cup Edits -> BOOLEAN]
    /\ mixed \in BOOLEAN

Init ==
    /\ food \in BOOLEAN
    /\ clock = 0
    /\ status = [s \in Slots |-> None]
    /\ item = [s \in Slots |-> None]
    /\ loadedAt = [s \in Slots |-> 0]
    /\ quantity = [s \in Slots |-> 0]
    /\ expiry = [s \in Slots |-> 0]
    /\ pc = [p \in Sales |-> "idle"]
    /\ want = [p \in Sales |-> None]
    /\ units = [p \in Sales |-> 0]
    /\ seen = [p \in Sales |-> None]
    /\ left = [p \in Sales |-> 0]
    /\ back = [p \in Sales |-> "no"]
    /\ priced = [p \in Sales |-> None]
    /\ grams = [i \in Items |-> IF i \in Seeded /\ ~food THEN SeedStock ELSE None]
    /\ dose = [i \in Items |-> IF i \in Seeded /\ ~food THEN SeedDose ELSE 0]
    /\ cups = [i \in Items |-> 0]
    /\ version = 0
    /\ edit = [e \in Edits |-> "idle"]
    /\ canister = [e \in Edits |-> None]
    /\ stockTo = [e \in Edits |-> 0]
    /\ doseTo = [e \in Edits |-> None]
    /\ entry = [e \in Edits |-> None]
    /\ books = 0
    /\ raced = FALSE
    /\ fresh = [p \in Sales \cup Edits |-> FALSE]
    /\ mixed = FALSE

-----------------------------------------------------------------------------
Loaded == {s \in Slots : status[s] # None}

First(S) == CHOOSE s \in S : \A t \in S : s <= t

(* What the positional operator of an update may select: every condition   *)
(* on the array is matched by itself, and the position is that of the first*)
(* element matching one of them.                                           *)
Positional(conditions) ==
    IF {} \in conditions THEN {} ELSE {First(c) : c \in conditions}

(* A write of the batches: whatever a sale has read before is overtaken.   *)
Overtake(ids) ==
    fresh' = [p \in Sales \cup Edits |-> IF p \in Sales THEN p \in ids ELSE fresh[p]]

Tick ==
    /\ clock < MaxClock
    /\ clock' = clock + 1
    /\ UNCHANGED <<food, batches, sales, inventory, edits, history>>

(* loadBatch.  The batchId is the second of loading.                       *)
loadBatch(i, q, life) ==
    /\ food
    /\ \E s \in Slots :
       /\ s = First({t \in Slots : \A l \in Loaded : l < t} \cup {Cardinality(Slots)})
       /\ s \notin Loaded
       /\ status' = [status EXCEPT ![s] = "active"]
       /\ item' = [item EXCEPT ![s] = i]
       /\ loadedAt' = [loadedAt EXCEPT ![s] = clock]
       /\ quantity' = [quantity EXCEPT ![s] = q]
       /\ expiry' = [expiry EXCEPT ![s] = clock + life]
    /\ books' = books + q
    /\ Overtake({})
    /\ UNCHANGED <<food, clock, sales, inventory, edits, raced, mixed>>

WithId(id) == {s \in Loaded : loadedAt[s] = id}

UnitsIn(S) == MapThenSumSet(LAMBDA s : quantity[s], S)

(* removeBatch pulls every batch with the id.                              *)
removeBatch(id) ==
    /\ WithId(id) # {}
    /\ status' = [s \in Slots |-> IF s \in WithId(id) THEN None ELSE status[s]]
    /\ item' = [s \in Slots |-> IF s \in WithId(id) THEN None ELSE item[s]]
    /\ loadedAt' = [s \in Slots |-> IF s \in WithId(id) THEN 0 ELSE loadedAt[s]]
    /\ quantity' = [s \in Slots |-> IF s \in WithId(id) THEN 0 ELSE quantity[s]]
    /\ expiry' = [s \in Slots |-> IF s \in WithId(id) THEN 0 ELSE expiry[s]]
    /\ books' = books - UnitsIn(WithId(id))
    /\ Overtake({})
    /\ UNCHANGED <<food, clock, sales, inventory, edits, raced, mixed>>

(* checkBatchExpiry, hourly: array filters make each update exact.         *)
Due(s) == status[s] = "active" /\ expiry[s] < clock

checkBatchExpiry_FirstOnly ==
    /\ \E s \in Slots : Due(s)
    /\ Due(First(Loaded))
    /\ status' = [status EXCEPT ![First(Loaded)] = "expired"]
    /\ Overtake({})
    /\ UNCHANGED <<food, clock, item, loadedAt, quantity, expiry, sales, inventory, edits, books, raced, mixed>>

checkBatchExpiry ==
    /\ \E s \in Slots : Due(s)
    /\ status' = [s \in Slots |-> IF Due(s) THEN "expired" ELSE status[s]]
    /\ Overtake({})
    /\ UNCHANGED <<food, clock, item, loadedAt, quantity, expiry, sales, inventory, edits, books, raced, mixed>>

-----------------------------------------------------------------------------
(* The stock check of placeOrder, and of the batches deductBatchStock      *)
(* sells from.                                                             *)
CanSell(i, q) ==
    {s \in Slots : item[s] = i /\ status[s] = "active" /\ quantity[s] >= q}

(* placeOrder: the batch that decides whether the near-expiry price holds. *)
placeOrder(p, i, q) ==
    /\ food /\ pc[p] = "idle"
    /\ CanSell(i, q) # {}
    /\ pc' = [pc EXCEPT ![p] = "placed"]
    /\ want' = [want EXCEPT ![p] = i]
    /\ units' = [units EXCEPT ![p] = q]
    /\ priced' = [priced EXCEPT ![p] = loadedAt[First(CanSell(i, q))]]
    /\ fresh' = [fresh EXCEPT ![p] = TRUE]
    /\ UNCHANGED <<food, clock, batches, seen, left, back, inventory, edits, books, raced, mixed>>

(* updateMachineStock of an agent, action unload, on a food machine.       *)
unload(p, i, q) ==
    /\ food /\ pc[p] = "idle"
    /\ pc' = [pc EXCEPT ![p] = "placed"]
    /\ want' = [want EXCEPT ![p] = i]
    /\ units' = [units EXCEPT ![p] = q]
    /\ UNCHANGED <<food, clock, batches, seen, left, back, priced, inventory, edits, history>>

(* deductBatchStock: choose the oldest batch that has enough ...           *)
Oldest(S) == {s \in S : \A t \in S : loadedAt[s] <= loadedAt[t]}

findBatch_AnyQuantity(p) ==
    /\ pc[p] = "placed"
    /\ LET active == CanSell(want[p], 0) IN
       /\ active # {}
       /\ seen' = [seen EXCEPT ![p] = loadedAt[First(Oldest(active))]]
       /\ left' = [left EXCEPT ![p] = quantity[First(Oldest(active))] - units[p]]
       /\ pc' = [pc EXCEPT ![p] = "read"]
       /\ fresh' = [fresh EXCEPT ![p] = TRUE]
    /\ UNCHANGED <<food, clock, batches, want, units, back, priced, inventory, edits, books, raced, mixed>>

findBatch_NewestFirst(p) ==
    /\ pc[p] = "placed"
    /\ \E s \in CanSell(want[p], units[p]) :
       /\ \A t \in CanSell(want[p], units[p]) : loadedAt[t] <= loadedAt[s]
       /\ seen' = [seen EXCEPT ![p] = loadedAt[s]]
       /\ left' = [left EXCEPT ![p] = quantity[s] - units[p]]
       /\ pc' = [pc EXCEPT ![p] = "read"]
       /\ fresh' = [fresh EXCEPT ![p] = TRUE]
    /\ UNCHANGED <<food, clock, batches, want, units, back, priced, inventory, edits, books, raced, mixed>>

findBatch(p) ==
    /\ pc[p] = "placed"
    /\ LET active == CanSell(want[p], units[p]) IN
       IF active = {}
       THEN pc' = [pc EXCEPT ![p] = "refused"] /\ UNCHANGED <<seen, left, fresh>>
       ELSE \E s \in Oldest(active) :
            /\ seen' = [seen EXCEPT ![p] = loadedAt[s]]
            /\ left' = [left EXCEPT ![p] = quantity[s] - units[p]]
            /\ pc' = [pc EXCEPT ![p] = "read"]
            /\ fresh' = [fresh EXCEPT ![p] = TRUE]
    /\ UNCHANGED <<food, clock, batches, want, units, back, priced, inventory, edits, books, raced, mixed>>

(* ... and write what is left of it, absolutely, to the first batch that   *)
(* has its id.  The sale goes on also when there is none any more.         *)
takeBatch(p) ==
    /\ pc[p] = "read"
    /\ pc' = [pc EXCEPT ![p] = IF p \in Orders THEN "sold" ELSE "settled"]
    /\ seen' = [seen EXCEPT ![p] = None]
    /\ left' = [left EXCEPT ![p] = 0]
    /\ priced' = [priced EXCEPT ![p] = None]
    /\ IF WithId(seen[p]) = {}
       THEN UNCHANGED <<quantity, status>>
       ELSE LET s == First(WithId(seen[p])) IN
            /\ quantity' = [quantity EXCEPT ![s] = left[p]]
            /\ status' = [status EXCEPT ![s] = IF left[p] <= 0 THEN "depleted" ELSE @]
    /\ books' = books - units[p]
    /\ raced' = (raced \/ ~fresh[p] \/ Cardinality(WithId(seen[p])) # 1)
    /\ Overtake({})
    /\ UNCHANGED <<food, clock, item, loadedAt, expiry, want, units, back, inventory, edits, mixed>>

(* The order leaves its active statuses otherwise than by the timeout:     *)
(* completed, failed, cancelled.  None of these handlers touches a batch.  *)
settle(p) ==
    /\ pc[p] = "sold" /\ p \in Orders /\ back[p] = "no"
    /\ pc' = [pc EXCEPT ![p] = "settled"]
    /\ UNCHANGED <<food, clock, batches, want, units, seen, left, back, priced, inventory, edits, history>>

(* The timeout cron fails an order that is still active, whether or not it *)
(* has taken its units, and calls restoreBatchStock.                       *)
timeOut(p) ==
    /\ p \in Orders /\ pc[p] \in {"placed", "read", "sold"} /\ back[p] = "no"
    /\ back' = [back EXCEPT ![p] = "increment"]
    /\ UNCHANGED <<food, clock, batches, pc, want, units, seen, left, priced, inventory, edits, history>>

(* restoreBatchStock: put the units back ...                               *)
OfItem(i)   == {s \in Loaded : item[s] = i}
InStatus(S) == {s \in Slots : status[s] \in S}

restoreBatchStock_Resets(p) ==
    /\ back[p] = "increment"
    /\ back' = [back EXCEPT ![p] = "reactivate"]
    /\ \E s \in Positional({OfItem(want[p]), InStatus({"active", "depleted"})}) :
          quantity' = [quantity EXCEPT ![s] = units[p]]
    /\ books' = books + units[p]
    /\ Overtake({})
    /\ UNCHANGED <<food, clock, status, item, loadedAt, expiry, pc, want, units, seen, left, priced,
                   inventory, edits, raced, mixed>>

restoreBatchStock(p) ==
    /\ back[p] = "increment"
    /\ back' = [back EXCEPT ![p] = "reactivate"]
    /\ LET found == Positional({OfItem(want[p]), InStatus({"active", "depleted"})}) IN
       \/ found = {} /\ UNCHANGED <<quantity, books, fresh>>
       \/ \E s \in found :
             /\ quantity' = [quantity EXCEPT ![s] = @ + units[p]]
             /\ books' = books + units[p]
             /\ Overtake({})
    /\ UNCHANGED <<food, clock, status, item, loadedAt, expiry, pc, want, units, seen, left, priced,
                   inventory, edits, raced, mixed>>

(* ... and make a depleted batch that has units again sellable.            *)
reactivateBatch(p) ==
    /\ back[p] = "reactivate"
    /\ back' = [back EXCEPT ![p] = "done"]
    /\ LET found == Positional({OfItem(want[p]), InStatus({"depleted"}),
                                {s \in Loaded : quantity[s] > 0}}) IN
       \/ found = {} /\ UNCHANGED <<status, fresh>>
       \/ \E s \in found :
             /\ status' = [status EXCEPT ![s] = "active"]
             /\ Overtake({})
    /\ UNCHANGED <<food, clock, item, loadedAt, quantity, expiry, pc, want, units, seen, left, priced,
                   inventory, edits, books, raced, mixed>>

-----------------------------------------------------------------------------
(* The inventory.  What a cup counts as; JavaScript's floor of a quotient. *)
Divisor(d) == IF d \in {0, Null} THEN DefaultDose ELSE d

CupsIn(g, d) == IF d > 0 THEN g \div d ELSE (-g) \div (-d)

(* A write of the inventory overtakes what the edits have read.            *)
OvertakeEdits == fresh' = [p \in Sales \cup Edits |-> p \in Sales /\ fresh[p]]

(* updateMachineStock of an agent on a coffee machine turns cups into      *)
(* grams with the document it reads ...                                    *)
DoseOf(i) == IF dose[i] # Null /\ dose[i] > 0 THEN dose[i] ELSE DefaultDose

StartEdit(e, i, stock, d) ==
    /\ edit[e] = "idle"
    /\ canister' = [canister EXCEPT ![e] = i]
    /\ stockTo' = [stockTo EXCEPT ![e] = stock]
    /\ doseTo' = [doseTo EXCEPT ![e] = d]
    /\ fresh' = [fresh EXCEPT ![e] = TRUE]
    /\ UNCHANGED <<food, clock, batches, sales, inventory, books, raced, mixed>>

updateMachineStock(e, i, n, load) ==
    /\ ~food /\ grams[i] # None
    /\ LET change == n * DoseOf(i)
           target == IF load THEN grams[i] + change
                     ELSE IF change < grams[i] THEN grams[i] - change ELSE 0
       IN  target <= MaxGrams /\ StartEdit(e, i, target, DoseOf(i))
    /\ edit' = [edit EXCEPT ![e] = "find"]
    /\ UNCHANGED entry

(* ... and calls updateInventory, as administrators do on any machine,     *)
(* with or without a new dose: the document is read ...                    *)
Read(e, i) ==
    /\ edit' = [edit EXCEPT ![e] = "save"]
    /\ entry' = [entry EXCEPT ![e] = [grams |-> grams[i], dose |-> dose[i], cups |-> cups[i],
                                      version |-> version, moved |-> FALSE]]

updateInventory(e, i, g, d) ==
    /\ StartEdit(e, i, g, d)
    /\ Read(e, i)

findInventory(e) ==
    /\ edit[e] = "find"
    /\ Read(e, canister[e])
    /\ fresh' = [fresh EXCEPT ![e] = TRUE]
    /\ UNCHANGED <<food, clock, batches, sales, inventory, canister, stockTo, doseTo,
                   books, raced, mixed>>

(* ... and saves the stock with the number of cups it is worth.            *)
Given(e) == doseTo[e] \notin {None, Null}

CupsFor(e) == CupsIn(stockTo[e], Divisor(IF Given(e) THEN doseTo[e] ELSE entry[e].dose))

Saved(e) ==
    /\ edit' = [edit EXCEPT ![e] = "done"]
    /\ mixed' = (mixed \/ (~fresh[e] /\ inventory' # inventory))
    /\ OvertakeEdits
    /\ stockTo' = [stockTo EXCEPT ![e] = 0]
    /\ doseTo' = [doseTo EXCEPT ![e] = None]
    /\ entry' = [entry EXCEPT ![e] = None]
    /\ UNCHANGED <<food, clock, batches, sales, canister, books, raced>>

(* A new entry is pushed.  Next to one that came in between it is never    *)
(* looked at again.                                                        *)
pushInventory_NoDefault(e) ==
    LET i == canister[e] IN
    /\ edit[e] = "save" /\ entry[e].grams = None /\ grams[i] = None
    /\ version' = version + 1
    /\ grams' = [grams EXCEPT ![i] = stockTo[e]]
    /\ cups' = [cups EXCEPT ![i] = CupsFor(e)]
    /\ dose' = [dose EXCEPT ![i] = doseTo[e]]
    /\ Saved(e)

pushInventory(e) ==
    LET i == canister[e] IN
    /\ edit[e] = "save" /\ entry[e].grams = None
    /\ version' = version + 1
    /\ \/ grams[i] # None /\ UNCHANGED <<grams, dose, cups>>
       \/ /\ grams[i] = None
          /\ grams' = [grams EXCEPT ![i] = stockTo[e]]
          /\ cups' = [cups EXCEPT ![i] = CupsFor(e)]
          /\ dose' = [dose EXCEPT ![i] = IF Given(e) THEN doseTo[e] ELSE DefaultDose]
    /\ Saved(e)

(* An entry that was read is set by its position: only the fields that     *)
(* change are sent.  After a removal the position may be that of any other *)
(* entry, or behind the last one; the save is rejected if an entry has     *)
(* been pushed to an array of the document (also to one not modelled).     *)
Sent(new, read, stored) == IF new = read THEN stored ELSE new

At(e) == IF entry[e].moved THEN {i \in Items : grams[i] # None} ELSE {canister[e]}

saveInventory_KeepsCups(e) ==
    LET i == canister[e] IN
    /\ edit[e] = "save" /\ entry[e].grams # None
    /\ grams' = [grams EXCEPT ![i] = Sent(stockTo[e], entry[e].grams, @)]
    /\ UNCHANGED <<dose, cups, version>>
    /\ Saved(e)

saveInventory(e) ==
    /\ edit[e] = "save" /\ entry[e].grams # None
    /\ \/ UNCHANGED <<grams, dose, cups>>
       \/ /\ entry[e].version = version
          /\ \E i \in At(e) :
             /\ grams' = [grams EXCEPT ![i] = Sent(stockTo[e], entry[e].grams, @)]
             /\ cups' = [cups EXCEPT ![i] = Sent(CupsFor(e), entry[e].cups, @)]
             /\ dose' = [dose EXCEPT ![i] = IF doseTo[e] # None
                                            THEN Sent(doseTo[e], entry[e].dose, @) ELSE @]
    /\ UNCHANGED version
    /\ Saved(e)

(* removeItem pulls the entry and leaves the version of the document.      *)
removeItem(i) ==
    /\ grams[i] # None
    /\ grams' = [grams EXCEPT ![i] = None]
    /\ dose' = [dose EXCEPT ![i] = 0]
    /\ cups' = [cups EXCEPT ![i] = 0]
    /\ entry' = [e \in Edits |-> IF edit[e] = "save" THEN [entry[e] EXCEPT !.moved = TRUE]
                                 ELSE entry[e]]
    /\ OvertakeEdits
    /\ UNCHANGED <<food, clock, batches, sales, version, edit, canister, stockTo, doseTo,
                   books, raced, mixed>>

-----------------------------------------------------------------------------
Order(p) ==
    \/ \E i \in Items, q \in Quantities : placeOrder(p, i, q)
    \/ settle(p)
    \/ timeOut(p)
    \/ restoreBatchStock(p)
    \/ reactivateBatch(p)

Sell(p) ==
    \/ findBatch(p)
    \/ takeBatch(p)

Edit(e) ==
    \/ \E i \in Items, n \in Cups, load \in BOOLEAN : updateMachineStock(e, i, n, load)
    \/ \E i \in Items, g \in Stocks, d \in Doses \cup {None, Null} : updateInventory(e, i, g, d)
    \/ findInventory(e)
    \/ pushInventory(e)
    \/ saveInventory(e)

Next ==
    \/ Tick
    \/ \E i \in Items, q \in BatchSizes, life \in ShelfLife : loadBatch(i, q, life)
    \/ \E id \in 0 .. MaxClock : removeBatch(id)
    \/ checkBatchExpiry
    \/ \E p \in Orders : Order(p)
    \/ \E p \in Unloads, i \in Items, q \in Quantities : unload(p, i, q)
    \/ \E p \in Sales : Sell(p)
    \/ \E e \in Edits : Edit(e)
    \/ \E i \in Items : removeItem(i)

Spec == Init /\ [][Next]_vars

(* The hourly cron runs; agents, customers and orders need not.            *)
FairSpec == Spec /\ WF_vars(checkBatchExpiry)

-----------------------------------------------------------------------------
(* No batch ever shows a negative quantity, however stale the quantity is  *)
(* that a sale writes back and whatever is restored in between: what is    *)
(* written was covered when it was read.                                   *)
QuantityCovered == \A s \in Slots : quantity[s] >= 0

(* Unless a sale wrote over something it had not seen (an overlapping      *)
(* write, or a second batch with the same id), the units on the machine    *)
(* are exactly the units loaded, less those sold and removed, plus those   *)
(* put back: whichever batch the positional updates of a restoration pick. *)
BooksBalance == raced \/ UnitsIn(Loaded) = books

(* A customer pays the price of the batch the units come from: if nothing  *)
(* was written since the order was priced, deductBatchStock's oldest batch *)
(* is the one whose expiry date placeOrder looked at.                      *)
PricedBatchIsTaken ==
    [][\A p \in Orders :
          pc[p] = "placed" /\ pc'[p] = "read" /\ fresh[p]
          => seen'[p] = priced[p]]_vars

(* A batch past its date does not stay on sale: whatever revives it, the   *)
(* hourly check takes it off again.                                        *)
ExpiredIsCaught == \A s \in Slots : Due(s) ~> ~Due(s)

(* The cups shown to agents are what the grams are worth, whatever stock   *)
(* and dose are entered, unless an edit saved over something it had not    *)
(* read; until its first edit a seeded entry has no cups, and one whose    *)
(* dose was set to null may keep those of its former dose.                 *)
AsSeeded(i) == grams[i] = SeedStock /\ dose[i] = SeedDose /\ cups[i] = 0

CupsFollowGrams ==
    mixed \/ \A i \in Items :
                grams[i] # None /\ dose[i] # Null /\ ~(i \in Seeded /\ AsSeeded(i))
                    => cups[i] = CupsIn(grams[i], Divisor(dose[i]))
=============================================================================
