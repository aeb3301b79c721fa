# Formal model of the vending-machine backend

The repository is the backend of a fleet of coffee and food vending machines: a
NestJS process with Mongoose on MongoDB and an MQTT broker between it and the
machines. Customers hold prepaid wallets, order on a machine from a mobile app
(or through an agent), and the backend takes the money, tells the machine what
to dispense and stores what the machine reports.

This directory holds TLA+ modules that model parts of it, TLC configurations
that check them on small instances and theorems checked by TLAPS. Paths below
are relative to the repository; `src/wallet/wallet.service.ts` is the service's
own source directory.

## 1. The system

One Node.js process. Every handler is an `async` function that awaits database
and broker calls; between two awaits of one handler any other handler may run.
No database transaction is used anywhere, and no document version is checked: a
`findOneAndUpdate`/`updateOne` is atomic, everything else is
read, decide, write. A rejected await leaves the handler at that point unless
it is caught, and a restart of the process ends every handler where it stands.

| Part | State | Operations | Talks to | Correct when |
|---|---|---|---|---|
| Wallet (`wallet/`, `legacy/legacy-wallet.controller.ts`) | wallets (one balance per user), transactions, bank-slip requests | top-up, agent top-up, deduct, refund, submit/approve/reject a bank slip, adjust a balance | called by Orders, the timeout cron, Memberships | balances are covered and explained by the transactions; an order is refunded once, a slip paid once |
| Orders (`orders/`) | order documents | place (new and legacy endpoint), machine report, complete, fail, refund, list | Wallet, Machines, MQTT, Memberships, Promotions, Items, Notifications | no command is sent unpaid; an order ends, and its money is either earned or given back |
| Machines (`machines/`) | machine documents: online, sleep, flush and busy flags, inventory, calibration, food batches | status updates, timeout cron, offline cron, expiry cron, scheduled flush, sleep/wake, batches, inventory | MQTT, Wallet, Alerts, Events | flags follow the machine; batch quantities follow what is sold |
| MQTT (`mqtt/`) | broker connection, one callback per topic, generic handlers | publish with a timeout, dispense, flush, sleep, wake (retained), dispatch | machines | a wake command is cleared once the machine is back |
| Auth, sessions, one-time passwords (`auth/`, `session/`) | sessions with a hash, one-time passwords | login, refresh (rotates the hash), logout, password change and reset, phone login | Users, Mail | a token or code serves once, and a changed password closes what was open |
| Users (`users/`, `legacy/legacy-users.controller.ts`) | user documents | register and create (with a wallet), confirm, approve, change, remove | Wallet, Auth | addresses are unique, customers have wallets, changes do not undo one another |
| Memberships, promotions (`memberships/`, `promotions/`) | memberships, promotions | subscribe, cancel, expire; create, update, remove; the price in `placeOrder` | Wallet, Orders | a membership is paid once, a customer has one, an order gets the best offer |
| Organizations, seeding (`organizations/`, `database/seeds/document/`) | organizations, their machines | create, deactivate, assign and remove machines; seed at every start | Machines | both documents name each other, numbers follow one another |
| Items and ratings, reservations, outlets, agents | one collection each | create, update, delete | | section 5 |
| Alerts, notifications, dashboard, events, advertisements, files, mail, social login | records or output only | | | nothing depends on their state |

The hard parts are the interleaving of handlers at every await, the failures
between two writes that belong together, the restart of the process, machine
messages that are lost, late or repeated, and the cron that repairs all of this
while the handlers it repairs may still be running. `PROJECT.json` lists each
such place with its line and the properties that watch it.

## 2. The modules

| Module | What it is |
|---|---|
| `Account` | abstract: one balance per customer, atomic credit, atomic covered debit, adjustment of the customers who are adjusted |
| `Wallet` | the wallet service, one database call per action; implements `Account` |
| `MCWallet` | small instances of `Wallet` |
| `WalletProofs` | theorems about `Wallet` |
| `Orders` | the life of an order: placing handlers, other handlers, timeout cron, refunds, dispense command, machine |
| `MCOrders` | small instances of `Orders` |
| `OrdersProofs` | theorems about `Orders` |
| `Stock` | what one machine holds: food batches and the inventory of coffee |
| `MachineStatus` | online, sleep and flush flags of one machine, its heartbeats, the crons and timers |
| `Sessions` | sessions and one-time passwords of one user |
| `Users` | the accounts: creation with the wallet, whole-document changes |
| `Offers` | memberships, promotions and the price of an order |
| `Organizations` | organizations, the machines assigned to them, seeding |
| `MCStock`, `MCMachineStatus`, `MCSessions`, `MCUsers`, `MCOffers`, `MCOrganizations` | small instances of these |
| `StockProofs`, `MachineStatusProofs`, `SessionsProofs`, `UsersProofs`, `OffersProofs`, `OrganizationsProofs` | theorems about these |

`Wallet` and `Account` are linked by a refinement. The modules share no
variables; where they meet, one takes the other's outcome as a choice, and the
comment at the head of the module says so: `Orders` and `Offers` take a debit or
refund of `Wallet` as one of its possible results, `Orders` takes the batch of
`Stock` as a unit per order, `Users` gives the wallet that `Wallet` starts from,
and `Sessions` sees of `Users` that the user exists and has some password.

### Wallet

A *call* is one handler invocation. `pc[c]` names the database call it does
next, `op`, `user`, `amount` and `ref` are its local variables. The first action
of a handler is everything up to its first write (its guard is the check the
code makes before it), and each later action is one awaited write:
`topup`/`agentTopup` → `CreditWallet` → `RecordCredit`; `deduct` →
`RecordDebit` (or `RestoreBalance` when saving the transaction fails);
`refund` → `CreditWallet` → `RecordCredit`; `approveTopupRequest` →
`CreditWallet` → `RecordCredit` → `SaveReview`; `rejectTopupRequest` →
`SaveReview`; `updateWallet` (reads the balance) → `updateWalletBalance`.
`deduct` is the only handler that catches a rejected write. `WriteFails` rejects
any awaited call and `Crash` ends all handlers at once; a call's last `pc`
remembers how it ended, which is what `Reconciled` needs, and `alone` whether a
refund began while no other refund of its order was under way.

The transactions collection appears as its readers see it: `ledger[u]` is the
net amount of a user's transactions, `refTx` the keys by which `refund` looks
for an earlier refund (and those of bank slips).

The endpoints that adjust a balance have neither a filter nor a transaction.
`Adjusted` is the set of customers they are used on: `NonNegative` speaks of the
others, and `Account` allows `Adjust` only for these.

### Orders

Processes are the orders' placing requests, the invocations of other handlers
(`Handlers`) and the timers (`Crons`). A process is at a step named after the
call it awaits: `lookup`, `cancelStale`, `checkActive`, `create`, `deduct`,
`mark`, `prepare`, `publish`, `mqttFailed`, `lock`, `caught` for placing;
`save`, `unlock` for the other handlers; `refund`, `pay`, `payTx`, `restore` for
what they share. Order documents are written through stale copies: `seen[p]` is
the status the process's copy has as stored, and `Save` writes only if the
process changes it, as `document.save()` does.

`placeOrder` stores a pending order, deducts, marks it dispensing, takes a
batch item and publishes; `legacyPlaceOrder` deducts first and stores the order
as dispensing. `FailTo` says which catch block a rejection reaches. The machine
and the broker (`MachineTakes`, `MachineMakes`, the outcomes of `publish`) are
external: a command may be refused by the broker, lost, or delivered after the
publish timed out. A machine of the older firmware asks instead of being told:
`getActiveOrderForMachine` hands it any active order, paid or not (`polled`).
`Reported` allows any report on an order that the machine knows of either way
(`Knows`), at any time and any number of times.

Two facts of the code shape the model. `walletService.deduct` returns a plain
object without the `id` virtual, so `order.transactionId = tx.id` stores nothing
(`DeductedId`), and the paths that test `transactionId` never refund a
customer. And a legacy order is refunded by its order id when its publish fails
and by its document id everywhere else (`Key`).

Abstractions: amounts and prices are left out (`paid` and `credits` count, a
deduct may be refused at any time); what `placeOrder` checks about the item and
the machine is one decision at `lookup`, because it is made on one read; the
items of one legacy request are separate orders; the unawaited clearing of a
stale busy flag happens with the check that finds it.

### Stock

`status`, `item`, `loadedAt`, `quantity` and `expiry` are the batch array of one
machine document. A sale (`Orders`, or an agent's `Unloads`) goes through
`placed` → `findBatch` → `takeBatch`, the second a read, the third the absolute
write computed from it. `restoreBatchStock` and `reactivateBatch` are the two
updates of the cron, whose positional operator may select by any of the array
conditions (`Positional`). `loadBatch`, `removeBatch` (by id, and ids repeat
within a second) and `checkBatchExpiry` come in between. An edit of the
inventory (`updateMachineStock` → `updateInventory`) is read, then saved with
the changed paths only (`Sent`) and the document version when positions
matter. `updateInventory` takes any machine, food or coffee, and any number:
stock and dose may be negative, and the dose zero or null, which count as the
default (`Divisor`). `removeItem` pulls an entry without a version, so that the
position an edit has read may be another entry's by the time it is saved
(`moved`). Entries of the seed data hold no cups until their first edit
(`Seeded`). `raced` and `mixed` remember that something was overwritten.

### MachineStatus

Heartbeats are dispatched without waiting, so each is a callback with up to
three awaits: `transition` (an update conditional on the machine being offline),
`clearRetainedWake`, `update`. `lastSeen` is null, recent or older than thirty
seconds: a machine nothing was ever heard of has none, and may be online all the
same, by the seed data or by an administrator; the offline check matches only
the old ones. Requests set sleep mode, trigger config mode or a
flush (`markFlush` → `publishFlush` → `unmarkFlush` when it fails, or a timer of
thirty seconds that only exists in memory). `Crash` and an unawaited publish
without a connection (`Exit`) lose callbacks, requests and timers;
`onModuleInit` resets the flush flag. The machine may be awake, asleep or off
and reports accordingly; messages may be lost.

### Sessions

One user. `validateLogin` and `verifyPhoneOtp` read, `createSession` writes;
`refreshToken` compares the hash and `rotate` replaces it, `answer` brings the
new one to the client; `resetPassword`, `update` and `phoneResetPassword` delete
sessions (`deleteSessions`) and then write the password (`writePassword`), as
`patchUser` does without deleting. Codes are sent (`sendPhoneOtp`, `saveOtp`),
found, marked (`markUsed`) and used.

### Users

A creation is a look-up (`create`), an `insert` under the unique index, and
`createWallet`. A change loads the document, prepares what it writes (hashing a
password that differs from the stored one) and writes it; `LoadWhole` marks the
operations that write every field of their copy back. `patchUser` writes a
status or a role; an account it makes a customer gets no wallet (`excused`).

### Offers

`subscribe` → `deduct` (with the outcomes it has in `Wallet`) →
`saveMembership`; `cancelMembership` loads and `saveCancelled` writes;
`expireMemberships` is the cron. An order reads the batch, the membership and
the promotion (`readBatch`, `readMembership`, `readPromotion`), which change in
between. `always` and `ever` are what it was offered all the time, and ever.

### Organizations

An assignment or removal updates the organization and then the machine
(`assignMachine` → `setAssignment`, `removeMachine` → `clearAssignment`); a
creation looks up, counts (`generateOrgId`) and saves. Administrators change
machines directly (`Given`, `renameMachine`). `Crash` is followed by the seeding
that the container runs before every start.

## 3. The runs

Every property has a mutant: a plausible mistake in a definition (the operators
whose names have a suffix) that the run then reports.

| Run | Instance | Question |
|---|---|---|
| `MCWallet` | 3 concurrent calls of any kind, 2 users (one with 3 to spend; the other without a wallet at first and adjusted by administrators), 1 order, 1 bank slip, amounts 0, 2, 3 | Are balances covered and explained (`NonNegative`, `Reconciled`), are approved slips paid (`ApprovedIsPaid`), is an order credited once unless its refunds overlap or leave no transaction (`RefundedOnceUnlessRaced`), do reviews settle (`ReviewSettles`), and is every step a step of `Account` (`AccountRefinement`)? |
| `MCOrders` | 1 food order, 1 handler of any kind, 1 cron, a machine that may poll, all faults, requests slower than the cron's 30 seconds, 1 restart | Is an order paid before its command is sent, and dispensing unpaid only if the machine polled it (`PaidUnlessPolled`); `RefundedIsCredited`, `RefundSettles` |
| `MCOrdersLive` | a customer's two requests on one food machine, one per endpoint, 1 machine report, 1 cron, refused and lost commands, 1 restart, `FairSpec` | `PaidUnlessPolled` when one request cancels the other's order; `NoOrderStuck`, `TimeoutRefunds` |
| `MCStock` | 2 items, one with a seeded entry, 2 batches, 1 order, 1 unload, 2 edits that overlap, stock −3 and doses −1, 0, null beside what agents load, the clock at 0 and 1, food and coffee, `FairSpec` | Is no quantity negative (`QuantityCovered`), do the units add up but for overwritten ones (`BooksBalance`), do cups follow grams (`CupsFollowGrams`), is the batch of the price the one taken (`PricedBatchIsTaken`), are expired batches taken off (`ExpiredIsCaught`)? |
| `MCMachineStatus` | 2 overlapping heartbeats, 1 request, 1 fault, `FairSpec` | Has a flushing machine something that will end it (`FlushHasOwner`, `FlushEnds`), is silence noticed (`SilenceNoticed`) and a reporting machine shown (`AwakeShown`)? |
| `MCSessions` | 2 sessions, 2 codes, 2 overlapping requests out of 6 | `RefreshContinues`, `PasswordChangeEndsSessions`, `CodeOnce` |
| `MCUsers` | 2 accounts, 2 addresses, 2 overlapping requests out of 4 | `EmailUnique`, `WalletFollows`, `ChangesAsked` |
| `MCOffers` | 1 customer, 2 items, 2 memberships, 2 promotions, 2 plans, 2 overlapping requests out of 4 changes, 1 change by time | `PaidForMembership`, `OneMembership`, `FairPrice` |
| `MCOrganizations` | 3 organizations, 2 machines (one seeded), 2 overlapping requests out of 5 changes and restarts | `AssignmentsAgree`, `NumbersInOrder` |
| `MCWalletRefundedOnce`, `MCOrdersFailingRefunds`, `MCOrdersPendingUntilPaid` | the smallest instance that shows it | Each checks one sentence of the repository's comments that the code does not keep; see section 6. |

Bounds. Three calls are enough for a check, a write that makes it stale and a
second write on the stale read; the only longer dependency, a retry after a
recorded refund, needs two. Amount 0 is included because legacy orders of items
without a price cost 0; 2 and 3 against a balance of 3 give one debit that
fits, two that do not. One order with its placing request, one other handler
and the cron are three concurrent writers of one document; a second order
matters only through the machine it shares and through `cancelStale`, which
`MCOrdersLive` has. `MaxCrashes` bounds restarts; one is enough to leave an
order at every step. `Crons` has one timer in the passing runs; overlapping
rounds of it were found to behave like one more handler that fails the order.
Deadlock checking is off where a behaviour ends when every call of the finite
set has returned.

In the other modules two overlapping requests are a reader and the writer that
makes its read stale, and `MaxRequests` lets further ones follow: four to six
suffice for a set-up (a registration, a subscription, an assignment), two that
overlap and one that finds the result. Two batches give the positional updates a
wrong one to pick, two edits are a reader and a writer that overtakes it. The
state constraint `Apart` of `MCStock` looks at the batches or at the inventory
of a food machine, not at both at once: no handler of the one reads what a
handler of the other writes, and a coffee machine has no batches; the proofs do
not assume it. Positive stock and doses come from agents and the seed data. One
fault is a restart, a lost connection or a rejected write at any step. Elements
that the module treats alike are symmetric; runs with liveness use no symmetry.

Fairness (`FairSpec` of `Orders`). Weak fairness of every started handler:
the event loop runs what is runnable, and an awaited call resolves or rejects.
Weak fairness of the cron for each order: `@Cron` calls it every fifteen
seconds. Nothing is assumed of customers, agents, machines or the broker: they
may never act. `FairSpec` of `MachineStatus` assumes the same of the process
(it is restarted, reconnects, its crons and timers run, handlers proceed) and,
for `AwakeShown`, that a machine that is awake keeps reporting; that of `Stock`
assumes the hourly expiry check only. Write
failures are not in the liveness instance, since calls that fail for ever
justify no progress.

## 4. What is proved

`WalletProofs` holds for any sets of users, orders, slips and concurrent calls,
with every fault:

* `WalletTypeCorrect`: `Spec => []TypeOK`.
* `WalletNonNegative`: `Spec => []NonNegative`.
* `WalletImplementsAccount`: `Spec => AccountRefinement`.
* `WalletApprovedIsPaid`: `Spec => []ApprovedIsPaid`.
* `WalletReviewSettles`: `Spec => ReviewSettles`.
* `WalletReconciled`: `Spec => []Reconciled`.
* `WalletRefundedOnce`: `Spec => []RefundedOnceUnlessRaced`.
* `WalletSlipPaidOnce`:
  `Spec /\ []OneReview /\ [][Uncut]_vars => []SlipPaidOnce`.

None but the first is inductive: what a handler does after an await depends on
what it put into its local variables before. `IInv` adds to `TypeOK` what these
variables hold at each program counter (`CallOK`: in particular an approval
credits the user of its slip, and has recorded the payment when it saves) and
that a submitted request names a user and an amount (`RequestOK`). `BeginOK`,
`GotoOK` and `OneCall` say once that a step of one handler disturbs only that
handler; `StartIInv` and `ContinueIInv` go through the actions; `OneMovement`
then says what any step does to the balances, from which `NonNegative` and the
refinement follow; `StartKeeps` and `ContinueKeeps` say what any step leaves
alone, from which the properties about refunds and reviews do. The only
assumption is `WalletAssumption` on the constants.

`Reconciled` compares the balances with sums over the calls. It is proved with
the fact that only finitely many calls have begun (`TrailInv`), since a sum says
nothing of an infinite set. A sum changes by what one element changes: that is
an induction over the subsets of a finite set, done from the equation of the
recursive function `MapThenFoldSet` is defined by and the well-foundedness of
inclusion among these subsets (`WFMin`).

`RefundedOnce` is false of the code (section 6), and a bank slip can be paid
twice as well. The last two theorems say that there are no ways to it but
these: two refunds of one order, or two reviews of one slip, that overlap; or a
failure between a credit and the write that makes it known to the next caller.
For refunds this is part of the invariant (`alone`, `unrecorded`), for slips a
premise of the theorem (`OneReview`, `Uncut`). `SettledInv` and `SlipInv` add
who left the transaction, or closed the slip. TLC found a second payment as
soon as either exception or premise was left out.

`OrdersProofs` holds for any sets of orders, machines, concurrent handlers and
crons, any kinds of orders, every fault and any number of restarts:

* `OrdersTypeCorrect`: `Spec => []TypeOK`.
* `OrdersPaidUnlessPolled`: `Spec => []PaidUnlessPolled`.
* `OrdersRefundedIsCredited`: `Spec => []RefundedIsCredited`.
* `OrdersRefundSettles`: `Spec => RefundSettles`.
* `OrdersCatchRefundsNobody`: `Spec => []CatchRefundsNobody`.
* `OrdersCreditedOnce`:
  `Spec /\ []Apart /\ [][Recorded]_vars => []CreditedOnce`.
* `OrdersOneActive`:
  `Spec /\ []PlacedApart /\ [][NotRevived]_vars => []OneActive`.

The strengthening is again about what a handler remembers. A placing request has
been paid from `mark` on (`PlacingOK`); a handler about to store "refunded" has
seen the refund recorded (`HandlerOK`); one about to store "dispensing" repeats a
machine that took a command, so its order is paid (`OrderOK`), or that polled
the order (`ProcOK`); an
order that is not a legacy one is refunded under its document id only
(`OrderOK`), so whoever finds a refund finds this one. `OneProc` reduces a step
to the process that takes it: payments and refunds only grow (`Monotone`), so
what the other processes rely on stays true. One lemma per action follows, and
`RefundSettles` looks at the only step that starts a payment, `refund`. The
assumption is `OrdersAssumption`. TLC checked `IInv` first on the instance of
`MCOrders`.

`OrdersCatchRefundsNobody` is the second deviation of section 6 for every
instance: neither `failOrder` nor the catch block of `placeOrder` ever refunds,
since the field they test is never stored (`UnpaidInv`). The last two are
conditional as in the wallet. An order that is not a legacy one is credited
twice only if two of its refunds overlap (`Apart`) or a credit goes unrecorded
(`Recorded`); `OnceInv` says that a recorded refund is the only credit and that
until then there is one just while somebody is about to record it. A machine has
two active orders only if two requests for it are both between the check for
active orders and the insertion (`PlacedApart`), or an order is shown as active
that was final (`NotRevived`), as a late report does; `ActiveInv` says that
whoever has found the machine free still finds it so. Here too TLC found the
premises sufficient, and a violation without either of them.

`StockProofs` holds for any items, batches, orders and edits, any clock and any
number of retries:

* `StockQuantityCovered`: `Spec => []QuantityCovered`.
* `StockCupsFollowGrams`: `Spec => []CupsFollowGrams`.
* `StockPricedBatchIsTaken`: `Spec => PricedBatchIsTaken`.
* `StockTypeCorrect`: `Spec => []TypeOK`.
* `StockBooksBalance`: `Spec => []BooksBalance`.

The food batches and the inventory are invariants of their own (`BatchInv`,
`InventoryInv`), and each half of the actions leaves the other alone. `LeftOK`
says that a sale about to write has read a quantity it can take from, `PriceOK`
what the order has seen when it was priced, and `EditOK` that an inventory entry
an edit has read is still the document's unless something was written since, and
still exists unless one was removed. `CupsKept` follows the cups through each
write. `CupsFollowGrams` is proved for every integer stock and dose; it leaves
out what an edit overwrote unread (`mixed`), seeded entries before their first
edit and doses of null, which keep the cups of the dose before. That
the first batch exists rests on the well-foundedness of the naturals.
`BooksBalance` adds `ReadOK`: a sale whose read is still fresh has read what the
batch holds, so that its conditional write takes what it has counted
(`BooksInv`). Its sum over the batches is handled as in the wallet; that they
are finitely many is assumed of the constants.

`MachineStatusProofs` holds for any callbacks, requests and numbers of faults:

* `StatusTypeCorrect`: `Spec => []TypeOK`.
* `StatusFlushHasOwner`: `Spec => []FlushHasOwner`.

`FlushHasOwner` is inductive with the types; the set of its owners (`Owners`)
shrinks only in steps that end the flush, the process or the write.

`SessionsProofs` holds for any sessions, codes, requests and instants:

* `SessionsRefreshContinues`: `Spec => []RefreshContinues`.
* `SessionsPasswordChange`: `Spec => []PasswordChangeEndsSessions`.
* `SessionsCodeOnce`: `Spec => []CodeOnce`.

These speak of sessions and codes that the races of section 6 have not met:
`disturbed` by two refreshes of one token, `overlapped` by a change of password
while they were opened, `kept` by a change that deletes no session or not its
own, `contested` by two requests with one code.
`RefreshOK` says that the refreshes of a session nobody disturbs come one by one
and hold the hash that is stored, `LoginOK` and `WriteOK` what a request about to
write has checked or deleted before, and `CodeOK` which requests hold a code.

`UsersProofs` holds for any accounts, addresses and requests:

* `UsersEmailUnique`: `Spec => []EmailUnique`.
* `UsersWalletFollows`: `Spec => []WalletFollows`.
* `UsersChangesAsked`: `Spec => ChangesAsked`.

`CopyOK` is the heart of it: what a change holds besides what it was asked for
is what the user holds, unless another write has made the copy stale; and a role
of a customer that it would write back is that of a user who has a wallet or is
excused, stale or not (`Settled`, which no step takes back). With `PasswordOK`,
that a password is hashed before it is written, `WriteShape` and `StaleShape`
say what a write does, and `ChangesAsked` follows.

`OffersProofs` holds for any customers, items, memberships, promotions and
plans:

* `OffersTypeCorrect`: `Spec => []TypeOK`.
* `OffersOneMembership`: `Spec => []OneMembership`.
* `OffersFairPrice`: `Spec => []FairPrice`.
* `OffersPaidForMembership`: `Spec => []PaidForMembership`.

`AloneOK` says what a subscription that overlaps no other has seen, `WatchOK`
that `always` and `ever` follow what an order is offered, and `BatchOK`,
`MemberOK` and `PricedOK` relate each of its three reads to them. The money is
counted (`PaidInv`): every step adds or takes at most one element of the sets
whose cardinalities are compared.

`OrganizationsProofs` holds for any organizations, machines and requests:

* `OrganizationsAssignmentsAgree`: `Spec => []AssignmentsAgree`.
* `OrganizationsNumbersInOrder`: `Spec => []NumbersInOrder`.

The first leaves out machines that an administrator assigned or renamed
directly, that a cut-short removal left behind, or whose assignment overlapped
their removal (`loose`); cut-short assignments, seeding and restarts it covers.
For it, `AssignOK` says that a machine about to be assigned is listed
by the organization, unless a removal has begun since. For the second,
`NumbersInv` says that a creation holds a number that is taken or the next one,
the next one exactly when nobody else creates; an insert under the unique index
therefore continues the numbering.

The constants are assumed to be what each module's named assumption says, which
TLC evaluates on every run: sets of identifiers and of numbers, marks such as
`None` that are no identifiers, and a finite number of places in the batch
array. TLC checked the strengthened invariants of `Stock`, `Sessions` and
`Offers` on their instances first; the others are small enough to be proved
outright.

Every invariant and action property a passing run checks is thus stated by a
theorem, but for the liveness properties: these need fairness and `ENABLED`,
which are out of the prover's reach, and stay with TLC (`NoOrderStuck`,
`TimeoutRefunds`, `FlushEnds`, `SilenceNoticed`, `AwakeShown`,
`ExpiredIsCaught`). The types of `Sessions`, `Users` and `Organizations` are
proved as far as their invariants need them.

## 5. Not modelled

Reads (lists, searches, dashboards, revenue reports), authorization guards, DTO
validation, formatting of identifiers and messages, notifications and alerts
(written without waiting, read by nobody in the modelled parts), third-party
logins up to the session they end in, files, mail. The relational persistence is
present in the source and not wired. These together are most of the lines that
no definition maps.

Parts that are records of one collection, each operation one write that no other
step depends on: reservations (any status may follow any other), outlets,
advertisements, alerts, the agents' logs and inspections, the agents of an
organization. Ratings recompute an average from a read, so that an overlapping
rating may be missing from it until the next one; nothing modelled reads it. The
calibration of a machine is stored as it is sent, its timers compared only when
both are sent; an order that reads bad timers is refused or fails, and `Orders`
has both.
`MachinesService.deductStock` has no caller: the callback that would call it is
replaced when `OrdersService` registers its own, so coffee stock is never
deducted and there is nothing to model.

## 6. Deviations

Found while modelling and shown by a run (details in `PROJECT.json`):

1. Overlapping refunds of one order both pay (`RefundedOnce`); that, and a credit
   whose transaction is not written, are the only ways (`WalletRefundedOnce`).
2. `failOrder` never refunds a paid order, because `transactionId` is never
   stored (`FailingRefunds`; for every instance, `OrdersCatchRefundsNobody`).
   The catch block of `placeOrder` has the same test, and under it the
   restoration of the batch.
3. "status = pending until wallet deducted" (`orders.service.ts:299`) does not
   hold of a machine that polls: it is handed pending orders and may report them
   as dispensing before the debit, or without one (`PendingUntilPaid`); this is
   the only way to an unpaid order that dispenses (`OrdersPaidUnlessPolled`).

Visible in the modules, without a run of their own.

Wallet and orders:

* overlapping approvals of one bank slip both pay, and so does a second approval
  after the process ended between the top-up and the verdict of the first
  (`WalletSlipPaidOnce`: there is no third way); a rejection that overlaps an
  approval leaves a paid request rejected;
* two requests for one machine can both become active (`OrdersOneActive` says
  when);
* the timeout cron restores batch items that were never taken and refunds orders
  that were never paid; a process that ends between its save of the failed
  status and its refund loses the refund;
* a legacy order whose publish failed is refunded under its order id, and can be
  paid a second time under its document id, by the cron or an administrator; a
  machine's `cancelled` report refunds the wallet and leaves the batch short; a
  `processing` report fails schema validation and is dropped; a report
  overwrites a status that was already final;
* `PUT /updatewallet` adds a difference to a balance it read before: next to an
  order placed at the same time it misses the balance asked for and may go below
  zero.

Machines:

* sales write absolute quantities: the units of a concurrent sale, restoration or
  refill of the batch are lost (`machines.service.ts:1045`);
* a restoration may put the units back into another batch of the machine and put
  an expired one back on sale (`machines.service.ts:1071`, `:1091`), until the
  next hourly check;
* batches loaded within one second share an id: a sale takes from the first of
  them and a removal removes both (`machines.service.ts:906`);
* the cups of a seeded inventory entry are zero until its first edit; a dose set
  to null keeps the cups of the dose before; a negative stock or dose is stored,
  and with one of them the cups are negative;
* an edit saves by position: after the removal of another entry it may write to
  the wrong one (`machines.service.ts:1203`);
* the menu of a food machine shows the batches (comment at
  `machines.service.ts:1263`), unless an inventory entry was ever stored for the
  item, which then decides (`:1270`);
* a machine that nothing was ever heard of and that the seed data or an
  administrator set online stays online: `$lt` does not match a `lastSeen` that
  is null (`machines.service.ts:1382`), so "if a machine has not sent an MQTT
  heartbeat in the last 30 seconds, mark it offline" (`:1368`) does not hold;
* the retained wake command is not cleared "exactly once per reconnect"
  (`machines.service.ts:124`): it stays when the machine is shown online already
  as it reconnects, or when the process ends in between, and wakes a machine
  that was put to sleep later (`mqtt.service.ts:311`);
* `PATCH` of `flush_mode` never flushes, since the validation strips the field;
* a publish that is not awaited while the broker is away rejects without a
  handler and ends the process (`mqtt.service.ts:176`);
* the flush flag stays until the next start when the write that resets it is
  rejected.

Users and sessions:

* a code for a reset also logs in; the login by phone lacks the check for agents
  that are not approved (`auth.service.ts:257`); two overlapping verifications
  of one code both succeed;
* two refreshes of one token both succeed, and the token that is answered last
  need not be the one that is stored (`auth.service.ts:587`);
* `updateUser` drops the phone; users without an address collide in the unique
  index (`legacy-users.controller.ts:198`), while phones and customer ids have
  no index and may repeat when creations overlap;
* overlapping whole-document writes undo an approval (`users.service.ts:373`) or
  hash a hash; a `PATCH` of the role to customer creates no wallet
  (`users.service.ts:315`); a password
  set by an administrator closes no session.

Offers and organizations:

* legacy orders ignore memberships and promotions, and cost nothing for items
  without a price; the revenue report leaves promotions out of the discounts;
* a subscription is charged and not stored when the insert fails; overlapping
  subscriptions store two memberships, and an order gets either; a cancellation
  overwrites an expiry;
* overlapping creations of organizations compute the same number, and the unique
  index refuses one of them (`organizations.service.ts:31`);
* a removal that is cut short, or that overlaps an assignment of the machine,
  leaves organization and machine in disagreement
  (`organizations.service.ts:152`);
* removing a machine from one organization clears its assignment to another;
  machines changed or renamed directly are not told to organizations; seeded
  machines come back at the next start and name no organization though one lists
  them; a deactivated organization keeps its machines and blocks its client.
