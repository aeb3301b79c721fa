-------------------------------- MODULE Wallet --------------------------------
(***************************************************************************)
(* WalletService and the two legacy endpoints that write balances.         *)
(*                                                                         *)
(* The service keeps three collections: wallets (one balance per user),    *)
(* transactions (the audit trail) and topuprequests (the bank-slip queue). *)
(* Every handler is a chain of awaited database calls, so other handlers   *)
(* run between any two of them.  A call is one such handler invocation; it *)
(* walks through its database calls one action at a time, and any of them  *)
(* may reject (WriteFails) or be the last thing before the process dies    *)
(* (Crash).  Calls is finite: its size bounds a behaviour.                 *)
(*                                                                         *)
(* The transactions collection is kept as what its readers can see of it:  *)
(* ledger[u] is the net amount of the user's completed transactions and    *)
(* refTx the <<category, user, referenceId>> of the refund and approval    *)
(* ones, the only two whose reference anybody looks up.                    *)
(*                                                                         *)
(* An operator whose name has a suffix (deduct_Unfiltered) is a plausible  *)
(* mistake in the handler it is named after; no specification uses it.  It *)
(* is there to show that a property would notice.                          *)
(***************************************************************************)
EXTENDS Integers, FiniteSets, FiniteSetsExt

CONSTANTS
    Users, Refs, Requests,  \* customers, order ids, bank-slip requests
    Calls,                  \* the handler invocations of a behaviour
    Amounts,                \* amounts in requests and orders
    MaxTopup,               \* MAX_TOPUP of agentTopup
    Opening,                \* the balance every user's wallet opens with
    Unopened,               \* users whose wallet does not exist yet
    Adjusted,               \* users whose balance administrators adjust
    LegacyTargets,          \* exact balances PUT /updatewallet is asked for
    LegacyDeltas,           \* amounts PUT /update-wallet-amount is sent
    Faults,                 \* subset of {"write", "crash"}: what may go wrong
    None

ASSUME WalletAssumption ==
    /\ Amounts \subseteq Nat
    /\ LegacyTargets \subseteq Int
    /\ LegacyDeltas \subseteq Int
    /\ Opening \in [Users -> Nat]
    /\ Unopened \subseteq Users
    /\ Adjusted \subseteq Users
    /\ \A u \in Unopened : Opening[u] = 0
    /\ MaxTopup \in Nat
    /\ Faults \subseteq {"write", "crash"}

VARIABLES
    wallets,    \* users that have a wallet document
    balance,    \* wallet.balance
    ledger,     \* net amount of the transactions recorded for a user
    refTx,      \* <<category, userId, referenceId>> of recorded transactions
    reqStatus, reqUser, reqAmount,  \* the topuprequest documents
    pc,                             \* the database call a handler does next
    op, user, amount, ref,          \* the handler and its local variables
    alone       \* history: no other refund of that order was under way when it began

args == <<op, user, amount, ref, alone>>
requests == <<reqStatus, reqUser, reqAmount>>
vars == <<wallets, balance, ledger, refTx, requests, pc, args>>

(* The program counter of a call names the database call it does next.     *)
Waiting  == {"credit", "creditTx", "debitTx", "restore", "adjust", "approve", "reject"}
Returned == {"done", "skipped", "rejected", "unrecorded", "unrestored", "aborted"}
Ops      == {"topup", "deduct", "refund", "approve", "reject", "adjust"}

TypeOK ==
    /\ wallets \subseteq Users
    /\ balance \in [Users -> Int]
    /\ ledger \in [Users -> Int]
    /\ refTx \subseteq ({"refund"} \X Users \X Refs) \cup ({"topup_bank"} \X Users \X Requests)
    /\ reqStatus \in [Requests -> {"none", "pending", "approved", "rejected"}]
    /\ reqUser \in [Requests -> Users \cup {None}]
    /\ reqAmount \in [Requests -> Amounts \cup {0}]
    /\ pc \in [Calls -> {"idle"} \cup Waiting \cup Returned]
    /\ op \in [Calls -> Ops \cup {None}]
    /\ user \in [Calls -> Users \cup {None}]
    /\ amount \in [Calls -> Int]
    /\ ref \in [Calls -> Refs \cup Requests \cup {None}]
    /\ alone \in [Calls -> BOOLEAN]

Init ==
    /\ wallets = Users \ Unopened
    /\ balance = Opening
    /\ ledger = Opening
    /\ refTx = {}
    /\ reqStatus = [r \in Requests |-> "none"]
    /\ reqUser = [r \in Requests |-> None]
    /\ reqAmount = [r \in Requests |-> 0]
    /\ pc = [c \in Calls |-> "idle"]
    /\ op = [c \in Calls |-> None]
    /\ user = [c \in Calls |-> None]
    /\ amount = [c \in Calls |-> 0]
    /\ ref = [c \in Calls |-> None]
    /\ alone = [c \in Calls |-> TRUE]

-----------------------------------------------------------------------------
(* createWallet, createWalletForCustomer: idempotent, userId is unique.    *)
createWallet(u) ==
    /\ u \notin wallets
    /\ wallets' = wallets \cup {u}
    /\ UNCHANGED <<balance, ledger, refTx, requests, pc, args>>

Refunding(u, o) ==
    {c \in Calls : /\ op[c] = "refund" /\ user[c] = u /\ ref[c] = o
                   /\ pc[c] \in {"credit", "creditTx"}}

Begin(c, o, next, u, a, r) ==
    /\ pc[c] = "idle"
    /\ pc' = [pc EXCEPT ![c] = next]
    /\ op' = [op EXCEPT ![c] = o]
    /\ user' = [user EXCEPT ![c] = u]
    /\ amount' = [amount EXCEPT ![c] = a]
    /\ ref' = [ref EXCEPT ![c] = r]
    /\ alone' = [alone EXCEPT ![c] = (o = "refund" => Refunding(u, r) = {})]

Goto(c, next) == pc' = [pc EXCEPT ![c] = next] /\ UNCHANGED args

(* topup and agentTopup: the credit, then its transaction.  Only the agent *)
(* path caps the amount.                                                   *)
topup(c, u, a) ==
    /\ a > 0
    /\ Begin(c, "topup", "credit", u, a, None)
    /\ UNCHANGED <<wallets, balance, ledger, refTx, requests>>

agentTopup(c, u, a) ==
    /\ 0 < a /\ a <= MaxTopup
    /\ Begin(c, "topup", "credit", u, a, None)
    /\ UNCHANGED <<wallets, balance, ledger, refTx, requests>>

(* findOneAndUpdate({userId}, {$inc: {balance: amount}}) of every credit.  *)
CreditWallet(c) ==
    /\ pc[c] = "credit"
    /\ IF user[c] \in wallets
       THEN /\ balance' = [balance EXCEPT ![user[c]] = @ + amount[c]]
            /\ Goto(c, "creditTx")
       ELSE UNCHANGED balance /\ Goto(c, "rejected")
    /\ UNCHANGED <<wallets, ledger, refTx, requests>>

(* The transaction of a credit; an approval then marks its request.        *)
RecordCredit_AllRefunds(c) ==
    /\ pc[c] = "creditTx"
    /\ ledger' = [ledger EXCEPT ![user[c]] = @ + amount[c]]
    /\ refTx' = refTx \cup {<<"refund", user[c], ref[c]>>}
    /\ Goto(c, IF op[c] = "approve" THEN "approve" ELSE "done")
    /\ UNCHANGED <<wallets, balance, requests>>

RecordCredit_NoReference(c) ==
    /\ pc[c] = "creditTx"
    /\ ledger' = [ledger EXCEPT ![user[c]] = @ + amount[c]]
    /\ refTx' = IF op[c] = "approve" THEN refTx \cup {<<"topup_bank", user[c], ref[c]>>} ELSE refTx
    /\ Goto(c, IF op[c] = "approve" THEN "approve" ELSE "done")
    /\ UNCHANGED <<wallets, balance, requests>>

RecordCredit(c) ==
    /\ pc[c] = "creditTx"
    /\ ledger' = [ledger EXCEPT ![user[c]] = @ + amount[c]]
    /\ refTx' = CASE op[c] = "refund"  -> refTx \cup {<<"refund", user[c], ref[c]>>}
                  [] op[c] = "approve" -> refTx \cup {<<"topup_bank", user[c], ref[c]>>}
                  [] OTHER                  -> refTx
    /\ Goto(c, IF op[c] = "approve" THEN "approve" ELSE "done")
    /\ UNCHANGED <<wallets, balance, requests>>

(* deduct: one update whose filter is balance >= amount; no match is a     *)
(* missing wallet or an insufficient balance, and either way an error.     *)
deduct_Unfiltered(c, u, a, o) ==
    /\ u \in wallets
    /\ balance' = [balance EXCEPT ![u] = @ - a]
    /\ Begin(c, "deduct", "debitTx", u, a, o)
    /\ UNCHANGED <<wallets, ledger, refTx, requests>>

deduct(c, u, a, o) ==
    /\ IF u \in wallets /\ balance[u] >= a
       THEN /\ balance' = [balance EXCEPT ![u] = @ - a]
            /\ Begin(c, "deduct", "debitTx", u, a, o)
       ELSE UNCHANGED balance /\ Begin(c, "deduct", "rejected", u, a, o)
    /\ UNCHANGED <<wallets, ledger, refTx, requests>>

RecordDebit(c) ==
    /\ pc[c] = "debitTx"
    /\ ledger' = [ledger EXCEPT ![user[c]] = @ - amount[c]]
    /\ Goto(c, "done")
    /\ UNCHANGED <<wallets, balance, refTx, requests>>

(* deduct's catch block puts the money back and rethrows.                  *)
RestoreBalance_Skipped(c) ==
    /\ pc[c] = "restore"
    /\ Goto(c, "rejected")
    /\ UNCHANGED <<wallets, balance, ledger, refTx, requests>>

RestoreBalance(c) ==
    /\ pc[c] = "restore"
    /\ balance' = [balance EXCEPT ![user[c]] = @ + amount[c]]
    /\ Goto(c, "rejected")
    /\ UNCHANGED <<wallets, ledger, refTx, requests>>

(* refund: look for the refund transaction of this order, credit if there  *)
(* is none.                                                                *)
refund(c, u, a, o) ==
    /\ Begin(c, "refund", IF <<"refund", u, o>> \in refTx THEN "skipped" ELSE "credit", u, a, o)
    /\ UNCHANGED <<wallets, balance, ledger, refTx, requests>>

-----------------------------------------------------------------------------
(* The bank-slip queue.                                                    *)
submitTopupRequest(r, u, a) ==
    /\ reqStatus[r] = "none"
    /\ a > 0
    /\ reqStatus' = [reqStatus EXCEPT ![r] = "pending"]
    /\ reqUser' = [reqUser EXCEPT ![r] = u]
    /\ reqAmount' = [reqAmount EXCEPT ![r] = a]
    /\ UNCHANGED <<wallets, balance, ledger, refTx, pc, args>>

(* approve and reject read the document, refuse it unless it is pending,   *)
(* and save it at the end of the handler without looking at it again.      *)
approveTopupRequest_SavedFirst(c, r) ==
    /\ reqStatus[r] # "none"
    /\ reqStatus' = [reqStatus EXCEPT ![r] = "approved"]
    /\ Begin(c, "approve", IF reqStatus[r] = "pending" THEN "credit" ELSE "rejected",
             reqUser[r], reqAmount[r], r)
    /\ UNCHANGED <<wallets, balance, ledger, refTx, reqUser, reqAmount>>

approveTopupRequest(c, r) ==
    /\ reqStatus[r] # "none"
    /\ Begin(c, "approve", IF reqStatus[r] = "pending" THEN "credit" ELSE "rejected",
             reqUser[r], reqAmount[r], r)
    /\ UNCHANGED <<wallets, balance, ledger, refTx, requests>>

rejectTopupRequest_AnyStatus(c, r) ==
    /\ reqStatus[r] # "none"
    /\ Begin(c, "reject", "reject", reqUser[r], reqAmount[r], r)
    /\ UNCHANGED <<wallets, balance, ledger, refTx, requests>>

rejectTopupRequest(c, r) ==
    /\ reqStatus[r] # "none"
    /\ Begin(c, "reject", IF reqStatus[r] = "pending" THEN "reject" ELSE "rejected",
             reqUser[r], reqAmount[r], r)
    /\ UNCHANGED <<wallets, balance, ledger, refTx, requests>>

SaveReview(c) ==
    /\ pc[c] \in {"approve", "reject"}
    /\ reqStatus' = [reqStatus EXCEPT ![ref[c]] =
                        IF pc[c] = "approve" THEN "approved" ELSE "rejected"]
    /\ Goto(c, "done")
    /\ UNCHANGED <<wallets, balance, ledger, refTx, reqUser, reqAmount>>

-----------------------------------------------------------------------------
(* PUT /updatewallet reads the balance, then increments it by what is      *)
(* missing to the requested amount; PUT /update-wallet-amount increments   *)
(* it outright.  Neither records a transaction (updateWalletBalance).      *)
updateWallet(c, u, target) ==
    /\ u \in wallets
    /\ Begin(c, "adjust", IF target = balance[u] THEN "skipped" ELSE "adjust",
             u, target - balance[u], None)
    /\ UNCHANGED <<wallets, balance, ledger, refTx, requests>>

updateWalletAmount(c, u, delta) ==
    /\ u \in wallets
    /\ Begin(c, "adjust", "adjust", u, delta, None)
    /\ UNCHANGED <<wallets, balance, ledger, refTx, requests>>

updateWalletBalance(c) ==
    /\ pc[c] = "adjust"
    /\ balance' = [balance EXCEPT ![user[c]] = @ + amount[c]]
    /\ Goto(c, "unrecorded")
    /\ UNCHANGED <<wallets, ledger, refTx, requests>>

-----------------------------------------------------------------------------
(* How a call ends when the database call it waits for never happens: a    *)
(* credit without its transaction, a debit without its transaction that is *)
(* not put back, or nothing but an unreviewed request.                     *)
EndedAt(at) == CASE at = "creditTx"               -> "unrecorded"
                 [] at \in {"debitTx", "restore"} -> "unrestored"
                 [] at = "approve"                -> "done"
                 [] OTHER                         -> "aborted"

(* The awaited call rejects: only deduct catches it.                       *)
WriteFails(c) ==
    /\ "write" \in Faults
    /\ pc[c] \in Waiting
    /\ Goto(c, IF pc[c] = "debitTx" THEN "restore" ELSE EndedAt(pc[c]))
    /\ UNCHANGED <<wallets, balance, ledger, refTx, requests>>

(* The process dies with every handler in it.                              *)
Crash ==
    /\ "crash" \in Faults
    /\ \E c \in Calls : pc[c] \in Waiting
    /\ pc' = [c \in Calls |-> IF pc[c] \in Waiting THEN EndedAt(pc[c]) ELSE pc[c]]
    /\ UNCHANGED <<wallets, balance, ledger, refTx, requests, args>>

Start(c) ==
    \/ \E u \in Users, a \in Amounts :
           \/ topup(c, u, a)
           \/ agentTopup(c, u, a)
           \/ \E o \in Refs : deduct(c, u, a, o) \/ refund(c, u, a, o)
    \/ \E r \in Requests : approveTopupRequest(c, r) \/ rejectTopupRequest(c, r)
    \/ \E u \in Adjusted, t \in LegacyTargets : updateWallet(c, u, t)
    \/ \E u \in Adjusted, d \in LegacyDeltas : updateWalletAmount(c, u, d)

Continue(c) ==
    \/ CreditWallet(c)
    \/ RecordCredit(c)
    \/ RecordDebit(c)
    \/ RestoreBalance(c)
    \/ SaveReview(c)
    \/ updateWalletBalance(c)
    \/ WriteFails(c)

Next ==
    \/ \E u \in Users : createWallet(u)
    \/ \E r \in Requests, u \in Users, a \in Amounts : submitTopupRequest(r, u, a)
    \/ \E c \in Calls : Start(c) \/ Continue(c)
    \/ Crash

Spec == Init /\ [][Next]_vars

-----------------------------------------------------------------------------
(* The balance never goes below zero, however the debits of concurrent     *)
(* orders interleave with each other and with failing writes: deduct's     *)
(* filter and its increment are one update.  The service does not promise  *)
(* it for a customer whose balance administrators adjust: their update has *)
(* no filter.                                                              *)
NonNegative == \A u \in Users \ Adjusted : balance[u] >= 0

(* The audit trail explains every balance up to the calls that say so: at  *)
(* any moment the balance is the recorded net amount, plus the credits     *)
(* whose transaction is not (or never) written, minus the debits whose     *)
(* transaction is not written and whose money is not (or never) put back.  *)
(* In particular a deduct that reports an error after a failed transaction *)
(* write costs nothing unless restoring failed too.                        *)
AmountOf(u, pcs) ==
    MapThenSumSet(LAMBDA c : amount[c], {c \in Calls : user[c] = u /\ pc[c] \in pcs})

Reconciled ==
    \A u \in Users :
        balance[u] = ledger[u] + AmountOf(u, {"creditTx", "unrecorded"})
                               - AmountOf(u, {"debitTx", "restore", "unrestored"})

(* A reviewed request with no review under way is settled: no later review *)
(* changes its verdict or starts paying for it.                            *)
Reviewing(r) ==
    {c \in Calls : /\ op[c] \in {"approve", "reject"} /\ ref[c] = r
                   /\ pc[c] \in Waiting}

ReviewSettles ==
    [][\A r \in Requests :
          reqStatus[r] \in {"approved", "rejected"} /\ Reviewing(r) = {}
          => reqStatus'[r] = reqStatus[r] /\ Reviewing(r)' = {}]_vars

(* An approved request has been paid and its payment is in the audit       *)
(* trail, whatever failed on the way.                                      *)
ApprovedIsPaid ==
    \A r \in Requests :
        reqStatus[r] = "approved" => <<"topup_bank", reqUser[r], r>> \in refTx

(* How often the wallet was credited on behalf of a refund or an approval. *)
Credited(o, r) ==
    {c \in Calls : /\ op[c] = o /\ ref[c] = r
                   /\ pc[c] \in {"creditTx", "approve", "done", "unrecorded"}}

(* "Idempotency guard - prevent double-refund if handler is called twice   *)
(* for same order" (wallet.service.ts:161): an order is credited once.     *)
CreditedOnce(u, o) == Cardinality({c \in Credited("refund", o) : user[c] = u}) <= 1

RefundedOnce == \A u \in Users, o \in Refs : CreditedOnce(u, o)

(* That order is nevertheless credited once, however often, in whatever    *)
(* order and after whatever failures it is refunded, if no refund of it    *)
(* began while another was under way and each credit got its transaction.  *)
RefundedOnceUnlessRaced ==
    \A u \in Users, o \in Refs :
        (\A c \in Calls : op[c] = "refund" /\ user[c] = u /\ ref[c] = o
                          => alone[c] /\ pc[c] # "unrecorded")
        => CreditedOnce(u, o)

(* The account the wallet implements (AccountRefinement below).            *)
A == INSTANCE Account WITH
        Users <- Users, Adjusted <- Adjusted, Opening <- Opening, Amounts <- Amounts,
        balance <- balance

(* Seen from outside, every step of every handler, failing or not, is one  *)
(* atomic credit or covered debit of one user, or an administrator's       *)
(* adjustment of one who is adjusted, or changes no balance.               *)
AccountRefinement == A!Spec
=============================================================================
