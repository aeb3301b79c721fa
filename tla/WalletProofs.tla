---------------------------- MODULE WalletProofs ----------------------------
(***************************************************************************)
(* Proofs about Wallet for any number of users, orders, requests and       *)
(* concurrent handlers, with every fault allowed.                          *)
(*                                                                         *)
(* The properties are not inductive by themselves: what a                  *)
(* handler will do next depends on what it put in its local variables      *)
(* before its last await.  CallOK says what those variables hold at each   *)
(* program counter; with TypeOK it is inductive and carries them all.      *)
(***************************************************************************)
EXTENDS Wallet, FiniteSetTheorems, WellFoundedInduction, TLAPS

Submitted == {r \in Requests : reqStatus[r] # "none"}

PaidRequest(r) == <<"topup_bank", reqUser[r], r>> \in refTx

(* What the local variables of a handler hold while it awaits.             *)
CallOK(c) ==
    /\ pc[c] \in {"credit", "creditTx", "debitTx", "restore"} =>
           user[c] \in Users /\ amount[c] \in Amounts
    /\ pc[c] \in {"credit", "creditTx"} =>
           /\ op[c] = "refund" => ref[c] \in Refs
           /\ op[c] = "approve" => ref[c] \in Submitted /\ user[c] = reqUser[ref[c]]
    /\ pc[c] = "approve" => op[c] = "approve" /\ PaidRequest(ref[c])
    /\ pc[c] = "reject" => op[c] = "reject"
    /\ pc[c] \in {"debitTx", "restore"} => op[c] = "deduct"
    /\ pc[c] \in {"approve", "reject"} => ref[c] \in Submitted
    /\ pc[c] = "adjust" => user[c] \in Adjusted /\ op[c] = "adjust"
    /\ pc[c] = "idle" => alone[c]

RequestOK(r) == r \in Submitted => reqUser[r] \in Users /\ reqAmount[r] \in Amounts

IInv ==
    /\ TypeOK
    /\ \A c \in Calls : CallOK(c)
    /\ \A r \in Requests : RequestOK(r)

-----------------------------------------------------------------------------
LEMMA InitIInv == Init => IInv
<1> SUFFICES ASSUME Init PROVE IInv
  OBVIOUS
<1>1. TypeOK
  BY WalletAssumption DEF Init, TypeOK
<1>2. \A c \in Calls : CallOK(c)
  BY DEF Init, CallOK
<1>3. \A r \in Requests : RequestOK(r)
  BY DEF Init, RequestOK, Submitted
<1> QED BY <1>1, <1>2, <1>3 DEF IInv

CallTypeOK ==
    /\ pc \in [Calls -> {"idle"} \cup Waiting \cup Returned]
    /\ op \in [Calls -> Ops \cup {None}]
    /\ user \in [Calls -> Users \cup {None}]
    /\ amount \in [Calls -> Int]
    /\ ref \in [Calls -> Refs \cup Requests \cup {None}]
    /\ alone \in [Calls -> BOOLEAN]

SameCall(d) ==
    /\ pc'[d] = pc[d] /\ op'[d] = op[d] /\ user'[d] = user[d] /\ amount'[d] = amount[d]
    /\ ref'[d] = ref[d] /\ alone'[d] = alone[d]

(* A handler that begins with well-typed arguments leaves well-typed calls *)
(* and touches no other.                                                   *)
LEMMA BeginOK ==
  ASSUME TypeOK, NEW c \in Calls, NEW o \in Ops, NEW next \in Waiting \cup Returned,
         NEW u \in Users \cup {None}, NEW a \in Int, NEW r \in Refs \cup Requests \cup {None},
         Begin(c, o, next, u, a, r)
  PROVE  /\ CallTypeOK'
         /\ pc'[c] = next /\ op'[c] = o /\ user'[c] = u /\ amount'[c] = a /\ ref'[c] = r
         /\ \A d \in Calls : d # c => SameCall(d)
<1> USE DEF TypeOK, CallTypeOK, Begin, SameCall
<1>1. pc' \in [Calls -> {"idle"} \cup Waiting \cup Returned] OBVIOUS
<1>2. op' \in [Calls -> Ops \cup {None}] OBVIOUS
<1>3. user' \in [Calls -> Users \cup {None}] OBVIOUS
<1>4. amount' \in [Calls -> Int] OBVIOUS
<1>5. ref' \in [Calls -> Refs \cup Requests \cup {None}] OBVIOUS
<1>6. alone' \in [Calls -> BOOLEAN]
  <2> DEFINE b == o = "refund" => Refunding(u, r) = {}
  <2>1. alone' = [alone EXCEPT ![c] = b] OBVIOUS
  <2>2. b \in BOOLEAN OBVIOUS
  <2> HIDE DEF b
  <2> QED BY <2>1, <2>2
<1> QED BY <1>1, <1>2, <1>3, <1>4, <1>5, <1>6

(* A handler that moves on keeps everything but its program counter.       *)
LEMMA GotoOK ==
  ASSUME TypeOK, NEW c \in Calls, NEW next \in Waiting \cup Returned, Goto(c, next)
  PROVE  /\ CallTypeOK'
         /\ pc'[c] = next
         /\ op'[c] = op[c] /\ user'[c] = user[c] /\ amount'[c] = amount[c] /\ ref'[c] = ref[c]
         /\ \A d \in Calls : d # c => SameCall(d)
  BY DEF TypeOK, CallTypeOK, Goto, SameCall, args

LEMMA EndedAtReturned == \A at \in Waiting : EndedAt(at) \in Returned
  BY DEF EndedAt, Waiting, Returned

(* A step of one handler leaves the invariant to that handler, as long as  *)
(* no request goes back to being unsubmitted and no transaction is lost.   *)
LEMMA OneCall ==
  ASSUME IInv, TypeOK', NEW c \in Calls, CallOK(c)',
         \A d \in Calls : d # c => SameCall(d),
         Submitted' = Submitted, reqUser' = reqUser, reqAmount' = reqAmount, refTx \subseteq refTx'
  PROVE  IInv'
<1>1. ASSUME NEW d \in Calls, d # c PROVE CallOK(d)'
  <2>1. CallOK(d) BY DEF IInv
  <2>2. SameCall(d) BY <1>1
  <2> QED BY <2>1, <2>2 DEF CallOK, SameCall, PaidRequest
<1>2. \A r \in Requests : RequestOK(r)'
  BY DEF IInv, RequestOK
<1> QED BY <1>1, <1>2 DEF IInv

(* Only a handler that is idle begins.                                     *)
LEMMA StartsIdle == ASSUME NEW c \in Calls, Start(c) PROVE pc[c] = "idle"
<1>1. CASE \E u \in Users, a \in Amounts : topup(c, u, a) \/ agentTopup(c, u, a)
  BY <1>1 DEF topup, agentTopup, Begin
<1>2. CASE \E u \in Users, a \in Amounts, o \in Refs : deduct(c, u, a, o) \/ refund(c, u, a, o)
  BY <1>2 DEF deduct, refund, Begin
<1>3. CASE \E r \in Requests : approveTopupRequest(c, r) \/ rejectTopupRequest(c, r)
  BY <1>3 DEF approveTopupRequest, rejectTopupRequest, Begin
<1>4. CASE \/ \E u \in Adjusted, t \in LegacyTargets : updateWallet(c, u, t)
           \/ \E u \in Adjusted, d \in LegacyDeltas : updateWalletAmount(c, u, d)
  BY <1>4 DEF updateWallet, updateWalletAmount, Begin
<1> QED BY <1>1, <1>2, <1>3, <1>4 DEF Start

LEMMA StartIInv ==
  ASSUME IInv, NEW c \in Calls, Start(c)
  PROVE  IInv'
<1> USE WalletAssumption DEF WalletAssumption, Ops, Waiting, Returned, requests
<1>0. TypeOK BY DEF IInv
<1>1. ASSUME NEW u \in Users, NEW a \in Amounts, topup(c, u, a) \/ agentTopup(c, u, a)
      PROVE  IInv'
  <2>1. Begin(c, "topup", "credit", u, a, None) /\ UNCHANGED <<wallets, balance, ledger, refTx, requests>>
    BY <1>1 DEF topup, agentTopup
  <2>b. /\ CallTypeOK' /\ \A d \in Calls : d # c => SameCall(d)
        /\ pc'[c] = "credit" /\ op'[c] = "topup" /\ user'[c] = u /\ amount'[c] = a
    BY <1>0, <2>1, BeginOK
  <2>2. CallTypeOK' /\ CallOK(c)' /\ \A d \in Calls : d # c => SameCall(d)
    BY <2>b DEF CallOK
  <2>3. TypeOK' /\ Submitted' = Submitted
    BY <1>0, <2>1, <2>2 DEF TypeOK, CallTypeOK, Submitted
  <2> QED BY <2>1, <2>2, <2>3, OneCall
<1>2. ASSUME NEW u \in Users, NEW a \in Amounts, NEW o \in Refs, deduct(c, u, a, o)
      PROVE  IInv'
  <2>1. PICK next \in {"debitTx", "rejected"} : Begin(c, "deduct", next, u, a, o)
    BY <1>2 DEF deduct
  <2>2. UNCHANGED <<wallets, ledger, refTx, requests>> /\ balance' \in [Users -> Int]
    BY <1>0, <1>2 DEF deduct, TypeOK
  <2>3. CallTypeOK' /\ CallOK(c)' /\ \A d \in Calls : d # c => SameCall(d)
    BY <1>0, <2>1, BeginOK DEF CallOK
  <2>4. TypeOK' /\ Submitted' = Submitted
    BY <1>0, <2>2, <2>3 DEF TypeOK, CallTypeOK, Submitted
  <2> QED BY <2>2, <2>3, <2>4, OneCall
<1>3. ASSUME NEW u \in Users, NEW a \in Amounts, NEW o \in Refs, refund(c, u, a, o)
      PROVE  IInv'
  <2>1. PICK next \in {"skipped", "credit"} : Begin(c, "refund", next, u, a, o)
    BY <1>3 DEF refund
  <2>2. UNCHANGED <<wallets, balance, ledger, refTx, requests>>
    BY <1>3 DEF refund
  <2>3. CallTypeOK' /\ CallOK(c)' /\ \A d \in Calls : d # c => SameCall(d)
    BY <1>0, <2>1, BeginOK DEF CallOK
  <2>4. TypeOK' /\ Submitted' = Submitted
    BY <1>0, <2>2, <2>3 DEF TypeOK, CallTypeOK, Submitted
  <2> QED BY <2>2, <2>3, <2>4, OneCall
<1>4. ASSUME NEW r \in Requests, approveTopupRequest(c, r) \/ rejectTopupRequest(c, r)
      PROVE  IInv'
  <2>1. PICK o \in {"approve", "reject"}, next \in {"rejected", "credit", "reject"} :
           /\ Begin(c, o, next, reqUser[r], reqAmount[r], r)
           /\ o = "reject" => next # "credit"
           /\ o = "approve" => next # "reject"
    BY <1>4 DEF approveTopupRequest, rejectTopupRequest
  <2>2. UNCHANGED <<wallets, balance, ledger, refTx, requests>> /\ r \in Submitted
    BY <1>4 DEF approveTopupRequest, rejectTopupRequest, Submitted
  <2>3. reqUser[r] \in Users /\ reqAmount[r] \in Amounts /\ reqAmount[r] \in Int
    BY <2>2, Amounts \subseteq Int DEF IInv, RequestOK
  <2>4. Submitted' = Submitted
    BY <2>2 DEF Submitted
  <2>5. CallTypeOK' /\ CallOK(c)' /\ \A d \in Calls : d # c => SameCall(d)
    BY <1>0, <2>1, <2>2, <2>3, <2>4, BeginOK DEF CallOK
  <2>6. TypeOK'
    BY <1>0, <2>2, <2>5 DEF TypeOK, CallTypeOK
  <2> QED BY <2>2, <2>4, <2>5, <2>6, OneCall
<1>5. ASSUME NEW u \in Adjusted, NEW t \in LegacyTargets, updateWallet(c, u, t)
      PROVE  IInv'
  <2>1. PICK next \in {"skipped", "adjust"} : Begin(c, "adjust", next, u, t - balance[u], None)
    BY <1>5 DEF updateWallet
  <2>2. UNCHANGED <<wallets, balance, ledger, refTx, requests>> /\ t - balance[u] \in Int
    BY <1>0, <1>5 DEF updateWallet, TypeOK
  <2>3. CallTypeOK' /\ CallOK(c)' /\ \A d \in Calls : d # c => SameCall(d)
    BY <1>0, <2>1, <2>2, BeginOK DEF CallOK
  <2>4. TypeOK' /\ Submitted' = Submitted
    BY <1>0, <2>2, <2>3 DEF TypeOK, CallTypeOK, Submitted
  <2> QED BY <2>2, <2>3, <2>4, OneCall
<1>6. ASSUME NEW u \in Adjusted, NEW d \in LegacyDeltas, updateWalletAmount(c, u, d)
      PROVE  IInv'
  <2>1. Begin(c, "adjust", "adjust", u, d, None) /\ UNCHANGED <<wallets, balance, ledger, refTx, requests>>
    BY <1>6 DEF updateWalletAmount
  <2>2. CallTypeOK' /\ CallOK(c)' /\ \A e \in Calls : e # c => SameCall(e)
    BY <1>0, <2>1, BeginOK DEF CallOK
  <2>3. TypeOK' /\ Submitted' = Submitted
    BY <1>0, <2>1, <2>2 DEF TypeOK, CallTypeOK, Submitted
  <2> QED BY <2>1, <2>2, <2>3, OneCall
<1> QED BY <1>1, <1>2, <1>3, <1>4, <1>5, <1>6 DEF Start

LEMMA ContinueIInv ==
  ASSUME IInv, NEW c \in Calls, Continue(c)
  PROVE  IInv'
<1> USE WalletAssumption DEF WalletAssumption, Waiting, Returned, requests
<1>0. TypeOK /\ CallOK(c) BY DEF IInv
<1>1. ASSUME CreditWallet(c) PROVE IInv'
  <2>1. PICK next \in {"creditTx", "rejected"} : Goto(c, next)
    BY <1>1 DEF CreditWallet
  <2>2. UNCHANGED <<wallets, ledger, refTx, requests>> /\ balance' \in [Users -> Int] /\ pc[c] = "credit"
    BY <1>0, <1>1 DEF CreditWallet, TypeOK
  <2>3. CallTypeOK' /\ \A d \in Calls : d # c => SameCall(d)
    BY <1>0, <2>1, GotoOK
  <2>4. TypeOK' /\ Submitted' = Submitted
    BY <1>0, <2>2, <2>3 DEF TypeOK, CallTypeOK, Submitted
  <2>5. CallOK(c)'
    BY <1>0, <2>1, <2>2, <2>4, GotoOK DEF CallOK
  <2> QED BY <2>2, <2>3, <2>4, <2>5, OneCall
<1>2. ASSUME RecordCredit(c) PROVE IInv'
  <2>1. PICK next \in {"approve", "done"} : Goto(c, next) /\ (next = "approve" => op[c] = "approve")
    BY <1>2 DEF RecordCredit
  <2>2. /\ ledger' \in [Users -> Int]
        /\ UNCHANGED <<wallets, balance, requests>>
        /\ pc[c] = "creditTx" /\ refTx \subseteq refTx'
    BY <1>0, <1>2 DEF RecordCredit, TypeOK, CallOK
  <2>3. refTx' \subseteq ({"refund"} \X Users \X Refs) \cup ({"topup_bank"} \X Users \X Requests)
    <3>1. CASE op[c] = "refund"
      <4>1. refTx' = refTx \cup {<<"refund", user[c], ref[c]>>} BY <1>2, <3>1 DEF RecordCredit
      <4>2. user[c] \in Users /\ ref[c] \in Refs BY <1>0, <2>2, <3>1 DEF CallOK
      <4> QED BY <1>0, <4>1, <4>2 DEF TypeOK
    <3>2. CASE op[c] = "approve"
      <4>1. refTx' = refTx \cup {<<"topup_bank", user[c], ref[c]>>} BY <1>2, <3>2 DEF RecordCredit
      <4>2. user[c] \in Users /\ ref[c] \in Requests BY <1>0, <2>2, <3>2 DEF CallOK, Submitted
      <4> QED BY <1>0, <4>1, <4>2 DEF TypeOK
    <3>3. CASE op[c] \notin {"refund", "approve"}
      BY <1>0, <1>2, <3>3 DEF RecordCredit, TypeOK
    <3> QED BY <3>1, <3>2, <3>3
  <2>4. CallTypeOK' /\ \A d \in Calls : d # c => SameCall(d)
    BY <1>0, <2>1, GotoOK
  <2>5. TypeOK' /\ Submitted' = Submitted
    BY <1>0, <2>2, <2>3, <2>4 DEF TypeOK, CallTypeOK, Submitted
  <2>6. ASSUME op[c] = "approve" PROVE PaidRequest(ref[c])'
    <3>1. refTx' = refTx \cup {<<"topup_bank", user[c], ref[c]>>} BY <1>2, <2>6 DEF RecordCredit
    <3>2. user[c] = reqUser[ref[c]] BY <1>0, <2>2, <2>6 DEF CallOK
    <3> QED BY <2>1, <2>2, <3>1, <3>2 DEF PaidRequest, Goto, args
  <2>7. CallOK(c)'
    BY <1>0, <2>1, <2>2, <2>5, <2>6, GotoOK DEF CallOK, PaidRequest
  <2> QED BY <2>2, <2>4, <2>5, <2>7, OneCall
<1>3. ASSUME RecordDebit(c) PROVE IInv'
  <2>1. /\ Goto(c, "done")
        /\ ledger' \in [Users -> Int]
        /\ UNCHANGED <<wallets, balance, refTx, requests>>
    BY <1>0, <1>3 DEF RecordDebit, TypeOK, CallOK
  <2>2. CallTypeOK' /\ CallOK(c)' /\ \A d \in Calls : d # c => SameCall(d)
    BY <1>0, <2>1, GotoOK DEF CallOK
  <2>3. TypeOK' /\ Submitted' = Submitted
    BY <1>0, <2>1, <2>2 DEF TypeOK, CallTypeOK, Submitted
  <2> QED BY <2>1, <2>2, <2>3, OneCall
<1>4. ASSUME RestoreBalance(c) PROVE IInv'
  <2>1. /\ Goto(c, "rejected")
        /\ balance' \in [Users -> Int]
        /\ UNCHANGED <<wallets, ledger, refTx, requests>>
    BY <1>0, <1>4 DEF RestoreBalance, TypeOK, CallOK
  <2>2. CallTypeOK' /\ CallOK(c)' /\ \A d \in Calls : d # c => SameCall(d)
    BY <1>0, <2>1, GotoOK DEF CallOK
  <2>3. TypeOK' /\ Submitted' = Submitted
    BY <1>0, <2>1, <2>2 DEF TypeOK, CallTypeOK, Submitted
  <2> QED BY <2>1, <2>2, <2>3, OneCall
<1>5. ASSUME SaveReview(c) PROVE IInv'
  <2>1. /\ Goto(c, "done")
        /\ ref[c] \in Submitted
        /\ UNCHANGED <<wallets, balance, ledger, refTx, reqUser, reqAmount>>
    BY <1>0, <1>5 DEF SaveReview, CallOK
  <2>2. PICK s \in {"approved", "rejected"} : reqStatus' = [reqStatus EXCEPT ![ref[c]] = s]
    BY <1>5 DEF SaveReview
  <2>3. CallTypeOK' /\ CallOK(c)' /\ \A d \in Calls : d # c => SameCall(d)
    BY <1>0, <2>1, GotoOK DEF CallOK
  <2>4. TypeOK' /\ Submitted' = Submitted
    BY <1>0, <2>1, <2>2, <2>3 DEF TypeOK, CallTypeOK, Submitted
  <2> QED BY <2>1, <2>3, <2>4, OneCall
<1>6. ASSUME updateWalletBalance(c) PROVE IInv'
  <2>1. /\ Goto(c, "unrecorded")
        /\ balance' \in [Users -> Int]
        /\ UNCHANGED <<wallets, ledger, refTx, requests>>
    BY <1>0, <1>6 DEF updateWalletBalance, TypeOK, CallOK
  <2>2. CallTypeOK' /\ CallOK(c)' /\ \A d \in Calls : d # c => SameCall(d)
    BY <1>0, <2>1, GotoOK DEF CallOK
  <2>3. TypeOK' /\ Submitted' = Submitted
    BY <1>0, <2>1, <2>2 DEF TypeOK, CallTypeOK, Submitted
  <2> QED BY <2>1, <2>2, <2>3, OneCall
<1>7. ASSUME WriteFails(c) PROVE IInv'
  <2>1. PICK next \in Returned \cup {"restore"} : Goto(c, next) /\ (next = "restore" => pc[c] = "debitTx")
    BY <1>7, EndedAtReturned DEF WriteFails
  <2>2. UNCHANGED <<wallets, balance, ledger, refTx, requests>>
    BY <1>7 DEF WriteFails
  <2>3. CallTypeOK' /\ CallOK(c)' /\ \A d \in Calls : d # c => SameCall(d)
    BY <1>0, <2>1, GotoOK DEF CallOK
  <2>4. TypeOK' /\ Submitted' = Submitted
    BY <1>0, <2>2, <2>3 DEF TypeOK, CallTypeOK, Submitted
  <2> QED BY <2>2, <2>3, <2>4, OneCall
<1> QED BY <1>1, <1>2, <1>3, <1>4, <1>5, <1>6, <1>7 DEF Continue

LEMMA NextIInv == IInv /\ [Next]_vars => IInv'
<1> SUFFICES ASSUME IInv, [Next]_vars PROVE IInv'
  OBVIOUS
<1>0. TypeOK BY DEF IInv
<1>1. ASSUME NEW u \in Users, createWallet(u) PROVE IInv'
  BY <1>0, <1>1 DEF createWallet, IInv, TypeOK, CallOK, PaidRequest, RequestOK, Submitted, requests, args
<1>2. ASSUME NEW r \in Requests, NEW u \in Users, NEW a \in Amounts, submitTopupRequest(r, u, a)
      PROVE  IInv'
  <2>1. TypeOK'
    BY <1>0, <1>2 DEF submitTopupRequest, TypeOK, args
  <2>2. Submitted' = Submitted \cup {r}
    BY <1>0, <1>2 DEF submitTopupRequest, TypeOK, Submitted
  <2>3. ASSUME NEW c \in Calls PROVE CallOK(c)'
    BY <1>0, <1>2, <2>2 DEF submitTopupRequest, IInv, TypeOK, CallOK, PaidRequest, Submitted, args
  <2>4. ASSUME NEW q \in Requests PROVE RequestOK(q)'
    BY <1>0, <1>2, <2>2 DEF submitTopupRequest, IInv, TypeOK, RequestOK
  <2> QED BY <2>1, <2>3, <2>4 DEF IInv
<1>3. ASSUME NEW c \in Calls, Start(c) \/ Continue(c) PROVE IInv'
  BY <1>3, StartIInv, ContinueIInv
<1>4. ASSUME Crash PROVE IInv'
  <2>1. TypeOK'
    <3>1. pc' \in [Calls -> {"idle"} \cup Waiting \cup Returned]
      <4>1. \A c \in Calls : (IF pc[c] \in Waiting THEN EndedAt(pc[c]) ELSE pc[c])
                             \in {"idle"} \cup Waiting \cup Returned
        BY <1>0, EndedAtReturned DEF TypeOK
      <4> QED BY <1>4, <4>1 DEF Crash
    <3> QED BY <1>0, <1>4, <3>1 DEF Crash, TypeOK, args, requests
  <2>2. ASSUME NEW c \in Calls PROVE CallOK(c)'
    <3>1. pc'[c] = pc[c] \/ pc'[c] \in Returned BY <1>4, EndedAtReturned DEF Crash
    <3>2. CallOK(c) BY DEF IInv
    <3>3. UNCHANGED <<refTx, requests, args>> BY <1>4 DEF Crash
    <3>4. CASE pc'[c] = pc[c]
      BY <3>2, <3>3, <3>4 DEF CallOK, PaidRequest, Submitted, requests, args
    <3>5. CASE pc'[c] \in Returned BY <3>5 DEF CallOK, Returned
    <3> QED BY <3>1, <3>4, <3>5
  <2>3. \A r \in Requests : RequestOK(r)'
    BY <1>4 DEF Crash, IInv, RequestOK, Submitted, requests
  <2> QED BY <2>1, <2>2, <2>3 DEF IInv
<1>5. CASE UNCHANGED vars
  <2>1. TypeOK' BY <1>0, <1>5 DEF vars, TypeOK, requests, args
  <2>2. \A c \in Calls : CallOK(c)'
    BY <1>5 DEF vars, IInv, CallOK, PaidRequest, Submitted, requests, args
  <2>3. \A r \in Requests : RequestOK(r)'
    BY <1>5 DEF vars, IInv, RequestOK, Submitted, requests
  <2> QED BY <2>1, <2>2, <2>3 DEF IInv
<1> QED BY <1>1, <1>2, <1>3, <1>4, <1>5 DEF Next

(* The state of the service always has the declared shape.                 *)
THEOREM WalletTypeCorrect == Spec => []TypeOK
<1>1. IInv => TypeOK BY DEF IInv
<1> QED BY InitIInv, NextIInv, <1>1, PTL DEF Spec

-----------------------------------------------------------------------------
(* What every step does to the balances: nothing, or one credit or covered *)
(* debit of an amount somebody asked for, or one adjustment.               *)
LEMMA OneMovement ==
  ASSUME IInv, [Next]_vars
  PROVE  \/ balance' = balance
         \/ \E u \in Users, a \in Amounts : A!Credit(u, a) \/ A!Debit(u, a)
         \/ \E u \in Adjusted : A!Adjust(u)
<1>0. TypeOK /\ \A c \in Calls : CallOK(c) BY DEF IInv
<1>1. ASSUME NEW c \in Calls, NEW u \in Users, NEW a \in Amounts, NEW o \in Refs, deduct(c, u, a, o)
      PROVE  balance' = balance \/ A!Debit(u, a)
  <2>1. CASE u \in wallets /\ balance[u] >= a
    BY <1>0, <1>1, <2>1, WalletAssumption DEF deduct, A!Debit, TypeOK, WalletAssumption
  <2>2. CASE ~(u \in wallets /\ balance[u] >= a)
    BY <1>1, <2>2 DEF deduct
  <2> QED BY <2>1, <2>2
<1>2. ASSUME NEW c \in Calls, CreditWallet(c) \/ RestoreBalance(c)
      PROVE  balance' = balance \/ (user[c] \in Users /\ amount[c] \in Amounts /\ A!Credit(user[c], amount[c]))
  BY <1>0, <1>2 DEF CreditWallet, RestoreBalance, A!Credit, CallOK
<1>3. ASSUME NEW c \in Calls, updateWalletBalance(c)
      PROVE  user[c] \in Adjusted /\ A!Adjust(user[c])
  BY <1>0, <1>3, WalletAssumption DEF updateWalletBalance, CallOK, A!Adjust, TypeOK, WalletAssumption
<1>4. CASE \E c \in Calls : Start(c)
  BY <1>1, <1>4 DEF Start, topup, agentTopup, refund, approveTopupRequest, rejectTopupRequest,
                    updateWallet, updateWalletAmount
<1>5. CASE \E c \in Calls : Continue(c)
  BY <1>2, <1>3, <1>5 DEF Continue, RecordCredit, RecordDebit, SaveReview, WriteFails
<1>6. CASE ~\E c \in Calls : Start(c) \/ Continue(c)
  BY <1>6 DEF Next, vars, createWallet, submitTopupRequest, Crash
<1> QED BY <1>4, <1>5, <1>6

(* No interleaving of any number of orders, top-ups, refunds, reviews,     *)
(* adjustments of others, failed writes and restarts drives the balance of *)
(* a customer nobody adjusts below zero.                                   *)
THEOREM WalletNonNegative == Spec => []NonNegative
<1>1. Init => NonNegative
  BY WalletAssumption DEF Init, NonNegative, WalletAssumption
<1>2. IInv /\ NonNegative /\ [Next]_vars => NonNegative'
  <2> SUFFICES ASSUME IInv, NonNegative, [Next]_vars PROVE NonNegative'
    OBVIOUS
  <2> USE WalletAssumption DEF WalletAssumption
  <2>0. balance \in [Users -> Int] BY DEF IInv, TypeOK
  <2>1. CASE balance' = balance
    BY <2>1 DEF NonNegative
  <2>2. ASSUME NEW u \in Users, NEW a \in Amounts, A!Credit(u, a) \/ A!Debit(u, a)
        PROVE  NonNegative'
    BY <2>0, <2>2 DEF NonNegative, A!Credit, A!Debit
  <2>3. ASSUME NEW u \in Adjusted, A!Adjust(u)
        PROVE  NonNegative'
    BY <2>0, <2>3 DEF NonNegative, A!Adjust
  <2> QED BY <2>1, <2>2, <2>3, OneMovement
<1> QED BY InitIInv, NextIInv, <1>1, <1>2, PTL DEF Spec

(* The service implements an account: each step of each handler maps to    *)
(* one atomic credit or covered debit of the abstract account, or to an    *)
(* adjustment of a customer who is adjusted, or to a step that changes     *)
(* nothing in it.                                                          *)
THEOREM WalletImplementsAccount == Spec => AccountRefinement
<1>1. Init => A!Init
  BY DEF Init, A!Init
<1>2. IInv /\ [Next]_vars => [A!Next]_balance
  <2> SUFFICES ASSUME IInv, [Next]_vars PROVE [A!Next]_balance
    OBVIOUS
  <2> QED BY OneMovement DEF A!Next
<1> QED BY InitIInv, NextIInv, <1>1, <1>2, PTL DEF Spec, AccountRefinement, A!Spec
-----------------------------------------------------------------------------
(* A handler that starts changes only itself, and pays nothing yet.        *)
LEMMA StartKeeps ==
  ASSUME IInv, NEW c \in Calls, Start(c)
  PROVE  /\ UNCHANGED <<refTx, requests>>
         /\ \A d \in Calls : d # c => SameCall(d)
         /\ op'[c] = "refund" =>
                \E u \in Users, a \in Amounts, o \in Refs : refund(c, u, a, o)
         /\ op'[c] \in {"approve", "reject"} =>
                \E r \in Requests : approveTopupRequest(c, r) \/ rejectTopupRequest(c, r)
<1>0. TypeOK BY DEF IInv
<1>1. ASSUME NEW o, NEW next, NEW u, NEW a, NEW r, Begin(c, o, next, u, a, r)
      PROVE  op'[c] = o /\ \A d \in Calls : d # c => SameCall(d)
  BY <1>0, <1>1 DEF Begin, TypeOK, SameCall
<1>2. CASE \E u \in Users, a \in Amounts : topup(c, u, a) \/ agentTopup(c, u, a)
  BY <1>1, <1>2 DEF topup, agentTopup
<1>3. CASE \E u \in Users, a \in Amounts, o \in Refs : deduct(c, u, a, o)
  BY <1>1, <1>3 DEF deduct
<1>4. CASE \E u \in Users, a \in Amounts, o \in Refs : refund(c, u, a, o)
  <2>1. op'[c] = "refund" BY <1>1, <1>4 DEF refund
  <2> QED BY <1>1, <1>4, <2>1 DEF refund
<1>5. CASE \E r \in Requests : approveTopupRequest(c, r) \/ rejectTopupRequest(c, r)
  <2>1. op'[c] \in {"approve", "reject"} BY <1>1, <1>5 DEF approveTopupRequest, rejectTopupRequest
  <2> QED BY <1>1, <1>5, <2>1 DEF approveTopupRequest, rejectTopupRequest
<1>6. CASE \/ \E u \in Adjusted, t \in LegacyTargets : updateWallet(c, u, t)
           \/ \E u \in Adjusted, d \in LegacyDeltas : updateWalletAmount(c, u, d)
  BY <1>1, <1>6 DEF updateWallet, updateWalletAmount
<1> QED BY <1>2, <1>3, <1>4, <1>5, <1>6 DEF Start

(* Nothing a handler does later takes back a recorded transaction, and only      *)
(* SaveReview changes the status of a submitted request.                   *)
LEMMA ContinueKeeps ==
  ASSUME IInv, NEW c \in Calls, Continue(c)
  PROVE  /\ reqUser' = reqUser
         /\ refTx \subseteq refTx'
         /\ SaveReview(c) \/ reqStatus' = reqStatus
         /\ op' = op /\ ref' = ref
         /\ \A d \in Calls : d # c => pc'[d] = pc[d]
         /\ pc[c] \in Waiting
         /\ pc'[c] = "credit" => pc[c] = "credit"
         /\ pc'[c] = "creditTx" => pc[c] = "credit"
<1> USE DEF IInv, TypeOK, Goto, args, requests, Waiting, Returned
<1>1. CASE CreditWallet(c)
  BY <1>1 DEF CreditWallet
<1>2. CASE RecordCredit(c)
  BY <1>2 DEF RecordCredit
<1>3. CASE RecordDebit(c) \/ RestoreBalance(c) \/ updateWalletBalance(c)
  BY <1>3 DEF RecordDebit, RestoreBalance, updateWalletBalance
<1>4. CASE SaveReview(c)
  BY <1>4 DEF SaveReview
<1>5. CASE WriteFails(c)
  BY <1>5, EndedAtReturned DEF WriteFails
<1> QED BY <1>1, <1>2, <1>3, <1>4, <1>5 DEF Continue

(* An approved bank slip is paid and its payment is recorded: approvals    *)
(* write "approved" last, however they overlap, fail or are cut short.     *)
THEOREM WalletApprovedIsPaid == Spec => []ApprovedIsPaid
<1>1. Init => ApprovedIsPaid
  BY DEF Init, ApprovedIsPaid
<1>2. IInv /\ ApprovedIsPaid /\ [Next]_vars => ApprovedIsPaid'
  <2> SUFFICES ASSUME IInv, ApprovedIsPaid, [Next]_vars PROVE ApprovedIsPaid'
    OBVIOUS
  <2>0. TypeOK /\ \A c \in Calls : CallOK(c) BY DEF IInv
  <2>1. ASSUME NEW r \in Requests, NEW u \in Users, NEW a \in Amounts, submitTopupRequest(r, u, a)
        PROVE  ApprovedIsPaid'
    BY <2>0, <2>1 DEF submitTopupRequest, ApprovedIsPaid, TypeOK
  <2>2. ASSUME NEW c \in Calls, Start(c) PROVE ApprovedIsPaid'
    BY <2>2, StartKeeps DEF requests, ApprovedIsPaid
  <2>3. ASSUME NEW c \in Calls, SaveReview(c) PROVE ApprovedIsPaid'
    BY <2>0, <2>3 DEF SaveReview, ApprovedIsPaid, TypeOK, CallOK, PaidRequest
  <2>4. ASSUME NEW c \in Calls, Continue(c), ~SaveReview(c) PROVE ApprovedIsPaid'
    BY <2>4, ContinueKeeps DEF ApprovedIsPaid
  <2>5. CASE Crash \/ UNCHANGED vars \/ \E u \in Users : createWallet(u)
    BY <2>5 DEF Crash, vars, createWallet, requests, ApprovedIsPaid
  <2> QED BY <2>1, <2>2, <2>3, <2>4, <2>5 DEF Next
<1> QED BY InitIInv, NextIInv, <1>1, <1>2, PTL DEF Spec

(* The refunds of an order, and whether all of them began alone.           *)
Mine(c, u, o) == op[c] = "refund" /\ user[c] = u /\ ref[c] = o
Refunded(u, o) == {c \in Calls : Mine(c, u, o) /\ pc[c] = "done"}
NeverRaced(u, o) == \A c \in Calls : Mine(c, u, o) => alone[c]

(* Whoever refunded an order left the transaction, which keeps the others  *)
(* away from it; so there was only one.                                    *)
SettledOK(u, o) ==
    /\ Refunded(u, o) # {} => <<"refund", u, o>> \in refTx
    /\ NeverRaced(u, o) =>
           /\ <<"refund", u, o>> \in refTx => Refunding(u, o) = {}
           /\ \A c, d \in Refunding(u, o) : c = d
           /\ \A c, d \in Refunded(u, o) : c = d

SettledInv == \A u \in Users, o \in Refs : SettledOK(u, o)

(* Recording the credit of a refund is how it ends well.                   *)
LEMMA RecordSettles ==
  ASSUME IInv, SettledInv, NEW c \in Calls, RecordCredit(c), NEW u \in Users, NEW o \in Refs
  PROVE  SettledOK(u, o)'
<1>0. /\ SettledOK(u, o) /\ pc[c] = "creditTx" /\ pc \in [Calls -> {"idle"} \cup Waiting \cup Returned]
      /\ UNCHANGED <<op, user, ref, alone>>
  BY DEF SettledInv, RecordCredit, Goto, args, IInv, TypeOK
<1>1. /\ pc' = [pc EXCEPT ![c] = IF op[c] = "approve" THEN "approve" ELSE "done"]
      /\ refTx' = CASE op[c] = "refund"  -> refTx \cup {<<"refund", user[c], ref[c]>>}
                    [] op[c] = "approve" -> refTx \cup {<<"topup_bank", user[c], ref[c]>>}
                    [] OTHER             -> refTx
  BY DEF RecordCredit, Goto
<1>r. NeverRaced(u, o)' <=> NeverRaced(u, o) BY <1>0 DEF NeverRaced, Mine
<1>2. CASE Mine(c, u, o)
  <2>1. c \in Refunding(u, o) BY <1>0, <1>2 DEF Refunding, Mine
  <2>2. <<"refund", u, o>> \in refTx' BY <1>1, <1>2 DEF Mine
  <2>3. ASSUME NeverRaced(u, o)
        PROVE  Refunding(u, o)' = {} /\ \A d \in Refunded(u, o)' : d = c
    <3>1. Refunded(u, o) = {} /\ \A d \in Refunding(u, o) : d = c
      BY <1>0, <2>1, <2>3 DEF SettledOK
    <3>2. Refunding(u, o)' = {} BY <1>0, <1>1, <1>2, <3>1 DEF Refunding, Mine
    <3>3. \A d \in Refunded(u, o)' : d = c BY <1>0, <1>1, <3>1 DEF Refunded, Mine
    <3> QED BY <3>2, <3>3
  <2> QED BY <1>r, <2>2, <2>3 DEF SettledOK
<1>3. CASE ~Mine(c, u, o)
  <2>1. Refunding(u, o)' = Refunding(u, o) BY <1>0, <1>1, <1>3 DEF Refunding, Mine
  <2>2. Refunded(u, o)' = Refunded(u, o) BY <1>0, <1>1, <1>3 DEF Refunded, Mine
  <2>3. <<"refund", u, o>> \in refTx' <=> <<"refund", u, o>> \in refTx BY <1>1, <1>3 DEF Mine
  <2> QED BY <1>0, <1>r, <2>1, <2>2, <2>3 DEF SettledOK
<1> QED BY <1>2, <1>3

(* Every other step leaves the refunds of an order as they are, or ends    *)
(* one without a transaction, or begins one that has found none.           *)
LEMMA OthersSettle ==
  ASSUME NEW u \in Users, NEW o \in Refs, SettledOK(u, o), refTx' = refTx,
         Refunded(u, o)' = Refunded(u, o),
         NeverRaced(u, o)' =>
             /\ NeverRaced(u, o)
             /\ \/ Refunding(u, o)' \subseteq Refunding(u, o)
                \/ <<"refund", u, o>> \notin refTx /\ \E c \in Calls : Refunding(u, o)' = {c}
  PROVE  SettledOK(u, o)'
BY DEF SettledOK

(* One that begins alone is the only one.                                  *)
LEMMA StartSettles ==
  ASSUME IInv, SettledInv, NEW c \in Calls, Start(c), NEW u \in Users, NEW o \in Refs
  PROVE  SettledOK(u, o)'
<1>0. TypeOK /\ SettledOK(u, o) /\ CallOK(c) BY DEF IInv, SettledInv
<1>1. refTx' = refTx /\ \A d \in Calls : d # c => SameCall(d) BY StartKeeps
<1>2. ASSUME Mine(c, u, o)'
      PROVE  /\ pc'[c] = IF <<"refund", u, o>> \in refTx THEN "skipped" ELSE "credit"
             /\ alone'[c] => Refunding(u, o) = {}
  <2>1. PICK v \in Users, a \in Amounts, q \in Refs : refund(c, v, a, q)
    BY <1>2, StartKeeps DEF Mine
  <2>2. v = u /\ q = o BY <1>0, <1>2, <2>1 DEF refund, Begin, TypeOK, Mine
  <2>3. alone'[c] = (Refunding(v, q) = {})
    <3> DEFINE b == "refund" = "refund" => Refunding(v, q) = {}
    <3>1. alone' = [alone EXCEPT ![c] = b] BY <2>1 DEF refund, Begin
    <3>2. b = (Refunding(v, q) = {}) OBVIOUS
    <3> HIDE DEF b
    <3>3. alone'[c] = b BY <1>0, <3>1 DEF TypeOK
    <3> QED BY <3>2, <3>3
  <2>4. pc'[c] = IF <<"refund", v, q>> \in refTx THEN "skipped" ELSE "credit"
    BY <1>0, <2>1 DEF refund, Begin, TypeOK
  <2> QED BY <2>2, <2>3, <2>4
<1>3. pc[c] = "idle" /\ alone[c] BY <1>0, StartsIdle DEF CallOK
<1>4. Refunded(u, o)' = Refunded(u, o) BY <1>1, <1>2, <1>3 DEF Refunded, Mine, SameCall
<1>5. NeverRaced(u, o)' => NeverRaced(u, o) BY <1>1, <1>3 DEF NeverRaced, Mine, SameCall
<1>6. CASE Mine(c, u, o)' /\ <<"refund", u, o>> \notin refTx /\ NeverRaced(u, o)'
  <2>1. Refunding(u, o) = {} BY <1>2, <1>6 DEF NeverRaced
  <2>2. Refunding(u, o)' = {c} BY <1>1, <1>2, <1>6, <2>1 DEF Refunding, Mine, SameCall
  <2> QED BY <1>0, <1>1, <1>4, <1>5, <1>6, <2>2, OthersSettle
<1>7. CASE ~Mine(c, u, o)' \/ <<"refund", u, o>> \in refTx
  <2>1. Refunding(u, o)' \subseteq Refunding(u, o)
    BY <1>1, <1>2, <1>7 DEF Refunding, Mine, SameCall
  <2> QED BY <1>0, <1>1, <1>4, <1>5, <2>1, OthersSettle
<1>8. CASE ~NeverRaced(u, o)' BY <1>0, <1>1, <1>4, <1>8, OthersSettle
<1> QED BY <1>6, <1>7, <1>8

LEMMA ContinueSettles ==
  ASSUME IInv, SettledInv, NEW c \in Calls, Continue(c), NEW u \in Users, NEW o \in Refs
  PROVE  SettledOK(u, o)'
<1>1. CASE RecordCredit(c) BY <1>1, RecordSettles
<1>2. CASE ~RecordCredit(c)
  <2>0. TypeOK /\ SettledOK(u, o) /\ CallOK(c) BY DEF IInv, SettledInv
  <2>1. refTx' = refTx /\ user' = user /\ alone' = alone
    BY <1>2 DEF Continue, CreditWallet, RecordDebit, RestoreBalance, SaveReview,
       updateWalletBalance, WriteFails, Goto, args
  <2>2. /\ op' = op /\ ref' = ref /\ \A d \in Calls : d # c => pc'[d] = pc[d]
        /\ pc[c] \in Waiting
        /\ pc'[c] \in {"credit", "creditTx"} => pc[c] = "credit"
    BY ContinueKeeps
  <2>3. op[c] = "refund" => pc'[c] # "done"
    <3> SUFFICES ASSUME op[c] = "refund", pc'[c] = "done" PROVE FALSE
      OBVIOUS
    <3>1. CASE CreditWallet(c) BY <2>0, <3>1 DEF CreditWallet, Goto, TypeOK
    <3>2. CASE RecordDebit(c) \/ SaveReview(c)
      BY <2>0, <3>2 DEF RecordDebit, SaveReview, CallOK
    <3>3. CASE RestoreBalance(c) \/ updateWalletBalance(c)
      BY <2>0, <3>3 DEF RestoreBalance, updateWalletBalance, Goto, TypeOK
    <3>4. CASE WriteFails(c)
      <4>1. pc[c] # "approve" BY <2>0 DEF CallOK
      <4>2. pc'[c] = IF pc[c] = "debitTx" THEN "restore" ELSE EndedAt(pc[c])
        BY <2>0, <3>4 DEF WriteFails, Goto, TypeOK
      <4> QED BY <4>1, <4>2 DEF EndedAt
    <3> QED BY <1>2, <3>1, <3>2, <3>3, <3>4 DEF Continue
  <2>4. Refunded(u, o)' = Refunded(u, o) BY <2>1, <2>2, <2>3 DEF Refunded, Mine, Waiting
  <2>5. Refunding(u, o)' \subseteq Refunding(u, o) BY <2>1, <2>2 DEF Refunding
  <2>6. NeverRaced(u, o)' => NeverRaced(u, o) BY <2>1, <2>2 DEF NeverRaced, Mine
  <2> QED BY <2>0, <2>1, <2>4, <2>5, <2>6, OthersSettle
<1> QED BY <1>1, <1>2

LEMMA NextSettles == IInv /\ SettledInv /\ [Next]_vars => SettledInv'
<1> SUFFICES ASSUME IInv, SettledInv, [Next]_vars, NEW u \in Users, NEW o \in Refs
             PROVE  SettledOK(u, o)'
  BY DEF SettledInv
<1>0. TypeOK /\ SettledOK(u, o) /\ \A c \in Calls : CallOK(c) BY DEF IInv, SettledInv
<1>1. CASE Crash
  <2>1. UNCHANGED <<refTx, op, user, ref, alone>> BY <1>1 DEF Crash, args
  <2>2. \A c \in Calls : pc'[c] = IF pc[c] \in Waiting THEN EndedAt(pc[c]) ELSE pc[c]
    BY <1>1 DEF Crash
  <2>3. ASSUME NEW c \in Calls, op[c] = "refund", pc'[c] = "done" PROVE pc[c] = "done"
    <3>1. pc[c] # "approve" BY <1>0, <2>3 DEF CallOK
    <3>2. CASE pc[c] \notin Waiting BY <2>2, <2>3, <3>2
    <3>3. CASE pc[c] \in Waiting
      <4>1. pc'[c] = EndedAt(pc[c]) BY <2>2, <3>3
      <4> QED BY <2>3, <3>1, <4>1 DEF EndedAt
    <3> QED BY <3>2, <3>3
  <2>4. \A c \in Calls : pc[c] = "done" => pc'[c] = "done" BY <2>2 DEF Waiting
  <2>5. Refunded(u, o)' = Refunded(u, o) BY <2>1, <2>3, <2>4 DEF Refunded, Mine
  <2>6. \A c \in Calls : pc'[c] \notin {"credit", "creditTx"}
    BY <1>0, <2>2, EndedAtReturned DEF TypeOK, Waiting, Returned
  <2>7. Refunding(u, o)' \subseteq Refunding(u, o) BY <2>6 DEF Refunding
  <2>8. NeverRaced(u, o)' => NeverRaced(u, o) BY <2>1 DEF NeverRaced, Mine
  <2> QED BY <1>0, <2>1, <2>5, <2>7, <2>8, OthersSettle
<1>2. CASE UNCHANGED <<refTx, pc, args>>
  BY <1>0, <1>2, OthersSettle DEF Refunded, Refunding, NeverRaced, Mine, args
<1>3. CASE (\E v \in Users : createWallet(v)) \/ UNCHANGED vars
  BY <1>2, <1>3 DEF createWallet, vars
<1>4. ASSUME NEW r \in Requests, NEW v \in Users, NEW a \in Amounts, submitTopupRequest(r, v, a)
      PROVE  SettledOK(u, o)'
  BY <1>2, <1>4 DEF submitTopupRequest
<1> QED BY <1>1, <1>3, <1>4, StartSettles, ContinueSettles DEF Next

(* The idempotency guard of refund prevents every double refund but two:   *)
(* unless one refund of an order begins while another is under way, or     *)
(* ends between its credit and its transaction, the order is credited      *)
(* once, however often, by whomever and for whatever amounts it is asked.  *)
THEOREM WalletRefundedOnce == Spec => []RefundedOnceUnlessRaced
<1>1. Init => SettledInv
  BY DEF Init, SettledInv, SettledOK, Refunded, Refunding
<1>2. IInv /\ SettledInv => RefundedOnceUnlessRaced
  <2> SUFFICES ASSUME IInv, SettledInv, NEW u \in Users, NEW o \in Refs,
                      \A c \in Calls : Mine(c, u, o) => alone[c] /\ pc[c] # "unrecorded"
               PROVE  Cardinality({c \in Credited("refund", o) : user[c] = u}) <= 1
    BY DEF RefundedOnceUnlessRaced, CreditedOnce, Mine
  <2> DEFINE Paid == {c \in Credited("refund", o) : user[c] = u}
  <2>0. NeverRaced(u, o) /\ SettledOK(u, o) BY DEF NeverRaced, SettledInv
  <2>1. Paid \subseteq Refunding(u, o) \cup Refunded(u, o)
    BY DEF IInv, CallOK, Credited, Refunding, Refunded, Mine
  <2>2. \A c, d \in Paid : c = d
    BY <2>0, <2>1 DEF SettledOK
  <2>3. CASE Paid = {} BY <2>3, FS_EmptySet
  <2>4. CASE Paid # {}
    <3>1. PICK c \in Paid : TRUE BY <2>4
    <3>2. Paid = {c} BY <2>2, <3>1
    <3> HIDE DEF Paid
    <3>3. Cardinality(Paid) = 1 BY <3>2, FS_Singleton
    <3> QED BY <3>3 DEF Paid
  <2> QED BY <2>3, <2>4
<1> QED BY InitIInv, NextIInv, NextSettles, <1>1, <1>2, PTL DEF Spec

(* A reviewed bank slip that nobody is reviewing keeps its verdict and is  *)
(* never reviewed again.                                                   *)
THEOREM WalletReviewSettles == Spec => ReviewSettles
<1> DEFINE Settled(r) == reqStatus[r] \in {"approved", "rejected"} /\ Reviewing(r) = {}
<1>1. ASSUME IInv, [Next]_vars, NEW r \in Requests, Settled(r)
      PROVE  reqStatus'[r] = reqStatus[r] /\ Reviewing(r)' = {}
  <2>0. TypeOK /\ \A c \in Calls : CallOK(c) BY <1>1 DEF IInv
  <2>1. ASSUME NEW c \in Calls, Start(c) PROVE reqStatus'[r] = reqStatus[r] /\ Reviewing(r)' = {}
    <3>1. reqStatus' = reqStatus /\ \A d \in Calls : d # c => SameCall(d)
      BY <1>1, <2>1, StartKeeps DEF requests
    <3>2. ASSUME op'[c] \in {"approve", "reject"}, ref'[c] = r PROVE pc'[c] = "rejected"
      <4>1. PICK q \in Requests : approveTopupRequest(c, q) \/ rejectTopupRequest(c, q)
        BY <1>1, <2>1, <3>2, StartKeeps
      <4> QED BY <1>1, <2>0, <3>2, <4>1 DEF approveTopupRequest, rejectTopupRequest, Begin, TypeOK
    <3> QED BY <1>1, <3>1, <3>2 DEF Reviewing, SameCall, Waiting
  <2>2. ASSUME NEW c \in Calls, Continue(c) PROVE reqStatus'[r] = reqStatus[r] /\ Reviewing(r)' = {}
    <3>1. Reviewing(r)' = {}
      BY <1>1, <2>2, ContinueKeeps DEF Reviewing
    <3>2. CASE SaveReview(c)
      <4>1. c \in Reviewing(ref[c])
        BY <2>0, <3>2 DEF SaveReview, CallOK, Reviewing, Waiting
      <4>2. ref[c] # r
        BY <1>1, <4>1
      <4> QED BY <2>0, <3>1, <3>2, <4>2 DEF SaveReview, TypeOK
    <3> QED BY <1>1, <2>2, <3>1, <3>2, ContinueKeeps
  <2>3. CASE Crash
    BY <1>1, <2>0, <2>3, EndedAtReturned DEF Crash, args, requests, Reviewing, TypeOK, Waiting, Returned
  <2>4. ASSUME NEW q \in Requests, NEW u \in Users, NEW a \in Amounts, submitTopupRequest(q, u, a)
        PROVE  reqStatus'[r] = reqStatus[r] /\ Reviewing(r)' = {}
    BY <1>1, <2>0, <2>4 DEF submitTopupRequest, args, Reviewing, TypeOK
  <2>5. CASE UNCHANGED <<reqStatus, pc, args>>
    BY <1>1, <2>5 DEF args, Reviewing
  <2> QED BY <1>1, <2>1, <2>2, <2>3, <2>4, <2>5 DEF Next, vars, createWallet, requests
<1>2. IInv /\ [Next]_vars
      => [\A r \in Requests : Settled(r) => reqStatus'[r] = reqStatus[r] /\ Reviewing(r)' = {}]_vars
  BY <1>1
<1> QED BY InitIInv, NextIInv, <1>2, PTL DEF Spec, ReviewSettles

(* How a bank slip can be paid twice: two reviews of it overlap, or an     *)
(* approval that has paid is cut short before it is saved.                 *)
OneReview == \A r \in Requests : \A c, d \in Reviewing(r) : c = d
Uncut ==
    \A c \in Calls :
        op[c] = "approve" /\ pc[c] \in {"creditTx", "approve"}
        => pc'[c] = pc[c] \/ RecordCredit(c) \/ SaveReview(c)

(* A bank slip is paid at most once.                                       *)
SlipPaidOnce == \A r \in Requests : Cardinality(Credited("approve", r)) <= 1

Reviewed(r) == reqStatus[r] \in {"approved", "rejected"}
Approved(r) == {c \in Calls : op[c] = "approve" /\ ref[c] = r /\ pc[c] = "done"}

(* Whoever paid a slip has closed it, and nobody reviews a closed slip.    *)
SlipOK(r) ==
    /\ Reviewed(r) => Reviewing(r) = {}
    /\ Approved(r) # {} => Reviewed(r)
    /\ \A c, d \in Approved(r) : c = d

SlipInv ==
    /\ \A r \in Requests : SlipOK(r)
    /\ \A c \in Calls : op[c] = "approve" => pc[c] # "unrecorded"

LEMMA SlipKept ==
  ASSUME NEW r \in Requests, SlipOK(r), Reviewed(r)' <=> Reviewed(r),
         Approved(r)' = Approved(r), Reviewed(r) => Reviewing(r)' \subseteq Reviewing(r)
  PROVE  SlipOK(r)'
BY DEF SlipOK

LEMMA StartSlip == ASSUME IInv, SlipInv, NEW c \in Calls, Start(c) PROVE SlipInv'
<1>0. TypeOK BY DEF IInv
<1>1. reqStatus' = reqStatus /\ \A d \in Calls : d # c => SameCall(d) BY StartKeeps DEF requests
<1>2. ASSUME op'[c] \in {"approve", "reject"}
      PROVE  pc'[c] \in Waiting \cup {"rejected"} /\ (Reviewed(ref'[c]) => pc'[c] = "rejected")
  <2>1. PICK q \in Requests : approveTopupRequest(c, q) \/ rejectTopupRequest(c, q)
    BY <1>2, StartKeeps
  <2>2. ref'[c] = q BY <1>0, <2>1 DEF approveTopupRequest, rejectTopupRequest, Begin, TypeOK
  <2>3. pc'[c] \in {"credit", "reject", "rejected"} /\ (reqStatus[q] # "pending" => pc'[c] = "rejected")
    BY <1>0, <2>1 DEF approveTopupRequest, rejectTopupRequest, Begin, TypeOK
  <2> QED BY <2>2, <2>3 DEF Reviewed, Waiting
<1>3. pc[c] = "idle" BY StartsIdle
<1>4. ASSUME NEW r \in Requests PROVE SlipOK(r)'
  <2>1. SlipOK(r) /\ (Reviewed(r)' <=> Reviewed(r)) BY <1>1 DEF SlipInv, Reviewed
  <2>2. Approved(r)' = Approved(r) BY <1>1, <1>2, <1>3 DEF Approved, SameCall, Waiting
  <2>3. Reviewed(r) => Reviewing(r)' \subseteq Reviewing(r)
    BY <1>1, <1>2 DEF Reviewing, SameCall, Waiting
  <2> QED BY <2>1, <2>2, <2>3, SlipKept
<1>5. ASSUME NEW d \in Calls, op'[d] = "approve" PROVE pc'[d] # "unrecorded"
  BY <1>1, <1>2, <1>5 DEF SlipInv, SameCall, Waiting
<1> QED BY <1>4, <1>5 DEF SlipInv

LEMMA SaveSlip ==
  ASSUME IInv, SlipInv, OneReview, NEW c \in Calls, SaveReview(c) PROVE SlipInv'
<1>0. TypeOK /\ CallOK(c) BY DEF IInv
<1>1. /\ pc' = [pc EXCEPT ![c] = "done"] /\ UNCHANGED <<op, ref>>
      /\ reqStatus' = [reqStatus EXCEPT ![ref[c]] = IF pc[c] = "approve" THEN "approved" ELSE "rejected"]
  BY DEF SaveReview, Goto, args
<1>2. ref[c] \in Requests /\ c \in Reviewing(ref[c])
  BY <1>0 DEF SaveReview, CallOK, Submitted, Reviewing, Waiting
<1>3. ASSUME NEW r \in Requests PROVE SlipOK(r)'
  <2>0. SlipOK(r) BY DEF SlipInv
  <2>1. CASE ref[c] = r
    <3>1. ~Reviewed(r) /\ Approved(r) = {} BY <1>2, <2>0, <2>1 DEF SlipOK
    <3>2. \A d \in Reviewing(r) : d = c BY <1>2, <2>1 DEF OneReview
    <3>3. Reviewed(r)' BY <1>0, <1>1, <2>1 DEF Reviewed, TypeOK
    <3>4. Reviewing(r)' = {} BY <1>0, <1>1, <3>2 DEF Reviewing, TypeOK, Waiting
    <3>5. \A d \in Approved(r)' : d = c BY <1>0, <1>1, <3>1 DEF Approved, TypeOK
    <3> QED BY <3>3, <3>4, <3>5 DEF SlipOK
  <2>2. CASE ref[c] # r
    <3>1. Reviewed(r)' <=> Reviewed(r) BY <1>0, <1>1, <2>2 DEF Reviewed, TypeOK
    <3>2. Approved(r)' = Approved(r) BY <1>0, <1>1, <2>2 DEF Approved, TypeOK
    <3>3. Reviewing(r)' = Reviewing(r) BY <1>0, <1>1, <2>2 DEF Reviewing, TypeOK
    <3> QED BY <2>0, <3>1, <3>2, <3>3, SlipKept
  <2> QED BY <2>1, <2>2
<1>4. \A d \in Calls : op'[d] = "approve" => pc'[d] # "unrecorded"
  BY <1>0, <1>1 DEF SlipInv, TypeOK
<1> QED BY <1>3, <1>4 DEF SlipInv

LEMMA ContinueSlip ==
  ASSUME IInv, SlipInv, OneReview, Uncut, NEW c \in Calls, Continue(c) PROVE SlipInv'
<1>1. CASE SaveReview(c) BY <1>1, SaveSlip
<1>2. CASE ~SaveReview(c)
  <2>0. TypeOK /\ CallOK(c) BY DEF IInv
  <2>1. /\ reqStatus' = reqStatus /\ op' = op /\ ref' = ref /\ pc[c] \in Waiting
        /\ \A d \in Calls : d # c => pc'[d] = pc[d]
    BY <1>2, ContinueKeeps
  <2>2. op[c] = "approve" => pc'[c] \notin {"done", "unrecorded"}
    <3> SUFFICES ASSUME op[c] = "approve" PROVE pc'[c] \notin {"done", "unrecorded"}
      OBVIOUS
    <3>1. CASE RecordCredit(c) BY <2>0, <3>1 DEF RecordCredit, Goto, TypeOK
    <3>2. CASE CreditWallet(c) BY <2>0, <3>2 DEF CreditWallet, Goto, TypeOK
    <3>3. CASE RecordDebit(c) \/ RestoreBalance(c) \/ updateWalletBalance(c)
      BY <2>0, <3>3 DEF RecordDebit, RestoreBalance, updateWalletBalance, CallOK
    <3>4. CASE WriteFails(c) /\ ~RecordCredit(c)
      <4>1. pc[c] \notin {"debitTx", "restore"} BY <2>0 DEF CallOK
      <4>2. pc[c] \in {"creditTx", "approve"} => pc'[c] = pc[c] BY <1>2, <3>4 DEF Uncut
      <4>3. pc'[c] = EndedAt(pc[c]) BY <2>0, <3>4, <4>1 DEF WriteFails, Goto, TypeOK
      <4> QED BY <4>1, <4>2, <4>3 DEF EndedAt
    <3> QED BY <1>2, <3>1, <3>2, <3>3, <3>4 DEF Continue
  <2>3. ASSUME NEW r \in Requests PROVE SlipOK(r)'
    <3>1. SlipOK(r) /\ (Reviewed(r)' <=> Reviewed(r)) BY <2>1 DEF SlipInv, Reviewed
    <3>2. Approved(r)' = Approved(r) BY <2>1, <2>2 DEF Approved, Waiting
    <3>3. Reviewing(r)' \subseteq Reviewing(r) BY <2>1 DEF Reviewing
    <3> QED BY <3>1, <3>2, <3>3, SlipKept
  <2>4. \A d \in Calls : op'[d] = "approve" => pc'[d] # "unrecorded"
    BY <2>1, <2>2 DEF SlipInv
  <2> QED BY <2>3, <2>4 DEF SlipInv
<1> QED BY <1>1, <1>2

(* A restart that cuts no approval between its credit and its verdict.     *)
LEMMA CrashSlip == ASSUME IInv, SlipInv, Uncut, Crash PROVE SlipInv'
<1>0. TypeOK /\ \A c \in Calls : CallOK(c) BY DEF IInv
<1>1. /\ UNCHANGED <<reqStatus, op, ref>>
      /\ \A c \in Calls : pc'[c] = IF pc[c] \in Waiting THEN EndedAt(pc[c]) ELSE pc[c]
  BY DEF Crash, args, requests
<1>2. ASSUME NEW c \in Calls, op[c] = "approve" PROVE pc[c] \notin {"creditTx", "approve"}
  <2>1. CASE pc[c] = "creditTx"
    <3>1. pc'[c] = "unrecorded" BY <1>1, <2>1 DEF EndedAt, Waiting
    <3>2. RecordCredit(c) BY <1>2, <2>1, <3>1 DEF Uncut, SaveReview
    <3> QED BY <1>0, <1>2, <3>1, <3>2 DEF RecordCredit, Goto, TypeOK
  <2>2. CASE pc[c] = "approve"
    <3>1. pc'[c] = "done" BY <1>1, <2>2 DEF EndedAt, Waiting
    <3>2. SaveReview(c) BY <1>2, <2>2, <3>1 DEF Uncut, RecordCredit
    <3>3. ref[c] \in Requests /\ c \in Reviewing(ref[c])
      BY <1>0, <1>2, <2>2 DEF CallOK, Submitted, Reviewing, Waiting
    <3>4. reqStatus[ref[c]] = "approved" BY <1>0, <1>1, <2>2, <3>2, <3>3 DEF SaveReview, TypeOK
    <3> QED BY <3>3, <3>4 DEF SlipInv, SlipOK, Reviewed
  <2> QED BY <2>1, <2>2
<1>3. ASSUME NEW c \in Calls, op[c] = "approve", pc'[c] \in {"done", "unrecorded"}
      PROVE  pc'[c] = pc[c]
  <2>1. pc[c] \notin {"creditTx", "approve", "debitTx", "restore"} BY <1>0, <1>2, <1>3 DEF CallOK
  <2>2. CASE pc[c] \in Waiting
    <3>1. pc'[c] = EndedAt(pc[c]) BY <1>1, <2>2
    <3> QED BY <1>3, <2>1, <3>1 DEF EndedAt
  <2> QED BY <1>1, <2>2
<1>4. ASSUME NEW r \in Requests PROVE SlipOK(r)'
  <2>1. SlipOK(r) /\ (Reviewed(r)' <=> Reviewed(r)) BY <1>1 DEF SlipInv, Reviewed
  <2>2. \A c \in Calls : pc[c] = "done" => pc'[c] = "done" BY <1>1 DEF Waiting
  <2>3. Approved(r)' = Approved(r) BY <1>1, <1>3, <2>2 DEF Approved
  <2>4. \A c \in Calls : pc'[c] \notin Waiting
    BY <1>0, <1>1, EndedAtReturned DEF TypeOK, Waiting, Returned
  <2>5. Reviewing(r)' \subseteq Reviewing(r) BY <2>4 DEF Reviewing
  <2> QED BY <2>1, <2>3, <2>5, SlipKept
<1>5. \A c \in Calls : op'[c] = "approve" => pc'[c] # "unrecorded"
  BY <1>1, <1>3 DEF SlipInv
<1> QED BY <1>4, <1>5 DEF SlipInv

LEMMA NextSlip ==
  IInv /\ SlipInv /\ OneReview /\ [Next]_vars /\ [Uncut]_vars => SlipInv'
<1> SUFFICES ASSUME IInv, SlipInv, OneReview, [Next]_vars, [Uncut]_vars PROVE SlipInv'
  OBVIOUS
<1>1. CASE UNCHANGED <<reqStatus, pc, args>>
  <2>1. ASSUME NEW r \in Requests PROVE SlipOK(r)'
    <3>1. SlipOK(r) /\ (Reviewed(r)' <=> Reviewed(r)) BY <1>1 DEF SlipInv, Reviewed
    <3>2. Approved(r)' = Approved(r) /\ Reviewing(r)' = Reviewing(r)
      BY <1>1 DEF args, Approved, Reviewing
    <3> QED BY <3>1, <3>2, SlipKept
  <2> QED BY <1>1, <2>1 DEF SlipInv, args
<1>2. CASE (\E u \in Users : createWallet(u)) \/ UNCHANGED vars
  BY <1>1, <1>2 DEF createWallet, vars, requests
<1>3. ASSUME NEW q \in Requests, NEW u \in Users, NEW a \in Amounts, submitTopupRequest(q, u, a)
      PROVE  SlipInv'
  <2>1. ASSUME NEW r \in Requests PROVE SlipOK(r)'
    <3>1. SlipOK(r) /\ (Reviewed(r)' <=> Reviewed(r))
      BY <1>3 DEF SlipInv, Reviewed, submitTopupRequest, IInv, TypeOK
    <3>2. Approved(r)' = Approved(r) /\ Reviewing(r)' = Reviewing(r)
      BY <1>3 DEF submitTopupRequest, args, Approved, Reviewing
    <3> QED BY <3>1, <3>2, SlipKept
  <2> QED BY <1>3, <2>1 DEF SlipInv, submitTopupRequest, args
<1>4. ASSUME Next, ~UNCHANGED vars PROVE SlipInv'
  <2>1. Uncut BY <1>4
  <2> QED BY <1>2, <1>3, <1>4, <2>1, StartSlip, ContinueSlip, CrashSlip DEF Next
<1> QED BY <1>2, <1>4

(* "Only pending requests can be approved" (wallet.service.ts:468) keeps a *)
(* slip from being paid twice but in those two ways: while the reviews of  *)
(* a slip come one at a time and no approval is cut short between its      *)
(* credit and its verdict, a slip is paid at most once, however often it   *)
(* is approved.                                                            *)
THEOREM WalletSlipPaidOnce == Spec /\ []OneReview /\ [][Uncut]_vars => []SlipPaidOnce
<1>1. Init => SlipInv
  BY DEF Init, SlipInv, SlipOK, Reviewed, Approved, Reviewing
<1>2. IInv /\ SlipInv /\ OneReview => SlipPaidOnce
  <2> SUFFICES ASSUME IInv, SlipInv, OneReview, NEW r \in Requests
               PROVE  Cardinality(Credited("approve", r)) <= 1
    BY DEF SlipPaidOnce
  <2> DEFINE Paid == Credited("approve", r)
  <2>0. SlipOK(r) BY DEF SlipInv
  <2>1. Paid \subseteq Reviewing(r) \cup Approved(r)
    BY DEF SlipInv, Credited, Reviewing, Approved, Waiting
  <2>2. Reviewing(r) = {} \/ Approved(r) = {} BY <2>0 DEF SlipOK
  <2>3. \A c, d \in Paid : c = d
    BY <2>0, <2>1, <2>2 DEF SlipOK, OneReview
  <2>4. CASE Paid = {} BY <2>4, FS_EmptySet
  <2>5. CASE Paid # {}
    <3>1. PICK c \in Paid : TRUE BY <2>5
    <3>2. Paid = {c} BY <2>3, <3>1
    <3> HIDE DEF Paid
    <3>3. Cardinality(Paid) = 1 BY <3>2, FS_Singleton
    <3> QED BY <3>3 DEF Paid
  <2> QED BY <2>4, <2>5
<1> QED BY InitIInv, NextIInv, NextSlip, <1>1, <1>2, PTL DEF Spec
-----------------------------------------------------------------------------
(* Sums.  MapThenSumSet folds a recursive function over the subsets of the *)
(* set; SumsExist is its recursive equation.  Induction is stated with a   *)
(* set of subsets, P, and rests on their strict order being well-founded.  *)
Sum(f, S) == MapThenSumSet(LAMBDA x : f[x], S)

Pick(s) == CHOOSE x \in s : TRUE

(* What one round of the fold adds to the sum of a smaller set.            *)
Round(f, g, s) == IF s = {} THEN 0 ELSE f[Pick(s)] + g[s \ {Pick(s)}]

Sums(f, S) == CHOOSE g : g = [s \in SUBSET S |-> Round(f, g, s)]

LEMMA SumDef == ASSUME NEW f, NEW S PROVE Sum(f, S) = Sums(f, S)[S]
  BY Zenon DEF Sum, MapThenSumSet, MapThenFoldSet, Sums, Pick, Round

LEMMA PickIn == ASSUME NEW S, S # {} PROVE Pick(S) \in S
  BY DEF Pick

(* Induction over the subsets of a finite set.                             *)
LEMMA SubsetInduction ==
    ASSUME NEW S, IsFiniteSet(S), NEW P,
           \A T \in SUBSET S : (\A x \in T : T \ {x} \in P) => T \in P
    PROVE  SUBSET S \subseteq P
<1> SUFFICES ASSUME (SUBSET S) \ P # {} PROVE FALSE
  OBVIOUS
<1>1. IsWellFoundedOn(StrictSubsetOrdering(S), SUBSET S)
  <2>1. IsWellFoundedOn(StrictSubsetOrdering(S), FiniteSubsetsOf(S))
    BY FS_StrictSubsetOrderingWellFounded, Zenon
  <2>2. FiniteSubsetsOf(S) = SUBSET S
    BY FS_FiniteSubsetsOfFinite, Zenon
  <2> QED BY <2>1, <2>2, Zenon
<1>2. PICK T \in (SUBSET S) \ P :
         \A U \in (SUBSET S) \ P : ~(<<U, T>> \in StrictSubsetOrdering(S))
  BY <1>1, WFMin
<1>3. ASSUME NEW x \in T PROVE T \ {x} \in P
  <2>1. T \ {x} \in SUBSET S /\ T \ {x} \subseteq T /\ T \ {x} # T
    BY <1>2, <1>3
  <2>2. <<T \ {x}, T>> \in StrictSubsetOrdering(S)
    BY <1>2, <2>1 DEF StrictSubsetOrdering
  <2> QED BY <1>2, <2>1, <2>2
<1>4. T \in SUBSET S /\ T \notin P
  BY <1>2
<1> QED BY <1>3, <1>4, Zenon

(* The natural numbers are well-founded.                                   *)
LEMMA NumberInduction ==
    ASSUME NEW P, 0 \in P, \A n \in Nat : n \in P => n + 1 \in P
    PROVE  Nat \subseteq P
<1> DEFINE Less == {ss \in Nat \X Nat : ss[1] < ss[2]}
<1> SUFFICES ASSUME Nat \ P # {} PROVE FALSE
  OBVIOUS
<1>1. IsWellFoundedOn(Less, Nat)
  BY NatLessThanWellFounded, Zenon DEF OpToRel
<1>2. PICK n \in Nat \ P : \A m \in Nat \ P : ~(<<m, n>> \in Less)
  BY <1>1, WFMin
<1>3. n # 0 /\ n - 1 \in Nat
  OBVIOUS
<1>4. <<n - 1, n>> \in Less
  BY <1>3
<1>5. n - 1 \in P
  BY <1>2, <1>3, <1>4
<1> QED BY <1>3, <1>5

LEMMA SumsExist ==
    ASSUME NEW f, NEW S, IsFiniteSet(S)
    PROVE  \A s \in SUBSET S : Sums(f, S)[s] = Round(f, Sums(f, S), s)
<1> DEFINE Upto(n) == {s \in SUBSET S : Cardinality(s) <= n}
           P == {n \in Nat : \E g : g = [s \in Upto(n) |-> Round(f, g, s)]}
<1>1. \A s \in SUBSET S : IsFiniteSet(s) /\ Cardinality(s) \in Nat /\ Cardinality(s) <= Cardinality(S)
  BY FS_Subset, FS_CardinalityType
<1>2. 0 \in P
  <2>1. \A s \in Upto(0) : s = {}
    BY <1>1, FS_EmptySet
  <2> DEFINE g == [s \in Upto(0) |-> 0]
  <2>2. g = [s \in Upto(0) |-> Round(f, g, s)]
    BY <2>1 DEF Round
  <2> QED BY <2>2
<1>3. ASSUME NEW n \in Nat, n \in P PROVE n + 1 \in P
  <2>1. PICK g : g = [s \in Upto(n) |-> Round(f, g, s)]
    BY <1>3
  <2> DEFINE h == [s \in Upto(n + 1) |-> Round(f, g, s)]
  <2>2. Upto(n) \subseteq Upto(n + 1)
    BY <1>1
  <2>3. \A t \in Upto(n) : h[t] = g[t]
    BY <2>1, <2>2
  <2>4. ASSUME NEW s \in Upto(n + 1), s # {} PROVE s \ {Pick(s)} \in Upto(n)
    BY <1>1, <2>4, PickIn, FS_RemoveElement
  <2>5. \A s \in Upto(n + 1) : Round(f, g, s) = Round(f, h, s)
    BY <2>3, <2>4 DEF Round
  <2>6. h = [s \in Upto(n + 1) |-> Round(f, h, s)]
    BY <2>5
  <2>7. \E k : k = [s \in Upto(n + 1) |-> Round(f, k, s)]
    <3> HIDE DEF h
    <3> QED BY <2>6, Zenon
  <2> HIDE DEF Upto, h
  <2> QED BY <2>7
<1>4. Cardinality(S) \in P
  BY <1>2, <1>3, NumberInduction, FS_CardinalityType
<1>5. Upto(Cardinality(S)) = SUBSET S
  BY <1>1
<1>6. \E g : g = [s \in SUBSET S |-> Round(f, g, s)]
  BY <1>4, <1>5
<1>7. Sums(f, S) = [s \in SUBSET S |-> Round(f, Sums(f, S), s)]
  BY <1>6, Zenon DEF Sums
<1> QED BY <1>7

LEMMA SumsAgree ==
    ASSUME NEW f, NEW S, IsFiniteSet(S), NEW T \in SUBSET S, NEW s \in SUBSET T
    PROVE  Sums(f, T)[s] = Sums(f, S)[s]
<1> DEFINE P == {t \in SUBSET T : Sums(f, T)[t] = Sums(f, S)[t]}
<1>1. IsFiniteSet(T)
  BY FS_Subset
<1>2. /\ \A t \in SUBSET T : Sums(f, T)[t] = Round(f, Sums(f, T), t)
      /\ \A t \in SUBSET S : Sums(f, S)[t] = Round(f, Sums(f, S), t)
  BY <1>1, SumsExist
<1>3. ASSUME NEW t \in SUBSET T, \A x \in t : t \ {x} \in P PROVE t \in P
  <2>1. t # {} => Sums(f, T)[t \ {Pick(t)}] = Sums(f, S)[t \ {Pick(t)}]
    BY <1>3, PickIn
  <2> QED BY <1>2, <2>1 DEF Round
<1>4. SUBSET T \subseteq P
  <2> HIDE DEF P
  <2> QED BY <1>1, <1>3, SubsetInduction, Zenon
<1> QED BY <1>4

LEMMA SumEmpty == ASSUME NEW f PROVE Sum(f, {}) = 0
<1>1. IsFiniteSet({})
  BY FS_EmptySet
<1>2. Sums(f, {})[{}] = Round(f, Sums(f, {}), {})
  BY <1>1, SumsExist
<1> QED BY <1>2, SumDef DEF Round

LEMMA SumPick ==
    ASSUME NEW f, NEW S, IsFiniteSet(S), S # {}
    PROVE  Sum(f, S) = f[Pick(S)] + Sum(f, S \ {Pick(S)})
<1>1. Sums(f, S)[S] = Round(f, Sums(f, S), S)
  BY SumsExist
<1>2. Sums(f, S)[S] = f[Pick(S)] + Sums(f, S)[S \ {Pick(S)}]
  BY <1>1 DEF Round
<1>3. Sums(f, S \ {Pick(S)})[S \ {Pick(S)}] = Sums(f, S)[S \ {Pick(S)}]
  BY SumsAgree
<1> QED BY <1>2, <1>3, SumDef

LEMMA SumType ==
    ASSUME NEW f, NEW S, IsFiniteSet(S), \A x \in S : f[x] \in Int
    PROVE  Sum(f, S) \in Int
<1> DEFINE P == {T \in SUBSET S : Sum(f, T) \in Int}
<1>1. ASSUME NEW T \in SUBSET S, \A x \in T : T \ {x} \in P PROVE T \in P
  <2>1. CASE T = {}
    BY <2>1, SumEmpty
  <2>2. CASE T # {}
    <3>1. IsFiniteSet(T) BY FS_Subset
    <3>2. Pick(T) \in T /\ Sum(f, T) = f[Pick(T)] + Sum(f, T \ {Pick(T)})
      BY <2>2, <3>1, PickIn, SumPick
    <3> QED BY <1>1, <3>2
  <2> QED BY <2>1, <2>2
<1>2. SUBSET S \subseteq P
  <2> HIDE DEF P
  <2> QED BY <1>1, SubsetInduction, Zenon
<1> QED BY <1>2

LEMMA SumWithout ==
    ASSUME NEW f, NEW S, IsFiniteSet(S), \A x \in S : f[x] \in Int, NEW x \in S
    PROVE  Sum(f, S) = f[x] + Sum(f, S \ {x})
<1> DEFINE P == {T \in SUBSET S : \A y \in T : Sum(f, T) = f[y] + Sum(f, T \ {y})}
<1>1. ASSUME NEW T \in SUBSET S, \A y \in T : T \ {y} \in P, NEW y \in T
      PROVE  Sum(f, T) = f[y] + Sum(f, T \ {y})
  <2>1. IsFiniteSet(T) BY FS_Subset
  <2> DEFINE z == Pick(T)
             R == (T \ {y}) \ {z}
  <2>2. z \in T BY PickIn
  <2>3. Sum(f, T) = f[z] + Sum(f, T \ {z})
    BY <2>1, SumPick
  <2>4. CASE y # z
    <3>1. R = (T \ {z}) \ {y} /\ y \in T \ {z} /\ z \in T \ {y}
      BY <2>2, <2>4
    <3>2. Sum(f, T \ {z}) = f[y] + Sum(f, R)
      BY <1>1, <2>2, <3>1
    <3>3. Sum(f, T \ {y}) = f[z] + Sum(f, R)
      BY <1>1, <3>1
    <3>4. IsFiniteSet(R) /\ \A v \in R : f[v] \in Int
      BY <2>1, FS_Subset
    <3>5. Sum(f, R) \in Int /\ f[y] \in Int /\ f[z] \in Int
      BY <2>2, <3>4, SumType
    <3> HIDE DEF z, R
    <3> QED BY <2>3, <3>2, <3>3, <3>5
  <2> QED BY <2>3, <2>4
<1>2. ASSUME NEW T \in SUBSET S, \A y \in T : T \ {y} \in P PROVE T \in P
  BY <1>1, <1>2
<1>3. SUBSET S \subseteq P
  <2> HIDE DEF P
  <2> QED BY <1>2, SubsetInduction, Zenon
<1> QED BY <1>3

LEMMA SumSame ==
    ASSUME NEW f, NEW g, NEW S, IsFiniteSet(S), \A x \in S : f[x] = g[x]
    PROVE  Sum(f, S) = Sum(g, S)
<1> DEFINE P == {T \in SUBSET S : Sum(f, T) = Sum(g, T)}
<1>1. ASSUME NEW T \in SUBSET S, \A x \in T : T \ {x} \in P PROVE T \in P
  <2>1. CASE T = {}
    BY <2>1, SumEmpty
  <2>2. CASE T # {}
    <3>1. IsFiniteSet(T) BY FS_Subset
    <3>2. Pick(T) \in T /\ Sum(f, T) = f[Pick(T)] + Sum(f, T \ {Pick(T)})
          /\ Sum(g, T) = g[Pick(T)] + Sum(g, T \ {Pick(T)})
      BY <2>2, <3>1, PickIn, SumPick
    <3> QED BY <1>1, <3>2
  <2> QED BY <2>1, <2>2
<1>2. SUBSET S \subseteq P
  <2> HIDE DEF P
  <2> QED BY <1>1, SubsetInduction, Zenon
<1> QED BY <1>2

-----------------------------------------------------------------------------
(* The audit trail.                                                        *)
Trail == {"creditTx", "unrecorded"}
Debts == {"debitTx", "restore", "unrestored"}

Begun == {c \in Calls : pc[c] # "idle"}

Of(u, pcs) == {c \in Calls : user[c] = u /\ pc[c] \in pcs}

(* What a call has moved in a user's wallet without recording it.          *)
Unrecorded(c, u) ==
    IF user[c] # u THEN 0
    ELSE IF pc[c] \in Trail THEN amount[c]
    ELSE IF pc[c] \in Debts THEN -amount[c] ELSE 0

(* Only finitely many calls have begun, so that what they moved has a sum. *)
TrailInv == IsFiniteSet(Begun) /\ Reconciled

LEMMA AmountIsSum ==
    ASSUME NEW u, NEW pcs
    PROVE  AmountOf(u, pcs) = Sum(amount, Of(u, pcs))
  BY DEF AmountOf, Sum, Of

LEMMA AmountIsSumNext ==
    ASSUME NEW u, NEW pcs
    PROVE  AmountOf(u, pcs)' = Sum(amount', Of(u, pcs)')
  BY Zenon DEF AmountOf, Sum, Of, MapThenSumSet, MapThenFoldSet

(* One call changes a sum of amounts by what it brings in, less what it    *)
(* takes out.                                                              *)
LEMMA AmountStep ==
    ASSUME TypeOK, TypeOK', IsFiniteSet(Begun), NEW c \in Calls,
           \A d \in Calls : d # c => SameCall(d),
           NEW u, NEW pcs, "idle" \notin pcs
    PROVE  /\ AmountOf(u, pcs) \in Int
           /\ AmountOf(u, pcs)' = AmountOf(u, pcs)
                 + (IF c \in Of(u, pcs)' THEN amount'[c] ELSE 0)
                 - (IF c \in Of(u, pcs) THEN amount[c] ELSE 0)
<1> DEFINE S == Of(u, pcs)
           T == Of(u, pcs)'
           R == S \ {c}
<1>1. IsFiniteSet(S) /\ \A d \in S : amount[d] \in Int
  <2>1. S \subseteq Begun /\ \A d \in S : amount[d] \in Int
    BY DEF Of, Begun, TypeOK
  <2> QED BY <2>1, FS_Subset
<1>2. R = T \ {c}
  BY DEF Of, SameCall
<1>3. IsFiniteSet(R)
  BY <1>1, FS_Subset
<1>4. IsFiniteSet(T) /\ \A d \in T : amount'[d] \in Int
  <2>1. T \subseteq R \cup {c} /\ \A d \in T : amount'[d] \in Int
    BY <1>2 DEF Of, TypeOK
  <2> QED BY <1>3, <2>1, FS_AddElement, FS_Subset
<1>5. Sum(amount, R) = Sum(amount', R)
  <2>1. \A d \in R : amount[d] = amount'[d]
    BY DEF Of, SameCall
  <2> HIDE DEF R
  <2> QED BY <1>3, <2>1, SumSame
<1>6. Sum(amount, R) \in Int
  BY <1>1, <1>3, SumType
<1>7. Sum(amount, S) = Sum(amount, R) + (IF c \in S THEN amount[c] ELSE 0)
  <2>1. CASE c \in S
    BY <1>1, <1>6, <2>1, SumWithout
  <2>2. CASE c \notin S
    <3>1. R = S BY <2>2
    <3> QED BY <1>6, <2>2, <3>1
  <2> QED BY <2>1, <2>2
<1>8. Sum(amount', T) = Sum(amount', R) + (IF c \in T THEN amount'[c] ELSE 0)
  <2>1. CASE c \in T
    <3>1. Sum(amount', T) = amount'[c] + Sum(amount', T \ {c})
      BY <1>4, <2>1, SumWithout
    <3>2. amount'[c] \in Int BY <1>4, <2>1
    <3> HIDE DEF R, T
    <3> QED BY <1>2, <1>5, <1>6, <2>1, <3>1, <3>2
  <2>2. CASE c \notin T
    <3>1. R = T BY <1>2, <2>2
    <3> QED BY <1>5, <1>6, <2>2, <3>1
  <2> QED BY <2>1, <2>2
<1>9. amount[c] \in Int /\ amount'[c] \in Int
  BY DEF TypeOK
<1> HIDE DEF S, T, R
<1>10. AmountOf(u, pcs) = Sum(amount, S) /\ AmountOf(u, pcs)' = Sum(amount', T)
  BY AmountIsSum, AmountIsSumNext DEF S, T
<1>11. /\ Sum(amount, S) \in Int
       /\ Sum(amount', T) = Sum(amount, S) + (IF c \in T THEN amount'[c] ELSE 0)
                                             - (IF c \in S THEN amount[c] ELSE 0)
  BY <1>5, <1>6, <1>7, <1>8, <1>9
<1> QED BY <1>10, <1>11 DEF S, T

(* A step of one call keeps the books if it moves the difference between a *)
(* balance and its record by what the call leaves unrecorded.              *)
LEMMA OneCallReconciles ==
    ASSUME TypeOK, TypeOK', TrailInv, NEW c \in Calls,
           \A d \in Calls : d # c => SameCall(d),
           \A u \in Users : balance'[u] - ledger'[u]
               = balance[u] - ledger[u] + Unrecorded(c, u)' - Unrecorded(c, u)
    PROVE  TrailInv'
<1>1. IsFiniteSet(Begun')
  <2>1. Begun' \subseteq Begun \cup {c}
    BY DEF Begun, SameCall
  <2> QED BY <2>1, FS_AddElement, FS_Subset DEF TrailInv
<1>2. ASSUME NEW u \in Users
      PROVE  balance'[u] = ledger'[u] + AmountOf(u, Trail)' - AmountOf(u, Debts)'
  <2>1. /\ AmountOf(u, Trail) \in Int
        /\ AmountOf(u, Trail)' = AmountOf(u, Trail)
              + (IF c \in Of(u, Trail)' THEN amount'[c] ELSE 0)
              - (IF c \in Of(u, Trail) THEN amount[c] ELSE 0)
    BY AmountStep, "idle" \notin Trail DEF TrailInv, Trail
  <2>2. /\ AmountOf(u, Debts) \in Int
        /\ AmountOf(u, Debts)' = AmountOf(u, Debts)
              + (IF c \in Of(u, Debts)' THEN amount'[c] ELSE 0)
              - (IF c \in Of(u, Debts) THEN amount[c] ELSE 0)
    BY AmountStep, "idle" \notin Debts DEF TrailInv, Debts
  <2>3. balance[u] = ledger[u] + AmountOf(u, Trail) - AmountOf(u, Debts)
    BY DEF TrailInv, Reconciled, Trail, Debts
  <2>4. /\ balance[u] \in Int /\ ledger[u] \in Int /\ amount[c] \in Int
        /\ balance'[u] \in Int /\ ledger'[u] \in Int /\ amount'[c] \in Int
    BY DEF TypeOK
  <2>5. Unrecorded(c, u) = (IF c \in Of(u, Trail) THEN amount[c] ELSE 0)
                           - (IF c \in Of(u, Debts) THEN amount[c] ELSE 0)
    BY <2>4 DEF Unrecorded, Of, Trail, Debts
  <2>6. Unrecorded(c, u)' = (IF c \in Of(u, Trail)' THEN amount'[c] ELSE 0)
                            - (IF c \in Of(u, Debts)' THEN amount'[c] ELSE 0)
    BY <2>4 DEF Unrecorded, Of, Trail, Debts
  <2>7. balance'[u] - ledger'[u] = balance[u] - ledger[u] + Unrecorded(c, u)' - Unrecorded(c, u)
    OBVIOUS
  <2> QED BY <2>1, <2>2, <2>3, <2>4, <2>5, <2>6, <2>7
<1> QED BY <1>1, <1>2 DEF TrailInv, Reconciled, Trail, Debts

(* What a handler that starts does to its user: a covered deduct takes the *)
(* money and owes the record, every other start moves nothing.             *)
LEMMA StartReconciles ==
    ASSUME IInv, TrailInv, NEW c \in Calls, Start(c)
    PROVE  TrailInv'
<1>0. TypeOK /\ TypeOK' /\ \A d \in Calls : d # c => SameCall(d)
  BY StartIInv, StartKeeps DEF IInv
<1>1. pc[c] = "idle" /\ \A u : Unrecorded(c, u) = 0
  <2>1. pc[c] = "idle" BY StartsIdle
  <2> QED BY <2>1 DEF Unrecorded, Trail, Debts
<1>2. ASSUME UNCHANGED <<balance, ledger>>, pc'[c] \notin Trail \cup Debts
      PROVE  TrailInv'
  <2>1. \A u : Unrecorded(c, u)' = 0
    BY <1>2 DEF Unrecorded
  <2>2. \A u \in Users : balance'[u] - ledger'[u] = balance[u] - ledger[u] + 0 - 0
    BY <1>0, <1>2 DEF TypeOK
  <2> QED BY <1>0, <1>1, <2>1, <2>2, OneCallReconciles
<1>3. ASSUME NEW v \in Users, NEW a \in Amounts, NEW o \in Refs, deduct(c, v, a, o)
      PROVE  TrailInv'
  <2>1. CASE v \in wallets /\ balance[v] >= a
    <3>1. /\ balance' = [balance EXCEPT ![v] = @ - a] /\ ledger' = ledger
          /\ pc'[c] = "debitTx" /\ user'[c] = v /\ amount'[c] = a
      BY <1>0, <1>3, <2>1 DEF deduct, Begin, TypeOK
    <3>2. a \in Int
      BY WalletAssumption DEF WalletAssumption
    <3>3. ASSUME NEW u \in Users
          PROVE  balance'[u] - ledger'[u] = balance[u] - ledger[u] + Unrecorded(c, u)' - 0
      <4>1. Unrecorded(c, u)' = IF u = v THEN -a ELSE 0
        BY <3>1 DEF Unrecorded, Trail, Debts
      <4>2. balance[u] \in Int /\ ledger[u] \in Int
        BY <1>0 DEF TypeOK
      <4>3. balance'[u] = balance[u] + (IF u = v THEN -a ELSE 0)
        BY <1>0, <3>1, <3>2, <4>2 DEF TypeOK
      <4> QED BY <3>1, <3>2, <4>1, <4>2, <4>3
    <3> QED BY <1>0, <1>1, <3>3, OneCallReconciles
  <2>2. CASE ~(v \in wallets /\ balance[v] >= a)
    <3>1. UNCHANGED <<balance, ledger>> /\ pc'[c] = "rejected"
      BY <1>0, <1>3, <2>2 DEF deduct, Begin, TypeOK
    <3> QED BY <1>2, <3>1 DEF Trail, Debts
  <2> QED BY <2>1, <2>2
<1>4. ASSUME ~\E v \in Users, a \in Amounts, o \in Refs : deduct(c, v, a, o)
      PROVE  TrailInv'
  <2>1. UNCHANGED <<balance, ledger>>
    BY <1>4 DEF Start, topup, agentTopup, refund, approveTopupRequest, rejectTopupRequest,
                updateWallet, updateWalletAmount
  <2>2. PICK o, next, u, a, r :
           /\ Begin(c, o, next, u, a, r)
           /\ next \in {"credit", "skipped", "rejected", "reject", "adjust"}
    <3>1. CASE \E u \in Users, a \in Amounts : topup(c, u, a) \/ agentTopup(c, u, a)
      BY <3>1 DEF topup, agentTopup
    <3>2. CASE \E u \in Users, a \in Amounts, o \in Refs : refund(c, u, a, o)
      BY <3>2 DEF refund
    <3>3. CASE \E r \in Requests : approveTopupRequest(c, r) \/ rejectTopupRequest(c, r)
      BY <3>3 DEF approveTopupRequest, rejectTopupRequest
    <3>4. CASE \/ \E u \in Adjusted, t \in LegacyTargets : updateWallet(c, u, t)
               \/ \E u \in Adjusted, d \in LegacyDeltas : updateWalletAmount(c, u, d)
      BY <3>4 DEF updateWallet, updateWalletAmount
    <3> QED BY <1>4, <3>1, <3>2, <3>3, <3>4 DEF Start
  <2>3. pc'[c] = next
    BY <1>0, <2>2 DEF Begin, TypeOK
  <2> QED BY <1>2, <2>1, <2>2, <2>3 DEF Trail, Debts
<1> QED BY <1>3, <1>4

(* A collection of amounts in which one user's amount moves.               *)
Moves(f, g, v, x) == \A u \in Users : g[u] = IF u = v THEN f[u] + x ELSE f[u]

LEMMA MovesAlong ==
    ASSUME NEW f \in [Users -> Int], NEW v, NEW x \in Int
    PROVE  /\ Moves(f, [f EXCEPT ![v] = @ + x], v, x)
           /\ Moves(f, [f EXCEPT ![v] = @ - x], v, -x)
           /\ Moves(f, f, v, 0)
  BY DEF Moves

(* What each later step of a handler does to its user.                     *)
LEMMA ContinueReconciles ==
    ASSUME IInv, TrailInv, NEW c \in Calls, Continue(c)
    PROVE  TrailInv'
<1>0. TypeOK /\ TypeOK' /\ CallOK(c)
  BY ContinueIInv DEF IInv
<1>v. PICK v, a : v = user[c] /\ a = amount[c]
  OBVIOUS
<1>1. UNCHANGED args /\ \A d \in Calls : d # c => SameCall(d)
  <2>1. PICK next : Goto(c, next)
    BY DEF Continue, CreditWallet, RecordCredit, RecordDebit, RestoreBalance, SaveReview,
           updateWalletBalance, WriteFails
  <2> QED BY <1>0, <2>1 DEF Goto, args, TypeOK, SameCall
<1>2. ASSUME NEW x \in Int, NEW y \in Int,
             Moves(balance, balance', v, x), Moves(ledger, ledger', v, y),
             v \in Users => Unrecorded(c, v)' = Unrecorded(c, v) + x - y
      PROVE  TrailInv'
  <2>1. ASSUME NEW u \in Users
        PROVE  balance'[u] - ledger'[u]
                 = balance[u] - ledger[u] + Unrecorded(c, u)' - Unrecorded(c, u)
    <3>1. balance[u] \in Int /\ ledger[u] \in Int /\ amount[c] \in Int
      BY <1>0 DEF TypeOK
    <3>2. Unrecorded(c, u) \in Int
      BY <3>1 DEF Unrecorded
    <3>3. u # v => Unrecorded(c, u)' = 0 /\ Unrecorded(c, u) = 0
      BY <1>v, <1>1 DEF Unrecorded, args
    <3>4. CASE u = v
      <4>1. balance'[u] = balance[u] + x /\ ledger'[u] = ledger[u] + y
        BY <1>2, <3>4 DEF Moves
      <4>2. Unrecorded(c, u)' = Unrecorded(c, u) + x - y
        BY <1>2, <3>4
      <4> QED BY <3>1, <3>2, <4>1, <4>2
    <3>5. CASE u # v
      <4>1. balance'[u] = balance[u] /\ ledger'[u] = ledger[u]
        BY <1>2, <3>5 DEF Moves
      <4> QED BY <3>1, <3>3, <3>5, <4>1
    <3> QED BY <3>4, <3>5
  <2> QED BY <1>0, <1>1, <2>1, OneCallReconciles
<1>3. /\ a \in Int /\ balance \in [Users -> Int] /\ ledger \in [Users -> Int]
      /\ user[c] = v /\ amount[c] = a /\ user'[c] = v /\ amount'[c] = a
  BY <1>v, <1>0, <1>1 DEF TypeOK, args
<1>4. CASE CreditWallet(c)
  <2>1. CASE user[c] \in wallets
    <3>1. /\ balance' = [balance EXCEPT ![v] = @ + a] /\ ledger' = ledger
          /\ pc[c] = "credit" /\ pc'[c] = "creditTx" /\ v \in Users
      BY <1>0, <1>3, <1>4, <2>1 DEF CreditWallet, Goto, TypeOK
    <3>2. Unrecorded(c, v)' = Unrecorded(c, v) + a - 0
      BY <1>3, <3>1 DEF Unrecorded, Trail, Debts
    <3>3. Moves(balance, balance', v, a) /\ Moves(ledger, ledger', v, 0)
      BY <1>3, <3>1, MovesAlong
    <3> QED BY <1>2, <1>3, <3>1, <3>2, <3>3
  <2>2. CASE user[c] \notin wallets
    <3>1. /\ balance' = balance /\ ledger' = ledger
          /\ pc[c] = "credit" /\ pc'[c] = "rejected"
      BY <1>0, <1>3, <1>4, <2>2 DEF CreditWallet, Goto, TypeOK
    <3>2. Unrecorded(c, v)' = Unrecorded(c, v) + 0 - 0
      BY <1>3, <3>1 DEF Unrecorded, Trail, Debts
    <3>3. Moves(balance, balance', v, 0) /\ Moves(ledger, ledger', v, 0)
      BY <1>3, <3>1, MovesAlong
    <3> QED BY <1>2, <1>3, <3>1, <3>2, <3>3
  <2> QED BY <2>1, <2>2
<1>5. CASE RecordCredit(c)
  <2>1. /\ ledger' = [ledger EXCEPT ![v] = @ + a] /\ balance' = balance
        /\ pc[c] = "creditTx" /\ pc'[c] \in {"approve", "done"} /\ v \in Users
    BY <1>0, <1>3, <1>5 DEF RecordCredit, Goto, TypeOK, CallOK
  <2>2. Unrecorded(c, v)' = Unrecorded(c, v) + 0 - a
    BY <1>3, <2>1 DEF Unrecorded, Trail, Debts
  <2>3. Moves(balance, balance', v, 0) /\ Moves(ledger, ledger', v, a)
    BY <1>3, <2>1, MovesAlong
  <2> QED BY <1>2, <1>3, <2>1, <2>2, <2>3
<1>6. CASE RecordDebit(c)
  <2>1. /\ ledger' = [ledger EXCEPT ![v] = @ - a] /\ balance' = balance
        /\ pc[c] = "debitTx" /\ pc'[c] = "done" /\ v \in Users
    BY <1>0, <1>3, <1>6 DEF RecordDebit, Goto, TypeOK, CallOK
  <2>2. Unrecorded(c, v)' = Unrecorded(c, v) + 0 - (-a) /\ -a \in Int
    BY <1>3, <2>1 DEF Unrecorded, Trail, Debts
  <2>3. Moves(balance, balance', v, 0) /\ Moves(ledger, ledger', v, -a)
    BY <1>3, <2>1, MovesAlong
  <2> QED BY <1>2, <1>3, <2>1, <2>2, <2>3
<1>7. CASE RestoreBalance(c)
  <2>1. /\ balance' = [balance EXCEPT ![v] = @ + a] /\ ledger' = ledger
        /\ pc[c] = "restore" /\ pc'[c] = "rejected" /\ v \in Users
    BY <1>0, <1>3, <1>7 DEF RestoreBalance, Goto, TypeOK, CallOK
  <2>2. Unrecorded(c, v)' = Unrecorded(c, v) + a - 0
    BY <1>3, <2>1 DEF Unrecorded, Trail, Debts
  <2>3. Moves(balance, balance', v, a) /\ Moves(ledger, ledger', v, 0)
    BY <1>3, <2>1, MovesAlong
  <2> QED BY <1>2, <1>3, <2>1, <2>2, <2>3
<1>8. CASE updateWalletBalance(c)
  <2>1. /\ balance' = [balance EXCEPT ![v] = @ + a] /\ ledger' = ledger
        /\ pc[c] = "adjust" /\ pc'[c] = "unrecorded" /\ v \in Users
    BY <1>0, <1>3, <1>8, WalletAssumption DEF updateWalletBalance, Goto, TypeOK, CallOK, WalletAssumption
  <2>2. Unrecorded(c, v)' = Unrecorded(c, v) + a - 0
    BY <1>3, <2>1 DEF Unrecorded, Trail, Debts
  <2>3. Moves(balance, balance', v, a) /\ Moves(ledger, ledger', v, 0)
    BY <1>3, <2>1, MovesAlong
  <2> QED BY <1>2, <1>3, <2>1, <2>2, <2>3
<1>9. CASE SaveReview(c) \/ WriteFails(c)
  <2>1. balance' = balance /\ ledger' = ledger
    BY <1>9 DEF SaveReview, WriteFails
  <2>2. (pc'[c] \in Trail) = (pc[c] \in Trail) /\ (pc'[c] \in Debts) = (pc[c] \in Debts)
    BY <1>0, <1>9 DEF SaveReview, WriteFails, Goto, TypeOK, EndedAt, Waiting, Trail, Debts
  <2>3. Unrecorded(c, v)' = Unrecorded(c, v) + 0 - 0
    BY <1>3, <2>2 DEF Unrecorded
  <2>4. Moves(balance, balance', v, 0) /\ Moves(ledger, ledger', v, 0)
    BY <1>3, <2>1, MovesAlong
  <2> QED BY <1>2, <2>3, <2>4
<1> QED BY <1>4, <1>5, <1>6, <1>7, <1>8, <1>9 DEF Continue

(* Steps that leave every sum as it is: a restart leaves what was          *)
(* unrecorded unrecorded for good.                                         *)
LEMMA SumsKept ==
    ASSUME TrailInv, UNCHANGED <<balance, ledger, user, amount>>,
           \A c \in Calls : /\ pc'[c] = "idle" => pc[c] = "idle"
                            /\ pc[c] = "idle" => pc'[c] = "idle"
                            /\ (pc'[c] \in Trail) = (pc[c] \in Trail)
                            /\ (pc'[c] \in Debts) = (pc[c] \in Debts)
    PROVE  TrailInv'
<1>1. Begun' = Begun
  BY DEF Begun
<1>2. \A u : Of(u, Trail)' = Of(u, Trail) /\ Of(u, Debts)' = Of(u, Debts)
  BY DEF Of
<1>3. \A u : /\ AmountOf(u, Trail)' = AmountOf(u, Trail)
              /\ AmountOf(u, Debts)' = AmountOf(u, Debts)
  BY <1>2, AmountIsSum, AmountIsSumNext
<1>4. \A u \in Users : balance'[u] = ledger'[u] + AmountOf(u, Trail)' - AmountOf(u, Debts)'
  BY <1>3 DEF TrailInv, Reconciled, Trail, Debts
<1> QED BY <1>1, <1>4 DEF TrailInv, Reconciled, Trail, Debts

LEMMA NextReconciles ==
    ASSUME IInv, TrailInv, [Next]_vars
    PROVE  TrailInv'
<1>0. TypeOK BY DEF IInv
<1>1. ASSUME NEW c \in Calls, Start(c) \/ Continue(c) PROVE TrailInv'
  BY <1>1, StartReconciles, ContinueReconciles
<1>2. CASE Crash
  <2>1. \A c \in Calls :
           /\ pc'[c] = "idle" => pc[c] = "idle"
           /\ pc[c] = "idle" => pc'[c] = "idle"
           /\ (pc'[c] \in Trail) = (pc[c] \in Trail)
           /\ (pc'[c] \in Debts) = (pc[c] \in Debts)
    BY <1>0, <1>2 DEF Crash, TypeOK, EndedAt, Waiting, Trail, Debts
  <2> QED BY <1>2, <2>1, SumsKept DEF Crash, args
<1>3. CASE \/ \E u \in Users : createWallet(u)
           \/ \E r \in Requests, u \in Users, a \in Amounts : submitTopupRequest(r, u, a)
           \/ UNCHANGED vars
  <2>1. UNCHANGED <<balance, ledger, user, amount, pc>>
    BY <1>3 DEF createWallet, submitTopupRequest, vars, args
  <2> QED BY <2>1, SumsKept
<1> QED BY <1>1, <1>2, <1>3 DEF Next

LEMMA InitReconciles ==
    ASSUME Init
    PROVE  TrailInv
<1>1. Begun = {} /\ IsFiniteSet(Begun)
  BY FS_EmptySet DEF Init, Begun
<1>2. \A u : Of(u, Trail) = {} /\ Of(u, Debts) = {}
  BY DEF Init, Of, Trail, Debts
<1>3. \A u : AmountOf(u, Trail) = 0 /\ AmountOf(u, Debts) = 0
  BY <1>2, AmountIsSum, SumEmpty
<1>4. \A u \in Users : balance[u] = ledger[u] + 0 - 0
  BY WalletAssumption DEF Init, WalletAssumption
<1> QED BY <1>1, <1>3, <1>4 DEF TrailInv, Reconciled, Trail, Debts

(* The audit trail explains every balance, up to the calls that say what   *)
(* they left unrecorded, for any number of handlers however they overlap,  *)
(* fail or are cut short.                                                  *)
THEOREM WalletReconciled == Spec => []Reconciled
<1>1. Init => TrailInv
  BY InitReconciles
<1>2. IInv /\ TrailInv /\ [Next]_vars => TrailInv'
  BY NextReconciles
<1>3. TrailInv => Reconciled
  BY DEF TrailInv
<1> QED BY InitIInv, NextIInv, <1>1, <1>2, <1>3, PTL DEF Spec
=============================================================================
