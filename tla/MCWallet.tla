------------------------------ MODULE MCWallet ------------------------------
(* Wallet on small instances.                                              *)
EXTENDS Wallet, TLC

CONSTANTS u1, u2

(* u1 starts with money to spend, u2 without a wallet.                     *)
MCOpening == [u \in Users |-> IF u = u1 THEN 3 ELSE 0]

(* What PUT /update-wallet-amount is sent: a correction downwards.         *)
MCDeltas == {-2}

(* Handler invocations are interchangeable until they begin.               *)
MCSymmetry == Permutations(Calls)
=============================================================================
