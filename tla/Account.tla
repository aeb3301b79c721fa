------------------------------- MODULE Account -------------------------------
(***************************************************************************)
(* What the wallet promises to the rest of the backend, stated without any *)
(* of the steps it takes to get there: every customer has one balance, and *)
(* the only things that ever happen to it are an atomic credit and an      *)
(* atomic debit that the balance covers.  Only the balance of a customer   *)
(* an administrator adjusts may also be changed to anything.               *)
(***************************************************************************)
EXTENDS Integers

CONSTANTS
    Users,      \* customers
    Adjusted,   \* those whose balance administrators adjust
    Opening,    \* the balance each of them starts with
    Amounts     \* what one operation may move

VARIABLE balance

Credit(u, a) == balance' = [balance EXCEPT ![u] = @ + a]

Debit(u, a) ==
    /\ a <= balance[u]
    /\ balance' = [balance EXCEPT ![u] = @ - a]

Adjust(u) == balance' = [balance EXCEPT ![u] = balance'[u]]

Init == balance = Opening

Next ==
    \/ \E u \in Users, a \in Amounts : Credit(u, a) \/ Debit(u, a)
    \/ \E u \in Adjusted : Adjust(u)

Spec == Init /\ [][Next]_balance
=============================================================================
