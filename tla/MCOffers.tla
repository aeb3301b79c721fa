------------------------------ MODULE MCOffers ------------------------------
(* Offers on a small instance, whose elements are interchangeable.         *)
EXTENDS Offers, TLC

Symmetry == Permutations(Customers) \cup Permutations(Items) \cup Permutations(Memberships)
                \cup Permutations(Promotions) \cup Permutations(Requests)
=============================================================================
