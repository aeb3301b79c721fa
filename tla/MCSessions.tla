----------------------------- MODULE MCSessions -----------------------------
(* Sessions on a small instance, whose elements are interchangeable.       *)
EXTENDS Sessions, TLC

Symmetry == Permutations(Ids) \cup Permutations(Codes) \cup Permutations(Requests)
=============================================================================
