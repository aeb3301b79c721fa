------------------------------- MODULE MCUsers -------------------------------
(* Users on a small instance: accounts and requests are interchangeable.   *)
EXTENDS Users, TLC

Symmetry == Permutations(Ids) \cup Permutations(Requests) \cup Permutations(Emails)
=============================================================================
