--------------------------- MODULE MCOrganizations ---------------------------
(* Organizations on a small instance.  The seeded machine and its client   *)
(* are not interchangeable with the others.                                *)
EXTENDS Organizations, TLC

Symmetry == Permutations(Orgs) \cup Permutations(Clients \ {SeedClient})
                \cup Permutations(Machines \ Seeded) \cup Permutations(Requests)
=============================================================================
