------------------------------- MODULE MCStock -------------------------------
(* Stock on a small instance: food and coffee machines.                    *)
EXTENDS Stock, TLC

(* A batch is good until the end of the second it is loaded in, so that    *)
(* batches loaded at the last tick of the clock do not expire.             *)
MCShelfLife == {0}

(* What nothing in the DTO of updateInventory keeps out.                   *)
MCStocks == {-3}
MCDoses == {-1, 0}

(* On a food machine either the batches are looked at or the inventory:    *)
(* the handlers of neither read what those of the other write.             *)
Apart ==
    food => \/ \A e \in Edits : edit[e] = "idle"
            \/ Loaded = {} /\ \A p \in Sales : pc[p] = "idle"
=============================================================================
