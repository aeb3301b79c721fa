------------------------------ MODULE MCOrders ------------------------------
(* Orders on small instances: one machine m1, orders of one customer who   *)
(* taps twice, through the new and the legacy endpoint.                    *)
EXTENDS Orders

CONSTANTS m1, o1, o2

MCMachineOf  == [o \in Orders |-> m1]
OneUser      == [o \in Orders |-> "u1"]
AllApp       == [o \in Orders |-> "app"]
AppAndLegacy == [o \in Orders |-> IF o = o1 THEN "app" ELSE "legacy"]
=============================================================================
