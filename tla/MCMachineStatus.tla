--------------------------- MODULE MCMachineStatus ---------------------------
(* MachineStatus on a small instance.                                      *)
EXTENDS MachineStatus, TLC
=============================================================================
