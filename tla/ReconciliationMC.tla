--------------------------- MODULE ReconciliationMC ---------------------------
(* Small instances of Reconciliation. *)
EXTENDS Reconciliation

MCValue == [i \in Instruments |-> 1]
=============================================================================
