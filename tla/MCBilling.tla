------------------------------ MODULE MCBilling ------------------------------
(* Months of two days; the sizes are in the .cfg. *)
EXTENDS Billing

CONSTANTS l1, b1, j1

MCFirstDay == [m \in Months |-> 2 * m]
MCFinalDay == [m \in Months |-> 2 * m + 1]
=============================================================================
