------------------------------ MODULE MCNightly ------------------------------
(* A month of two days; the sizes are in the .cfg. *)
EXTENDS Nightly

CONSTANTS l1, j1, w1, w2, o1, s1

MCFirstDay == [m \in Months |-> 2 * m]
MCFinalDay == [m \in Months |-> 2 * m + 1]
=============================================================================
