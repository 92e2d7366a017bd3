---------------------------- MODULE MCMaintenance ----------------------------
(* Names for a maintenance desk, and what may be exchanged. *)
EXTENDS Maintenance, TLC

CONSTANTS c1, c2, s1, s2

MCSymmetry == Permutations(Clients) \cup Permutations(Staff)
=============================================================================
