----------------------------- MODULE MCSessions -----------------------------
(* Names for one account; the sizes are in the .cfg files. *)
EXTENDS Sessions, TLC

CONSTANTS c1, c2, s1, s2, l1, l2

MCSymmetry == Permutations({c1, c2}) \cup Permutations({s1, s2})
=============================================================================
