----------------------------- MODULE MCPortfolio -----------------------------
(* Names for one organization; the sizes are in the .cfg. *)
EXTENDS Portfolio, TLC

CONSTANTS c1, c2, p1, p2, b1, u1, u2, t1, x1, d1, n1

MCSymmetry ==
    Permutations({c1, c2}) \cup Permutations({p1, p2}) \cup Permutations({u1, u2})
=============================================================================
