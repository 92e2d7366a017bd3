----------------------------- MODULE MCOccupancy -----------------------------
(* Names for small organizations; the sizes are in the .cfg files. *)
EXTENDS OccupancyFigures

CONSTANTS c1, c2, u1, u2, l1, l2

\* A unit in each of two properties.
MCPropertyOf == [u \in Units |-> IF u = u1 THEN 1 ELSE 2]
=============================================================================
