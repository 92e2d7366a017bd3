---------------------------- MODULE MCStaffAccess ----------------------------
(* Names for small offices; the sizes are in the .cfg files. *)
EXTENDS StaffAccess

CONSTANTS c1, c2, u1, u2, p1, p2
=============================================================================
