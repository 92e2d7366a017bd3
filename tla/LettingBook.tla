----------------------------- MODULE LettingBook -----------------------------
(***************************************************************************)
(* What leases and unit statuses promise together, with no requests, jobs  *)
(* or lease statuses: a book of units in which a tenant moves into a unit  *)
(* that is free, and nobody else until that tenant has moved out; a unit   *)
(* is put on or taken off the market only while it is empty, and removed   *)
(* only if it never had a tenant.  Occupancy implements it.                *)
(***************************************************************************)
CONSTANTS Units, Leases, None

VARIABLES home,     \* the unit of each lease that was ever signed
          tenant,   \* the lease by which each unit is let
          market    \* each unit is "free", "let", "off" the market, or "gone"

bookVars == <<home, tenant, market>>

Empty == {"free", "off"}

Init ==
    /\ home = [l \in Leases |-> None]
    /\ tenant = [u \in Units |-> None]
    /\ market = [u \in Units |-> "free"]

MoveIn(l, u) ==
    /\ home[l] = None
    /\ market[u] = "free"
    /\ home' = [home EXCEPT ![l] = u]
    /\ tenant' = [tenant EXCEPT ![u] = l]
    /\ market' = [market EXCEPT ![u] = "let"]

\* Whoever moves out frees the unit they had.
MoveOut(l) ==
    /\ home[l] # None
    /\ tenant[home[l]] = l
    /\ tenant' = [tenant EXCEPT ![home[l]] = None]
    /\ \E m \in Empty : market' = [market EXCEPT ![home[l]] = m]
    /\ UNCHANGED home

SetAside(u) ==
    /\ market[u] \in Empty
    /\ \E m \in Empty : market' = [market EXCEPT ![u] = m]
    /\ UNCHANGED <<home, tenant>>

Remove(u) ==
    /\ market[u] \in Empty
    /\ \A l \in Leases : home[l] # u
    /\ market' = [market EXCEPT ![u] = "gone"]
    /\ UNCHANGED <<home, tenant>>

Next ==
    \/ \E l \in Leases, u \in Units : MoveIn(l, u)
    \/ \E l \in Leases : MoveOut(l)
    \/ \E u \in Units : SetAside(u) \/ Remove(u)

Spec == Init /\ [][Next]_bookVars
=============================================================================
