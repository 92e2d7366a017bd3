\* One administrator's request at a time, whoever sends it.
SPECIFICATION FairSpec
CONSTANTS
    c1 = c1
    c2 = c2
    u1 = u1
    u2 = u2
    p1 = p1
    p2 = p2
    None = None
    Clients = {c1}
    Users = {u1, u2}
    Founder = u1
    Props = {p1, p2}
CHECK_DEADLOCK FALSE
INVARIANTS AnActiveOwner UnscopedHaveNone
PROPERTIES CacheCatchesUp
