\* Two requests at a time on a small portfolio.
SPECIFICATION Spec
CONSTANTS
    c1 = c1
    c2 = c2
    p1 = p1
    p2 = p2
    b1 = b1
    u1 = u1
    u2 = u2
    t1 = t1
    x1 = x1
    d1 = d1
    n1 = n1
    None = None
    Gone = Gone
    MaxLeases = 1
    Keep = Keep
    Clients = {c1, c2}
    Props = {p1, p2}
    Blocks = {b1}
    Units = {u1, u2}
    Tenants = {t1}
    Expenses = {x1}
    Docs = {d1}
    Numbers = {n1}
    Entities = {x1}
CHECK_DEADLOCK FALSE
SYMMETRY MCSymmetry
INVARIANTS NothingDangles WellPlaced DocumentHasObject
