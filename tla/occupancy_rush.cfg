SPECIFICATION Spec
CONSTANTS
    c1 = c1
    c2 = c2
    u1 = u1
    u2 = u2
    l1 = l1
    l2 = l2
    None = None
    Clients = {c1, c2}
    Units = {u1}
    Leases = {l1, l2}
    LastDay = 2
    EndDates = {1, 3}
    WarnDays = 1
    Manual = {"VACANT"}
    PropertyOf <- MCPropertyOf
    Horizon = 1
CHECK_DEADLOCK FALSE
INVARIANTS OneActiveLease
PROPERTIES TerminatedForever
