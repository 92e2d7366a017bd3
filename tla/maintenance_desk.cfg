\* Two clients that overtake one another.
SPECIFICATION Spec
CONSTANTS
    c1 = c1
    c2 = c2
    s1 = s1
    s2 = s2
    None = None
    Clients = {c1, c2}
    Staff = {s1}
    Costs = {100}
    MaxEntries = 3
CHECK_DEADLOCK FALSE
SYMMETRY MCSymmetry
INVARIANTS CompletedWasWorked TimelineTellsStatus
