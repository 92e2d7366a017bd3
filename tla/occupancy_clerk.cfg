\* One client at a time beside the nightly job.
SPECIFICATION FairSpec
CONSTANTS
    c1 = c1
    c2 = c2
    u1 = u1
    u2 = u2
    l1 = l1
    l2 = l2
    None = None
    Clients = {c1}
    Units = {u1, u2}
    Leases = {l1, l2}
    LastDay = 2
    EndDates = {1, 3}
    WarnDays = 1
    Manual = {"VACANT", "MAINTENANCE"}
    PropertyOf <- MCPropertyOf
    Horizon = 1
CHECK_DEADLOCK FALSE
INVARIANTS
    UnitFollowsLease
    OccupancyTold
PROPERTIES
    ImplementsLetting
    LapsedLeasesSurface
    WorklistCleared
